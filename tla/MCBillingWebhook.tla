-------------------------- MODULE MCBillingWebhook --------------------------
(* Instances of BillingWebhook for TLC. *)
EXTENDS BillingWebhook, TLC

CONSTANTS sub1, sub2, h1, h2

Says(type, sub, status, ending) ==
    [type |-> type, sub |-> sub, status |-> status, ending |-> ending]

\* A subscription that is created, paid, set to end and deleted, and the one
\* the customer buys afterwards.
Lifecycle == <<Says("updated", sub1, "incomplete", FALSE),
               Says("checkout", sub1, "active", FALSE),
               Says("payment_failed", sub1, "past_due", FALSE),
               Says("updated", sub1, "active", TRUE),
               Says("deleted", sub1, "canceled", FALSE),
               Says("updated", sub2, "trialing", FALSE)>>
\* Its first four events, for the runs with concurrent requests.
Start == <<Says("updated", sub1, "trialing", FALSE),
           Says("checkout", sub1, "active", FALSE),
           Says("updated", sub1, "active", TRUE),
           Says("deleted", sub1, "canceled", FALSE)>>

SymHandlers == Permutations(Handlers)
=============================================================================
