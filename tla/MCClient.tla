---- MODULE MCClient ----
(***************************************************************************)
(* Five accounts: owner, manager and seller of a workspace with every      *)
(* feature, whose owner administers the platform, and owner and agent of   *)
(* one without features.                                                   *)
(***************************************************************************)
EXTENDS Client

Account(name, role, admin, paid, workspace) ==
    [name |-> name, role |-> role, admin |-> admin, paid |-> paid, workspace |-> workspace]

MCUsers == {Account("ana", "owner", TRUE, TRUE, 1), Account("bia", "manager", FALSE, TRUE, 1),
            Account("caio", "seller", FALSE, TRUE, 1), Account("davi", "agent", FALSE, FALSE, 2),
            Account("eva", "owner", FALSE, FALSE, 2)}
MCVisitor == Account("visitor", "none", FALSE, FALSE, 0)
====
