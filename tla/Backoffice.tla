----------------------------- MODULE Backoffice -----------------------------
(***************************************************************************)
(* The components behind the office pages: users, signup, one-time codes,   *)
(* agendas, pipelines with their stages and lists, plans, and leads.  Each  *)
(* has tables and keys of its own and shares none with another here, so a   *)
(* step of the office is a step of one of them.                             *)
(***************************************************************************)
EXTENDS Integers, FiniteSets, Sequences

CONSTANTS
    Requests, None,
    Users, Owner, Assigned, Roles, Limit, MaxUserRequests,            \* Accounts
    Otps, Addresses, AddressOf, MaxAttempts, MaxCodes, MaxCodeRequests, \* Signup, OneTimeCodes
    Appointments, Days, DayLength, Offset, Lengths, Hours, MaxBookings, \* Agendas
    TTL, MaxFetch, MaxTime, MaxReads,                                 \* Catalogue, Subscriptions
    Pipelines, Stages, Readers, MaxCatalogueWrites, MaxFailures,      \* Catalogue
    Slugs, MaxPlanWrites,                                             \* Subscriptions
    Leads, Contacts, Assignees, LeadLabels, LeadStatuses, LeadStages, NoLead, MaxLeadRequests  \* Leads

VARIABLES
    accUsers, accRequests, accTodo, accServed, accFate, accAsked, accLate, accJoined,
    accUncounted,
    signRows, signAge, signWorkspaces, signRequests, signSent, signServed, signFailures,
    signCrossed, signOverlapped,
    otpStored, otpAttempts, otpIssued, otpSent, otpTokens, otpConsumed, otpApplied,
    otpRequests, otpServed, otpCrossed, otpOverlapped,
    agHours, agRemoved, agAppointments, agRequests, agServed, agUnchecked, agCrossed,
    catPipeline, catStage, catRemoved, catCache, catEnded, catAnswer, catShown, catKept,
    catOverlaps, catReader, catWriter, catNow, catReads, catWrites, catFailures,
    subRow, subPlans, subEntry, subRequest, subGuard, subRowEnded, subPlansEnded, subAnswer,
    subLast, subRenamed, subOverlaps, subNow, subChecks, subWrites,
    leadLeads, leadContacts, leadRequests, leadServed, leadWant, leadIgnored, leadCrossed,
    leadPurged

A == INSTANCE Accounts WITH
    Ids <- Users, MaxRequests <- MaxUserRequests, NoUser <- None, NoId <- None,
    users <- accUsers, requests <- accRequests, todo <- accTodo, served <- accServed,
    fate <- accFate, asked <- accAsked, late <- accLate, joined <- accJoined,
    uncounted <- accUncounted

S == INSTANCE Signup WITH
    MaxRequests <- MaxCodeRequests, NoRow <- None, NoOtp <- None,
    rows <- signRows, age <- signAge, workspaces <- signWorkspaces, requests <- signRequests,
    sent <- signSent, served <- signServed, failures <- signFailures, crossed <- signCrossed,
    overlapped <- signOverlapped

O == INSTANCE OneTimeCodes WITH
    MaxRequests <- MaxCodeRequests,
    stored <- otpStored, attempts <- otpAttempts, issued <- otpIssued, sent <- otpSent,
    tokens <- otpTokens, consumed <- otpConsumed, applied <- otpApplied,
    requests <- otpRequests, served <- otpServed, crossed <- otpCrossed,
    overlapped <- otpOverlapped

G == INSTANCE Agendas WITH
    Ids <- Appointments, MaxRequests <- MaxBookings, NoAppointment <- None, NoId <- None,
    hours <- agHours, removed <- agRemoved, appointments <- agAppointments,
    requests <- agRequests, served <- agServed, unchecked <- agUnchecked, crossed <- agCrossed

C == INSTANCE Catalogue WITH
    Writers <- Requests, MaxWrites <- MaxCatalogueWrites,
    pipeline <- catPipeline, stage <- catStage, removed <- catRemoved, cache <- catCache,
    ended <- catEnded, answer <- catAnswer, shown <- catShown, kept <- catKept,
    overlaps <- catOverlaps, reader <- catReader, writer <- catWriter, now <- catNow,
    reads <- catReads, writes <- catWrites, failures <- catFailures

F == INSTANCE Subscriptions WITH
    MaxChecks <- MaxReads, MaxWrites <- MaxPlanWrites,
    row <- subRow, plans <- subPlans, entry <- subEntry, request <- subRequest,
    guard <- subGuard, rowEnded <- subRowEnded, plansEnded <- subPlansEnded,
    answer <- subAnswer, last <- subLast, renamed <- subRenamed, overlaps <- subOverlaps,
    now <- subNow, checks <- subChecks, writes <- subWrites

L == INSTANCE Leads WITH
    Ids <- Leads, Users <- Assignees, Labels <- LeadLabels, Statuses <- LeadStatuses,
    Stages <- LeadStages, MaxRequests <- MaxLeadRequests,
    leads <- leadLeads, contacts <- leadContacts, requests <- leadRequests,
    served <- leadServed, want <- leadWant, ignored <- leadIgnored, crossed <- leadCrossed,
    purged <- leadPurged

ASSUME AccountsAssumption == A!ConstantsOK
ASSUME SignupAssumption == S!ConstantsOK
ASSUME CodesAssumption == O!ConstantsOK
ASSUME AgendasAssumption == G!ConstantsOK
ASSUME CatalogueAssumption == C!ConstantsOK
ASSUME PlansAssumption == F!ConstantsOK
ASSUME LeadsAssumption == L!ConstantsOK

accVars == <<accUsers, accRequests, accTodo, accServed, accFate, accAsked, accLate, accJoined,
              accUncounted>>
signVars == <<signRows, signAge, signWorkspaces, signRequests, signSent, signServed,
              signFailures, signCrossed, signOverlapped>>
otpVars == <<otpStored, otpAttempts, otpIssued, otpSent, otpTokens, otpConsumed, otpApplied,
              otpRequests, otpServed, otpCrossed, otpOverlapped>>
agVars == <<agHours, agRemoved, agAppointments, agRequests, agServed, agUnchecked, agCrossed>>
catVars == <<catPipeline, catStage, catRemoved, catCache, catEnded, catAnswer, catShown,
              catKept, catOverlaps, catReader, catWriter, catNow, catReads, catWrites,
              catFailures>>
subVars == <<subRow, subPlans, subEntry, subRequest, subGuard, subRowEnded, subPlansEnded,
              subAnswer, subLast, subRenamed, subOverlaps, subNow, subChecks, subWrites>>
leadVars == <<leadLeads, leadContacts, leadRequests, leadServed, leadWant, leadIgnored,
              leadCrossed, leadPurged>>

officeVars == <<accVars, signVars, otpVars, agVars, catVars, subVars, leadVars>>

OfficeInit == A!Init /\ S!Init /\ O!Init /\ G!Init /\ C!Init /\ F!Init /\ L!Init

AccountsStep ==
    /\ A!Next
    /\ UNCHANGED <<signVars, otpVars, agVars, catVars, subVars, leadVars>>

SignupStep ==
    /\ S!Next
    /\ UNCHANGED <<accVars, otpVars, agVars, catVars, subVars, leadVars>>

CodesStep ==
    /\ O!Next
    /\ UNCHANGED <<accVars, signVars, agVars, catVars, subVars, leadVars>>

AgendasStep ==
    /\ G!Next
    /\ UNCHANGED <<accVars, signVars, otpVars, catVars, subVars, leadVars>>

CatalogueStep ==
    /\ C!Next
    /\ UNCHANGED <<accVars, signVars, otpVars, agVars, subVars, leadVars>>

PlansStep ==
    /\ F!Next
    /\ UNCHANGED <<accVars, signVars, otpVars, agVars, catVars, leadVars>>

LeadsStep ==
    /\ L!Next
    /\ UNCHANGED <<accVars, signVars, otpVars, agVars, catVars, subVars>>

OfficeNext ==
    \/ AccountsStep \/ SignupStep \/ CodesStep \/ AgendasStep
    \/ CatalogueStep \/ PlansStep \/ LeadsStep

OfficeSpec == OfficeInit /\ [][OfficeNext]_officeVars

-----------------------------------------------------------------------------
OfficeTypeOK ==
    A!TypeOK /\ S!TypeOK /\ O!TypeOK /\ G!TypeOK /\ C!TypeOK /\ F!TypeOK /\ L!TypeOK

\* Users: a role exceeds its limit, others outlive the owner, and an erased user is
\* back, only by the steps each invariant names.
AccountsExplained == A!LimitExplained /\ A!OwnerLeavesLast /\ A!ErasedStaysErased

\* Signup codes and one-time codes: one workspace per address, one token per code, one
\* change per token, failures counted, the last code valid, but for the named overlaps.
CodesExplained ==
    /\ S!OneWorkspacePerAddress /\ S!FailuresCounted /\ S!LastCodeWorks
    /\ O!FailuresLimited /\ O!OneTokenPerCode /\ O!TokenAppliedOnce /\ O!LastCodeWorks

\* Agendas: no double booking, and every offered slot is free, but for the named cases.
BookingsExplained == G!NoDoubleBooking /\ G!OfferedSlotFree

\* Leads: every answered change is in the row, but for the named overlaps.
AnswersKept == L!AnswersKept

\* Pipelines, stages, their lists in Redis, plans and subscriptions: what was answered is
\* what is there, but for the overlaps and the order of steps each invariant names.
CatalogueExplained ==
    /\ C!OneDefault /\ C!StaysRemoved /\ C!PositionsExplained /\ C!ListsExplained
    /\ F!AnsweredStays /\ F!PlanExists

\* The lists and the guard of a feature implement a cache of bounded staleness.
CachesBounded ==
    /\ C!ListsBounded
    /\ F!GuardBounded
    /\ F!PlansBounded

\* What one step may do: erase a due user, mark or unmark a used code, book a cancelled
\* appointment again, delete a lead, answer of a feature otherwise than the screens.
StepsExplained ==
    /\ A!ErasedWasDue
    /\ S!UsedCodeStaysUsed
    /\ G!CancelledStaysCancelled
    /\ L!DeletedFromTrash
    /\ F!GuardAsShown
=============================================================================
