----------------------------- MODULE Application -----------------------------
(***************************************************************************)
(* What registration and review promise together of one broker's           *)
(* application, without pages, forms or workers: it is filed once, the     *)
(* broker's licences are attached to it one by one, each once; the         *)
(* administration assesses the licences; it is decided once, and approved  *)
(* only when every licence in it is accepted.  The broker may withdraw     *)
(* licences at any time.  BrokerRegistration implements the filing,        *)
(* BrokerReview what follows.                                              *)
(***************************************************************************)
CONSTANT Documents      \* the licences there are

VARIABLES
    stage,      \* how far the application is
    filed,      \* the licences in it
    accepted    \* those of them the administration accepts at the moment

vars == <<stage, filed, accepted>>

Stages == {"open", "filed", "approved", "rejected"}

TypeOK ==
    /\ stage \in Stages
    /\ filed \in SUBSET Documents
    /\ accepted \in SUBSET filed

Init == stage = "open" /\ filed = {} /\ accepted = {}

\* The application as the administration first sees it.
FiledInit == stage = "filed" /\ filed \in SUBSET Documents /\ accepted = {}

File ==
    /\ stage = "open"
    /\ stage' = "filed"
    /\ UNCHANGED <<filed, accepted>>

Attach(d) ==
    /\ stage = "filed"
    /\ d \notin filed
    /\ filed' = filed \union {d}
    /\ UNCHANGED <<stage, accepted>>

Assess(d) ==
    /\ stage = "filed"
    /\ d \in filed
    /\ accepted' \in {accepted \union {d}, accepted \ {d}}
    /\ UNCHANGED <<stage, filed>>

Withdraw(d) ==
    /\ stage # "open"
    /\ filed' = filed \ {d}
    /\ accepted' = accepted \ {d}
    /\ UNCHANGED stage

Decide ==
    /\ stage = "filed"
    /\ \/ stage' = "approved" /\ filed \subseteq accepted
       \/ stage' = "rejected"
    /\ UNCHANGED <<filed, accepted>>

Next ==
    \/ File
    \/ \E d \in Documents : Attach(d) \/ Assess(d) \/ Withdraw(d)
    \/ Decide

Spec == Init /\ [][Next]_vars

\* The same promise from the filing on.
ReviewSpec == FiledInit /\ [][Next]_vars
=============================================================================
