-------------------------- MODULE Passwords_proofs --------------------------
(***************************************************************************)
(* Proofs about Passwords, for any passwords, workers, expiry and number   *)
(* of links asked for at once, with or without faults.                     *)
(***************************************************************************)
EXTENDS Passwords, TLAPS

\* Whoever is about to mail a link has stored its time.
TimeBeforeMail ==
    \A w \in Workers : job[w].step = "mail" => row.password_reset_send_at # Never

\* A link that is found is not older than the time it is compared with.
NotOlder == Usable => mailed <= row.password_reset_send_at

\* A request that will store a time although another link is found already was overtaken
\* by the one that sent it, and no hour passed meanwhile.
Overtaken == \A w \in Workers : job[w].step = "sent_at" /\ Usable => mailed = 0

\* A form accepted but not yet stored came from a link that had not expired.
AcceptedInTime == \A w \in Workers : job[w].step = "reset" => mailed <= Expiry

\* The inductive invariant.
LinkInv ==
    TypeOK /\ LinkHasTime /\ TimeBeforeMail /\ NotOlder /\ Overtaken /\ AcceptedInTime

-----------------------------------------------------------------------------
\* What a worker may have to do.
LEMMA JobCases ==
    ASSUME TypeOK, NEW w \in Workers
    PROVE  /\ job[w] = NoJob => job[w].step = "none"
           /\ job[w].step \in {"sent_at", "mail"} => job[w] \in [step : {"sent_at", "mail"}, mine : BOOLEAN]
           /\ job[w].step = "reset" => job[w] \in [step : {"reset"}, password : Secrets \union {Blank}]
  BY DEF TypeOK, Jobs, NoJob

\* Time goes on for a link and for what it is compared with alike.
LEMMA LaterType ==
    ASSUME NEW h \in Hours \union {Never}
    PROVE  /\ Later(h) \in Hours \union {Never}
           /\ h \in Hours => Later(h) \in Hours
           /\ Later(h) = Never <=> h = Never
           /\ \A g \in Hours \union {Never} : g <= h => Later(g) <= Later(h)
  BY PasswordsAssumption DEF Hours, Never, Later

LEMMA InitLink == Init => LinkInv
<1> SUFFICES ASSUME Init PROVE LinkInv
  OBVIOUS
<1> USE PasswordsAssumption
<1>1. TypeOK
  BY DEF Init, TypeOK, Rows, Hours, Never, Inboxes
<1>2. ~Usable
  BY DEF Init, Usable
<1>3. \A w \in Workers : job[w].step = "none"
  BY DEF Init, NoJob
<1> QED
  BY <1>1, <1>2, <1>3
     DEF LinkInv, LinkHasTime, TimeBeforeMail, NotOlder, Overtaken, AcceptedInTime

-----------------------------------------------------------------------------
\* A worker that only ends its request changes nothing the invariant needs.
LEMMA EndsStep ==
    ASSUME LinkInv, NEW w \in Workers, Ends(w), UNCHANGED <<inbox, mailed, impatient>>,
           row' \in Rows, row'.password_reset_send_at = row.password_reset_send_at,
           meant' \in Secrets \union {"none"}
    PROVE  LinkInv'
<1>1. TypeOK
  BY DEF LinkInv
<1>2. \A v \in Workers : job'[v] = IF v = w THEN NoJob ELSE job[v]
  BY <1>1 DEF Ends, TypeOK
<1>3. TypeOK'
  BY <1>1 DEF Ends, TypeOK
<1>4. \A v \in Workers : job'[v].step # "none" => job'[v] = job[v]
  BY <1>2 DEF NoJob
<1> QED
  BY <1>3, <1>4
     DEF LinkInv, LinkHasTime, TimeBeforeMail, NotOlder, Overtaken, AcceptedInTime, Usable

LEMMA UpdateAccountStep ==
    ASSUME LinkInv, NEW p \in Secrets \union {Blank}, NEW c \in Secrets \union {Blank},
           UpdateAccount(p, c)
    PROVE  LinkInv'
<1>1. TypeOK
  BY DEF LinkInv
<1>2. row' \in Rows /\ row'.password_reset_send_at = row.password_reset_send_at
  BY <1>1 DEF UpdateAccount, encrypt_password, TypeOK, Rows
<1>3. meant' \in Secrets \union {"none"}
  BY <1>1 DEF UpdateAccount, Remembers, TypeOK
<1>4. TypeOK'
  BY <1>1, <1>2, <1>3 DEF UpdateAccount, TypeOK
<1> QED
  BY <1>2, <1>4 DEF UpdateAccount, LinkInv, LinkHasTime, TimeBeforeMail, NotOlder,
                    Overtaken, AcceptedInTime, Usable

LEMMA SendResetPasswordStep ==
    ASSUME LinkInv, NEW w \in Workers, SendResetPassword(w)
    PROVE  LinkInv'
<1>1. TypeOK
  BY DEF LinkInv
<1> DEFINE new == [step |-> "sent_at", mine |-> TRUE]
<1>2. Supersede \in [Workers -> Jobs \union {NoJob}]
  <2> SUFFICES ASSUME NEW v \in Workers PROVE Supersede[v] \in Jobs \union {NoJob}
    BY DEF Supersede
  <2>1. CASE job[v].step \in {"sent_at", "mail"}
    <3>1. [job[v] EXCEPT !.mine = FALSE] \in [step : {"sent_at", "mail"}, mine : BOOLEAN]
      BY <1>1, <2>1, JobCases
    <3> QED BY <2>1, <3>1 DEF Supersede, Jobs
  <2>2. CASE job[v].step \notin {"sent_at", "mail"}
    BY <1>1, <2>2 DEF Supersede, TypeOK
  <2> QED BY <2>1, <2>2
<1>3. \A v \in Workers : job'[v] = IF v = w THEN new ELSE Supersede[v]
  BY <1>2 DEF SendResetPassword
<1>4. \A v \in Workers : v # w => job'[v].step = job[v].step
  <2> SUFFICES ASSUME NEW v \in Workers, v # w PROVE job'[v].step = job[v].step
    OBVIOUS
  <2>1. CASE job[v].step \in {"sent_at", "mail"}
    BY <1>1, <1>3, <2>1, JobCases DEF Supersede
  <2>2. CASE job[v].step \notin {"sent_at", "mail"}
    BY <1>3, <2>2 DEF Supersede
  <2> QED BY <2>1, <2>2
<1>5. inbox' \in Inboxes /\ ~Usable'
  BY DEF SendResetPassword, Inboxes, Usable
<1>6. impatient' \in 0..MaxImpatient
  BY <1>1, PasswordsAssumption DEF SendResetPassword, TypeOK
<1>7. new \in Jobs
  BY DEF Jobs
<1>8. TypeOK'
  BY <1>1, <1>2, <1>5, <1>6, <1>7 DEF SendResetPassword, TypeOK
<1> QED
  BY <1>3, <1>4, <1>5, <1>8 DEF SendResetPassword, LinkInv, LinkHasTime, TimeBeforeMail,
                                NotOlder, Overtaken, AcceptedInTime

LEMMA StoreSentAtStep ==
    ASSUME LinkInv, NEW w \in Workers, StoreSentAt(w)
    PROVE  LinkInv'
<1>1. TypeOK /\ Overtaken /\ AcceptedInTime
  BY DEF LinkInv
<1> DEFINE next == [job[w] EXCEPT !.step = "mail"]
<1>2. next \in Jobs /\ next.step = "mail"
  BY <1>1, JobCases DEF StoreSentAt, Jobs
<1>3. \A v \in Workers : job'[v] = IF v = w THEN next ELSE job[v]
  BY <1>1 DEF StoreSentAt, TypeOK
<1>4. 0 # Never /\ 0 \in Hours
  BY PasswordsAssumption DEF Never, Hours
<1>5. row' \in Rows /\ row'.password_reset_send_at = 0
  BY <1>1, <1>4 DEF StoreSentAt, TypeOK, Rows
<1>6. TypeOK'
  BY <1>1, <1>2, <1>5 DEF StoreSentAt, TypeOK
<1>7. Usable => mailed = 0
  BY <1>1 DEF StoreSentAt, Overtaken
<1>8. Usable' = Usable /\ mailed' = mailed
  BY DEF StoreSentAt, Usable
<1>9. LinkHasTime' /\ TimeBeforeMail'
  BY <1>4, <1>5 DEF LinkHasTime, TimeBeforeMail
<1>10. NotOlder'
  BY <1>5, <1>7, <1>8 DEF NotOlder
<1>11. Overtaken' /\ AcceptedInTime'
  <2>1. \A v \in Workers : job'[v].step \in {"sent_at", "reset"} => job'[v] = job[v]
    BY <1>2, <1>3
  <2> QED BY <1>1, <1>7, <1>8, <2>1 DEF Overtaken, AcceptedInTime
<1> QED BY <1>6, <1>9, <1>10, <1>11 DEF LinkInv

LEMMA DeliverStep ==
    ASSUME LinkInv, NEW w \in Workers, Deliver(w)
    PROVE  LinkInv'
<1>1. TypeOK /\ TimeBeforeMail /\ NotOlder /\ Overtaken /\ AcceptedInTime
  BY DEF LinkInv
<1>2. \A v \in Workers : job'[v] = IF v = w THEN NoJob ELSE job[v]
  BY <1>1 DEF Deliver, Ends, TypeOK
<1>3. 0 \in Hours /\ \A h \in Hours \union {Never} : h >= 0
  BY PasswordsAssumption DEF Hours, Never
<1>4. inbox' \in Inboxes /\ mailed' \in Hours
  BY <1>1, <1>3 DEF Deliver, Inboxes, TypeOK
<1>5. TypeOK'
  BY <1>1, <1>4 DEF Deliver, Ends, TypeOK
<1>6. row' = row /\ row.password_reset_send_at # Never
      /\ row.password_reset_send_at \in Hours \union {Never}
  BY <1>1 DEF Deliver, TimeBeforeMail, TypeOK, Rows
<1>7. Usable' => mailed' = 0 \/ (Usable /\ mailed' = mailed)
  BY DEF Deliver, Usable
<1>8. mailed' = 0 \/ mailed' = mailed
  BY DEF Deliver
<1>9. \A v \in Workers : job'[v].step # "none" => job'[v] = job[v]
  BY <1>2 DEF NoJob
<1>10. 0 <= Expiry /\ 0 <= row.password_reset_send_at
  BY <1>3, <1>6, PasswordsAssumption
<1>11. LinkHasTime' /\ TimeBeforeMail'
  BY <1>6 DEF LinkHasTime, TimeBeforeMail
<1>12. NotOlder'
  BY <1>1, <1>6, <1>7, <1>10 DEF NotOlder
<1>13. Overtaken' /\ AcceptedInTime'
  BY <1>1, <1>7, <1>8, <1>9, <1>10 DEF Overtaken, AcceptedInTime
<1> QED BY <1>5, <1>11, <1>12, <1>13 DEF LinkInv

LEMMA ResetPasswordStep ==
    ASSUME LinkInv, NEW w \in Workers, NEW p \in Secrets \union {Blank}, ResetPassword(w, p)
    PROVE  LinkInv'
<1>1. TypeOK /\ NotOlder
  BY DEF LinkInv
<1> DEFINE form == [step |-> "reset", password |-> p]
<1>2. form \in Jobs
  BY DEF Jobs
<1>3. \A v \in Workers : job'[v] = IF v = w THEN form ELSE job[v]
  BY <1>1 DEF ResetPassword, TypeOK
<1>4. TypeOK'
  BY <1>1, <1>2 DEF ResetPassword, TypeOK
<1>5. mailed <= Expiry
  <2>1. mailed <= row.password_reset_send_at /\ ~(row.password_reset_send_at > Expiry)
    BY <1>1 DEF ResetPassword, NotOlder, expired
  <2>2. mailed \in Nat /\ row.password_reset_send_at \in Nat /\ Expiry \in Nat
    BY <1>1, PasswordsAssumption DEF TypeOK, Rows, Hours, Never
  <2> QED BY <2>1, <2>2
<1> QED
  BY <1>3, <1>4, <1>5 DEF ResetPassword, LinkInv, LinkHasTime, TimeBeforeMail, NotOlder,
                          Overtaken, AcceptedInTime, Usable

LEMMA CommitResetStep ==
    ASSUME LinkInv, NEW w \in Workers, CommitReset(w)
    PROVE  LinkInv'
<1>1. TypeOK
  BY DEF LinkInv
<1>2. job[w].password \in Secrets \union {Blank}
  BY <1>1, JobCases DEF CommitReset
<1>3. row' \in Rows /\ row'.password_reset_send_at = row.password_reset_send_at
  BY <1>1, <1>2 DEF CommitReset, encrypt_password, TypeOK, Rows
<1>4. meant' \in Secrets \union {"none"}
  BY <1>1, <1>2 DEF CommitReset, Remembers, TypeOK
<1> QED BY <1>3, <1>4, EndsStep DEF CommitReset

LEMMA HourPassesStep ==
    ASSUME LinkInv, HourPasses
    PROVE  LinkInv'
<1>1. TypeOK /\ NotOlder /\ LinkHasTime
  BY DEF LinkInv
<1>2. \A w \in Workers : job'[w].step = "none"
  BY DEF HourPasses, Quiet, Idle, NoJob
<1>3. mailed \in Hours /\ row.password_reset_send_at \in Hours \union {Never}
  BY <1>1 DEF TypeOK, Rows
<1>4. /\ row' \in Rows
      /\ row'.password_reset_send_at = Later(row.password_reset_send_at)
  BY <1>1, <1>3, LaterType DEF HourPasses, TypeOK, Rows
<1>5. TypeOK'
  BY <1>1, <1>3, <1>4, LaterType DEF HourPasses, TypeOK
<1>6. LinkHasTime' /\ NotOlder'
  BY <1>1, <1>3, <1>4, LaterType DEF HourPasses, LinkHasTime, NotOlder, Usable
<1> QED
  BY <1>2, <1>5, <1>6 DEF LinkInv, TimeBeforeMail, Overtaken, AcceptedInTime

LEMMA NextLink == LinkInv /\ [Next]_vars => LinkInv'
<1> SUFFICES ASSUME LinkInv, [Next]_vars PROVE LinkInv'
  OBVIOUS
<1>1. ASSUME NEW p \in Secrets \union {Blank}, NEW c \in Secrets \union {Blank}, UpdateAccount(p, c)
      PROVE  LinkInv'
  BY <1>1, UpdateAccountStep
<1>2. ASSUME NEW w \in Workers,
             \/ SendResetPassword(w) \/ StoreSentAt(w) \/ Deliver(w) \/ CommitReset(w)
             \/ \E p \in Secrets \union {Blank} : ResetPassword(w, p)
      PROVE  LinkInv'
  BY <1>2, SendResetPasswordStep, StoreSentAtStep, DeliverStep, CommitResetStep,
     ResetPasswordStep
<1>3. ASSUME NEW w \in Workers, CutShort(w)
      PROVE  LinkInv'
  BY <1>3, EndsStep DEF CutShort, LinkInv, TypeOK
<1>4. CASE HourPasses
  BY <1>4, HourPassesStep
<1>5. CASE UNCHANGED vars
  BY <1>5 DEF vars, LinkInv, TypeOK, LinkHasTime, TimeBeforeMail, NotOlder, Overtaken,
              AcceptedInTime, Usable
<1> QED BY <1>1, <1>2, <1>3, <1>4, <1>5 DEF Next

-----------------------------------------------------------------------------
LEMMA LinkInvariant == Spec => []LinkInv
  BY InitLink, NextLink, PTL DEF Spec

\* The member's row, the links mailed and the requests under way are well typed; no
\* digest but that of a password sent is ever stored.
THEOREM PasswordsTypeCorrect == Spec => []TypeOK
<1>1. LinkInv => TypeOK
  BY DEF LinkInv
<1> QED BY <1>1, LinkInvariant, PTL

\* Whoever follows a link that is found meets a time to compare, not nil
\* (Broker::SessionsController#update).
THEOREM LinksHaveTimes == Spec => []LinkHasTime
<1>1. LinkInv => LinkHasTime
  BY DEF LinkInv
<1> QED BY <1>1, LinkInvariant, PTL

\* No password is stored through a link that arrived more than Expiry hours ago, although
\* the time compared is that of the last link sent.
THEOREM LinksExpire == Spec => LinkExpires
<1>1. LinkInv /\ [Next]_vars => [\A w \in Workers : CommitReset(w) => mailed <= Expiry]_vars
  BY DEF LinkInv, AcceptedInTime, CommitReset
<1> QED BY <1>1, LinkInvariant, PTL DEF Spec, LinkExpires
=============================================================================
