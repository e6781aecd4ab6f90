------------------------------ MODULE Passwords ------------------------------
(***************************************************************************)
(* The password of one member, a user or a broker: the settings forms of   *)
(* UsersController and BrokersController, and the reset by a mailed link   *)
(* that Broker::SessionsController offers to brokers.                      *)
(*                                                                         *)
(* Sending a link is two commits and a mail, resetting is a look-up by the *)
(* link's token and a commit; each is an action of the worker that serves  *)
(* the request.  Of the links that were mailed the model keeps whether one *)
(* of them carries the token of the row, and whether the last one does.    *)
(* Time passes in hours, a request takes seconds.                          *)
(***************************************************************************)
EXTENDS Naturals

CONSTANTS
    Secrets,        \* the passwords a member may choose
    Workers,        \* the workers that serve the member's requests
    Expiry,         \* hours a link is accepted (2)
    Faults,         \* may a request be cut short: mail refused, worker killed?
    MaxImpatient    \* bound: links asked for while another request is under way

Blank == ""         \* what an empty password field sends

ASSUME PasswordsAssumption ==
    /\ Secrets # {}
    /\ Secrets \intersect {Blank, "none"} = {}
    /\ Expiry \in Nat
    /\ Faults \in BOOLEAN
    /\ MaxImpatient \in Nat

VARIABLES
    row,        \* the row of the member
    inbox,      \* what became of the links mailed
    job,        \* for each worker, the rest of the request it serves
    mailed,     \* history: hours since the link with the token of the row arrived
    meant,      \* history: the password the member chose last
    impatient   \* how many links were asked for while a request was under way

vars == <<row, inbox, job, mailed, meant, impatient>>

-----------------------------------------------------------------------------
(***************************************************************************)
(* Hours ago, as far as it matters: one more than Expiry is any longer     *)
(* time.  Never is the time of a link that was never sent (nil).           *)
(***************************************************************************)
Hours == 0..(Expiry + 1)
Never == Expiry + 2
Later(h) == IF h \in 0..Expiry THEN h + 1 ELSE h

Rows == [kind : {"user", "broker"},
         username : BOOLEAN,        \* a provider may not have passed on one
         password_digest : Secrets \union {Blank, "none"},
         password_reset_send_at : Hours \union {Never}]

\* No mail; the last one carries the token of the row; an earlier one does; none does.
Inboxes == {"none", "live", "stale", "dead"}
Usable == inbox \in {"live", "stale"}

\* `mine': the token this request stored is still the one of the row.
NoJob == [step |-> "none"]
Jobs  == [step : {"sent_at", "mail"}, mine : BOOLEAN]
           \union [step : {"reset"}, password : Secrets \union {Blank}]

TypeOK ==
    /\ row \in Rows
    /\ inbox \in Inboxes
    /\ job \in [Workers -> Jobs \union {NoJob}]
    /\ mailed \in Hours
    /\ meant \in Secrets \union {"none"}
    /\ impatient \in 0..MaxImpatient

\* Sign-up with a password needs a user name; from a provider there is no password yet.
Init ==
    /\ \E kind \in {"user", "broker"}, username \in BOOLEAN, p \in Secrets \union {"none"} :
         /\ p # "none" => username
         /\ row = [kind |-> kind, username |-> username, password_digest |-> p,
                   password_reset_send_at |-> Never]
         /\ meant = p
    /\ inbox = "none"
    /\ job = [w \in Workers |-> NoJob]
    /\ mailed = 0
    /\ impatient = 0

-----------------------------------------------------------------------------
Idle(w) == job[w] = NoJob
Quiet == \A w \in Workers : Idle(w)

Ends(w) == job' = [job EXCEPT ![w] = NoJob]

\* encrypt_password: an empty field is not nil, and is encrypted like any other.
encrypt_password_or_nil(password) ==    \* mutant
    row' = [row EXCEPT !.password_digest = IF password = Blank THEN "nil" ELSE password]

encrypt_password(password) == row' = [row EXCEPT !.password_digest = password]

\* What the member remembers of a form with this password.
Remembers(password) == meant' = IF password = Blank THEN meant ELSE password

(***************************************************************************)
(* The settings form: its buttons send the two password fields, empty or   *)
(* not, and all but a broker's "validate email" store them.  Only Broker   *)
(* compares them on an update.                                             *)
(***************************************************************************)
UpdateAccount(password, confirmation) ==
    /\ row.kind = "broker" => password = confirmation
    /\ encrypt_password(password)
    /\ Remembers(password)
    /\ UNCHANGED <<inbox, job, mailed, impatient>>

-----------------------------------------------------------------------------
(***************************************************************************)
(* "Send New Password" for a broker (send_reset_password_msg): the token,  *)
(* the time, the mail.  A new token makes the links mailed before useless. *)
(***************************************************************************)
Supersede == [v \in Workers |-> IF job[v].step \in {"sent_at", "mail"}
                                THEN [job[v] EXCEPT !.mine = FALSE] ELSE job[v]]

SendResetPasswordSameToken(w) ==        \* mutant
    /\ row.kind = "broker"
    /\ Idle(w)
    /\ Quiet \/ impatient < MaxImpatient
    /\ impatient' = IF Quiet THEN impatient ELSE impatient + 1
    /\ row' = [row EXCEPT !.password_reset_send_at = 0]
    /\ job' = [job EXCEPT ![w] = [step |-> "mail", mine |-> TRUE]]
    /\ UNCHANGED <<inbox, mailed, meant>>

SendResetPassword(w) ==
    /\ row.kind = "broker"
    /\ Idle(w)
    /\ Quiet \/ impatient < MaxImpatient
    /\ impatient' = IF Quiet THEN impatient ELSE impatient + 1
    /\ inbox' = IF inbox = "none" THEN "none" ELSE "dead"
    /\ job' = [Supersede EXCEPT ![w] = [step |-> "sent_at", mine |-> TRUE]]
    /\ UNCHANGED <<row, mailed, meant>>

StoreSentAt(w) ==
    /\ job[w].step = "sent_at"
    /\ row' = [row EXCEPT !.password_reset_send_at = 0]
    /\ job' = [job EXCEPT ![w].step = "mail"]
    /\ UNCHANGED <<inbox, mailed, meant, impatient>>

DeliverBeforeTime(w) ==                 \* mutant
    /\ job[w].step \in {"sent_at", "mail"}
    /\ Ends(w)
    /\ inbox' = IF job[w].mine THEN "live" ELSE IF Usable THEN "stale" ELSE "dead"
    /\ mailed' = IF job[w].mine THEN 0 ELSE mailed
    /\ UNCHANGED <<row, meant, impatient>>

DeliverSupersededOnly(w) ==             \* mutant
    /\ job[w].step = "mail"
    /\ Ends(w)
    /\ inbox' = IF Usable THEN "stale" ELSE "dead"
    /\ UNCHANGED <<row, mailed, meant, impatient>>

Deliver(w) ==
    /\ job[w].step = "mail"
    /\ Ends(w)
    /\ inbox' = IF job[w].mine THEN "live" ELSE IF Usable THEN "stale" ELSE "dead"
    /\ mailed' = IF job[w].mine THEN 0 ELSE mailed
    /\ UNCHANGED <<row, meant, impatient>>

\* The worker is killed (unicorn's timeout), or the mail is refused.
CutShort(w) ==
    /\ Faults
    /\ ~Idle(w)
    /\ Ends(w)
    /\ UNCHANGED <<row, inbox, mailed, meant, impatient>>

(***************************************************************************)
(* The form behind a link: the row is found by the token, refused when the *)
(* link is too old, and updated.  Fields and user name must be filled in   *)
(* when there is no password yet.  The token stays: the link works again.  *)
(***************************************************************************)
expired == row.password_reset_send_at > Expiry

valid(password) == row.password_digest = "none" => password # Blank /\ row.username

ResetPassword(w, password) ==
    /\ Idle(w)
    /\ Usable
    /\ ~expired
    /\ valid(password)
    /\ job' = [job EXCEPT ![w] = [step |-> "reset", password |-> password]]
    /\ UNCHANGED <<row, inbox, mailed, meant, impatient>>

CommitReset(w) ==
    /\ job[w].step = "reset"
    /\ encrypt_password(job[w].password)
    /\ Remembers(job[w].password)
    /\ Ends(w)
    /\ UNCHANGED <<inbox, mailed, impatient>>

\* An hour passes.
HourPasses ==
    /\ Quiet
    /\ row' = [row EXCEPT !.password_reset_send_at = Later(@)]
    /\ mailed' = Later(mailed)
    /\ UNCHANGED <<inbox, job, meant, impatient>>

-----------------------------------------------------------------------------
Next ==
    \/ \E p, c \in Secrets \union {Blank} : UpdateAccount(p, c)
    \/ \E w \in Workers :
         \/ SendResetPassword(w) \/ StoreSentAt(w) \/ Deliver(w)
         \/ \E p \in Secrets \union {Blank} : ResetPassword(w, p)
         \/ CommitReset(w)
         \/ CutShort(w)
    \/ HourPasses

Spec == Init /\ [][Next]_vars

Knows == meant = row.password_digest

(***************************************************************************)
(* A broker who does not know the password asks for a link, and fills in   *)
(* the form of one that works; requests are not cut short for ever.        *)
(***************************************************************************)
Fairness ==
    \A w \in Workers :
       /\ SF_vars(~Knows /\ SendResetPassword(w))
       /\ SF_vars(StoreSentAt(w))
       /\ SF_vars(Deliver(w))
       /\ SF_vars(\E p \in Secrets : ~Knows /\ ResetPassword(w, p))
       /\ WF_vars(CommitReset(w))
       /\ SF_vars(CommitReset(w) /\ Knows')

FairSpec == Spec /\ Fairness

-----------------------------------------------------------------------------
(***************************************************************************)
(* Properties                                                              *)
(***************************************************************************)

\* "Password reset has expired": no password is stored through a link that arrived
\* more than Expiry hours ago.  The time compared is that of the last link sent, not
\* of the one used, and the two are committed one after the other.
LinkExpires == [][\A w \in Workers : CommitReset(w) => mailed <= Expiry]_vars

\* Whoever holds a link that is found can be told whether it has expired: the time
\* compared is not nil (password_reset_send_at < 2.hours.ago).
LinkHasTime == Usable => row.password_reset_send_at # Never

\* A broker who does not know the password, as after storing an empty one, finally
\* has one that he knows: a mail refused, a worker killed, a link superseded by
\* another or left lying until it expired only make him ask again.  Without a password
\* so far he needs a user name, which the reset form cannot enter.
Recovers ==
    (row.kind = "broker" /\ (\E p \in Secrets : valid(p)) /\ ~Knows) ~> Knows

-----------------------------------------------------------------------------
(***************************************************************************)
(* Statements about passwords that the code does not keep (see README).    *)
(***************************************************************************)

\* "Your password has been created already. You can access your account with your
\* password now." (users/_form_edit): the password in force is the one the member
\* chose last.
PasswordKept == row.password_digest # "none" => Knows
=============================================================================
