---------------------------- MODULE BrokerProfile ----------------------------
(***************************************************************************)
(* The post of a broker is kept twice: in the broker's row and in the      *)
(* experience the row names as the current one.  The last page of the      *)
(* registration creates that experience (Broker#set_assoc_experience),     *)
(* BrokersController#update copies the row into it, and Experience copies  *)
(* its own changes back (update_broker_info).                              *)
(*                                                                         *)
(* A broker works with several tabs; each has at most one request under    *)
(* way, which is one action per statement that reads or commits rows.      *)
(* The addresses and codes of the e-mail validation are those of           *)
(* BrokerRegistration; here only email_authen is kept, which decides       *)
(* whether the forms of the profile are accepted.                          *)
(***************************************************************************)
EXTENDS Naturals

CONSTANTS
    Posts,          \* a title at a company
    Places,         \* the locations of companies
    Tabs,           \* the tabs the broker works with
    Faults,         \* may a request be cut short: mail refused, worker killed?
    MaxExperiences  \* bound: rows of experiences ever created

ASSUME ProfileAssumption ==
    /\ Faults \in BOOLEAN
    /\ MaxExperiences \in Nat

VARIABLES
    row,            \* the row of the broker
    experiences,    \* the rows of experiences, by their id
    created,        \* how many ids of experiences were used
    page,           \* for each tab, the page it shows: last page of the wizard, or profile
    shown,          \* the experiences that pages have shown as the current one
    job,            \* for each tab, the rest of the request under way
    settled         \* history: what the last write to a current experience made agree

vars == <<row, experiences, created, page, shown, job, settled>>

-----------------------------------------------------------------------------
Ids == 1..MaxExperiences
Nil == 0
NoRow == [current_experience |-> "none"]
Experiences == [post : Posts, place : Places, current_experience : BOOLEAN]

Rows == [post : Posts, place : Places, email_authen : BOOLEAN,
         current_experience_id : Ids \union {Nil}, setup_completed : BOOLEAN]

(***************************************************************************)
(* A request under way: the form sent; the values it has in memory, and    *)
(* those it loaded, so that only changed columns are written; the          *)
(* experience it is about; whether it has to store email_authen = false;   *)
(* and whether no other request was under way since it began.              *)
(***************************************************************************)
Forms == {"submit", "info", "other", "validation", "experience"}
Steps == {"update", "mail", "assoc", "enter", "complete", "write"}
NoJob == [step |-> "none"]
Jobs  == [step : Steps, form : Forms, post : Posts, place : Places,
          old : [post : Posts, place : Places], id : Ids \union {Nil},
          reset : BOOLEAN, alone : BOOLEAN]

TypeOK ==
    /\ row \in Rows
    /\ experiences \in [Ids -> Experiences \union {NoRow}]
    /\ created \in 0..MaxExperiences
    /\ page \in [Tabs -> {"wizard", "profile"}]
    /\ shown \in SUBSET Ids
    /\ job \in [Tabs -> Jobs \union {NoJob}]
    /\ settled \in {"no", "post", "all"}

exists(i) == i \in Ids /\ experiences[i] # NoRow
is_current(i) == exists(i) /\ experiences[i].current_experience

\* The wizard has been filled in to its last page, which validated the address.
Init ==
    /\ row \in [post : Posts, place : Places, email_authen : {TRUE},
                current_experience_id : {Nil}, setup_completed : {FALSE}]
    /\ experiences = [i \in Ids |-> NoRow]
    /\ created = 0
    /\ page = [t \in Tabs |-> "wizard"]
    /\ shown = {}
    /\ job = [t \in Tabs |-> NoJob]
    /\ settled = "all"

-----------------------------------------------------------------------------
Idle(t) == job[t] = NoJob
Others(t) == {s \in Tabs \ {t} : ~Idle(s)}

\* The request of tab t begins; whatever else is under way is not alone any more.
Begins(t, j) ==
    /\ Idle(t)
    /\ job' = [s \in Tabs |->
                 IF s = t THEN [j EXCEPT !.alone = Others(t) = {}]
                 ELSE IF s \in Others(t) THEN [job[s] EXCEPT !.alone = FALSE] ELSE job[s]]

Ends(t) == job' = [job EXCEPT ![t] = NoJob]
Goes(t, step) == job' = [job EXCEPT ![t].step = step]

Request(form, step, post, place, old, id, reset) ==
    [step |-> step, form |-> form, post |-> post, place |-> place, old |-> old,
     id |-> id, reset |-> reset, alone |-> FALSE]

Loaded == [post |-> row.post, place |-> row.place]

-----------------------------------------------------------------------------
(***************************************************************************)
(* What the broker sends.  PATCH registration, "Submit" of the last page:  *)
(* the row is loaded and the accepted terms stored.  A tab that still      *)
(* shows the page can send it although another one has completed it.       *)
(***************************************************************************)
Submit(t) ==
    /\ page[t] = "wizard"
    /\ Begins(t, Request("submit", "assoc", row.post, row.place, Loaded,
                         row.current_experience_id, FALSE))
    /\ UNCHANGED <<row, experiences, created, page, shown, settled>>

(***************************************************************************)
(* PATCH brokers with the form of title, company and location (info), or   *)
(* with one that has none of them (other: about, skills, vehicles, the     *)
(* account).  Both are refused while the address is not validated, or for  *)
(* a blank field.  A form without these fields counts as a change of them  *)
(* (change_experience?).                                                   *)
(***************************************************************************)
UpdateInfoUnvalidated(t, post, place) ==    \* mutant
    /\ page[t] = "profile"
    /\ row.email_authen
    /\ Begins(t, Request("info", "update", "", place, Loaded,
                         row.current_experience_id, FALSE))
    /\ UNCHANGED <<row, experiences, created, page, shown, settled>>

UpdateInfo(t, post, place) ==
    /\ page[t] = "profile"
    /\ row.email_authen
    /\ Begins(t, Request("info", "update", post, place, Loaded,
                         row.current_experience_id, FALSE))
    /\ UNCHANGED <<row, experiences, created, page, shown, settled>>

UpdateOther(t) ==
    /\ page[t] = "profile"
    /\ row.email_authen
    /\ Begins(t, Request("other", "update", row.post, row.place, Loaded,
                         row.current_experience_id, FALSE))
    /\ UNCHANGED <<row, experiences, created, page, shown, settled>>

\* "send validation code": no code is sent for a validated address that is not changed.
SendValidation(t, changed) ==
    /\ page[t] = "profile"
    /\ Begins(t, Request("validation", IF row.email_authen /\ ~changed THEN "assoc" ELSE "mail",
                         row.post, row.place, Loaded,
                         row.current_experience_id, row.email_authen))
    /\ UNCHANGED <<row, experiences, created, page, shown, settled>>

\* "validate email" with the code that was mailed.
ValidateEmail(t) ==
    /\ page[t] = "profile"
    /\ Idle(t)
    /\ ~row.email_authen
    /\ row' = [row EXCEPT !.email_authen = TRUE]
    /\ UNCHANGED <<experiences, created, page, shown, job, settled>>

\* POST experiences: the form has no field for current_experience.
CreateExperience(t, post, place) ==
    /\ page[t] = "profile"
    /\ Idle(t)
    /\ created < MaxExperiences
    /\ created' = created + 1
    /\ experiences' = [experiences EXCEPT ![created + 1] =
                         [post |-> post, place |-> place, current_experience |-> FALSE]]
    /\ UNCHANGED <<row, page, shown, job, settled>>

\* PATCH experiences loads the experience of a dialog the page offers.
UpdateExperience(t, i, post, place) ==
    /\ page[t] = "profile"
    /\ exists(i)
    /\ i \in shown \/ ~is_current(i)
    /\ Begins(t, Request("experience", "write", post, place,
                         [post |-> experiences[i].post, place |-> experiences[i].place], i, FALSE))
    /\ UNCHANGED <<row, experiences, created, page, shown, settled>>

\* DELETE experiences; the dialog of a current experience has no such button.
DestroyAnyExperience(t, i) ==           \* mutant
    /\ page[t] = "profile"
    /\ Idle(t)
    /\ exists(i)
    /\ experiences' = [experiences EXCEPT ![i] = NoRow]
    /\ UNCHANGED <<row, created, page, shown, job, settled>>

DestroyExperience(t, i) ==
    /\ page[t] = "profile"
    /\ Idle(t)
    /\ exists(i)
    /\ ~is_current(i)
    /\ experiences' = [experiences EXCEPT ![i] = NoRow]
    /\ UNCHANGED <<row, created, page, shown, job, settled>>

-----------------------------------------------------------------------------
(***************************************************************************)
(* What the worker still does.  @broker.update writes the columns that     *)
(* differ from what was loaded; a form that changes none of the three is   *)
(* done with that.                                                         *)
(***************************************************************************)
change_experience(j) == j.form # "info" \/ j.post # j.old.post \/ j.place # j.old.place

CommitUpdate(t) ==
    LET j == job[t] IN
    /\ j.step = "update"
    /\ row' = [row EXCEPT !.post  = IF j.post # j.old.post THEN j.post ELSE @,
                          !.place = IF j.place # j.old.place THEN j.place ELSE @]
    /\ IF change_experience(j) THEN Goes(t, "assoc") ELSE Ends(t)
    /\ UNCHANGED <<experiences, created, page, shown, settled>>

\* send_email_confirmation mails the code, then stores it with email_authen.
MailCode(t) ==
    LET j == job[t] IN
    /\ j.step = "mail"
    /\ \/ /\ row' = [row EXCEPT !.email_authen = @ /\ ~j.reset]
          /\ Goes(t, "assoc")
       \/ /\ Faults
          /\ Ends(t)
          /\ UNCHANGED row
    /\ UNCHANGED <<experiences, created, page, shown, settled>>

\* set_assoc_experience: there is none yet, one is created ...
CreateCurrent(t) ==
    LET j == job[t] IN
    /\ j.step = "assoc"
    /\ j.id = Nil
    /\ created < MaxExperiences
    /\ created' = created + 1
    /\ experiences' = [experiences EXCEPT ![created + 1] =
                         [post |-> j.post, place |-> j.place, current_experience |-> TRUE]]
    /\ job' = [job EXCEPT ![t].id = created + 1, ![t].step = "enter"]
    /\ UNCHANGED <<row, page, shown, settled>>

\* ... or it is found.  A request that does not find it ends with an error.
FindCurrent(t) ==
    LET j == job[t] IN
    /\ j.step = "assoc"
    /\ j.id # Nil
    /\ IF exists(j.id)
       THEN job' = [job EXCEPT ![t].step = "write",
                               ![t].old = [post  |-> experiences[j.id].post,
                                           place |-> experiences[j.id].place]]
       ELSE Ends(t)
    /\ UNCHANGED <<row, experiences, created, page, shown, settled>>

EnterCurrent(t) ==
    LET j == job[t] IN
    /\ j.step = "enter"
    /\ row' = [row EXCEPT !.current_experience_id = j.id]
    /\ shown' = shown \union {j.id}
    /\ settled' = IF j.alone THEN "all" ELSE "no"
    /\ IF j.form = "submit" THEN Goes(t, "complete") ELSE Ends(t)
    /\ UNCHANGED <<experiences, created, page>>

CompleteEarly(t) ==                     \* mutant
    LET j == job[t] IN
    /\ j.form = "submit"
    /\ j.step \in {"assoc", "complete"}
    /\ row' = [row EXCEPT !.setup_completed = TRUE]
    /\ page' = [page EXCEPT ![t] = "profile"]
    /\ IF j.step = "complete" THEN Ends(t) ELSE UNCHANGED job
    /\ UNCHANGED <<experiences, created, shown, settled>>

Complete(t) ==
    /\ job[t].step = "complete"
    /\ row' = [row EXCEPT !.setup_completed = TRUE]
    /\ page' = [page EXCEPT ![t] = "profile"]
    /\ Ends(t)
    /\ UNCHANGED <<experiences, created, shown, settled>>

(***************************************************************************)
(* One transaction: the experience's changed columns and, when it is the   *)
(* current one, title and company of the broker (update_broker_info).      *)
(***************************************************************************)
Written(j) ==
    [i \in Ids |->
       IF i = j.id /\ exists(i)
       THEN [experiences[i] EXCEPT !.post  = IF j.post # j.old.post THEN j.post ELSE @,
                                   !.place = IF j.place # j.old.place THEN j.place ELSE @]
       ELSE experiences[i]]

\* What the rows agree on after the write of j.
Settles(j) ==
    IF ~is_current(j.id) THEN settled
    ELSE IF ~j.alone \/ j.id # row.current_experience_id THEN "no"
    ELSE IF j.form = "experience" THEN "post" ELSE "all"

WriteExperienceOnly(t) ==               \* mutant
    LET j == job[t] IN
    /\ j.step = "write"
    /\ experiences' = Written(j)
    /\ settled' = Settles(j)
    /\ IF j.form = "submit" THEN Goes(t, "complete") ELSE Ends(t)
    /\ UNCHANGED <<row, created, page, shown>>

WriteExperience(t) ==
    LET j == job[t] IN
    /\ j.step = "write"
    /\ experiences' = Written(j)
    /\ row' = [row EXCEPT !.post = IF is_current(j.id) THEN j.post ELSE @]
    /\ settled' = Settles(j)
    /\ IF j.form = "submit" THEN Goes(t, "complete") ELSE Ends(t)
    /\ UNCHANGED <<created, page, shown>>

\* The worker is killed (unicorn's timeout).
Killed(t) ==
    /\ Faults
    /\ ~Idle(t)
    /\ settled' = "no"
    /\ Ends(t)
    /\ UNCHANGED <<row, experiences, created, page, shown>>

-----------------------------------------------------------------------------
Serve(t) ==
    \/ CommitUpdate(t)  \/ MailCode(t)
    \/ CreateCurrent(t) \/ FindCurrent(t)
    \/ EnterCurrent(t)  \/ Complete(t)
    \/ WriteExperience(t)

Next ==
    \E t \in Tabs :
       \/ Submit(t)
       \/ UpdateOther(t)
       \/ ValidateEmail(t)
       \/ \E changed \in BOOLEAN : SendValidation(t, changed)
       \/ \E post \in Posts, place \in Places :
            \/ UpdateInfo(t, post, place)
            \/ CreateExperience(t, post, place)
            \/ \E i \in Ids : UpdateExperience(t, i, post, place)
       \/ \E i \in Ids : DestroyExperience(t, i)
       \/ Serve(t)
       \/ Killed(t)

Spec == Init /\ [][Next]_vars

-----------------------------------------------------------------------------
(***************************************************************************)
(* Properties                                                              *)
(***************************************************************************)

\* The profile of a registered broker can be rendered: Experience.find finds the
\* experience the row names (views/brokers/profile/_experiences), whatever was
\* submitted twice, cut short or deleted; and it has the flag that keeps the dialog
\* from offering to delete it.
ProfileRenders == row.setup_completed => is_current(row.current_experience_id)

\* "update current experience based on broker's title, company name, and location"
\* (BrokersController#update): once the last write to a current experience was that
\* of a request served alone and not cut short, the profile names one post, not two;
\* and one location, unless that request was the dialog of the experience, which
\* does not copy it back.
PostAgrees ==
    LET current == experiences[row.current_experience_id] IN
    /\ \A t \in Tabs : Idle(t)
    /\ is_current(row.current_experience_id)
    => /\ settled # "no" => current.post = row.post
       /\ settled = "all" => current.place = row.place

-----------------------------------------------------------------------------
(***************************************************************************)
(* Statements about the profile that the code does not keep (see README).  *)
(***************************************************************************)

\* "check if there is a change in value of title, company_name, company_location"
\* (BrokersController#update): a form without these fields leaves experiences alone.
OtherFormsKeepExperiences ==
    [][\A t \in Tabs : job[t] # NoJob /\ job[t].form = "other" /\ job'[t] # job[t]
         => experiences' = experiences]_vars

\* The two copies agree whenever nothing is under way.
AlwaysAgrees ==
    /\ \A t \in Tabs : Idle(t)
    /\ is_current(row.current_experience_id)
    => experiences[row.current_experience_id].post = row.post

\* Every experience is on the profile, where it can be edited or deleted.
ExperiencesShown ==
    (\A t \in Tabs : Idle(t))
       => \A i \in Ids : is_current(i) => i = row.current_experience_id
=============================================================================
