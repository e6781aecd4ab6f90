------------------------ MODULE BrokerProfile_proofs ------------------------
(***************************************************************************)
(* Proofs about BrokerProfile, for any posts, places, tabs and number of   *)
(* experiences, with or without faults.                                    *)
(***************************************************************************)
EXTENDS BrokerProfile, TLAPS

named == row.current_experience_id

\* Ids are used once, in their order.
IdsUsed == \A i \in Ids : exists(i) => i <= created

\* The experience named by the row is there, and marked as the current one; a completed
\* registration has named one.
CurrentThere ==
    /\ named # Nil => is_current(named)
    /\ row.setup_completed => named # Nil

\* Of a request under way: an experience it took from the row, or created, is marked as
\* current; and a submission that does not create one found the row naming one.
Sound(j) ==
    /\ j.form # "experience" /\ j.id # Nil => is_current(j.id)
    /\ j.step \in {"enter", "write"} => j.id # Nil
    /\ j.step = "update" => j.form \in {"info", "other"}
    /\ j.step = "update" /\ j.form = "other" => j.post = j.old.post /\ j.place = j.old.place
    /\ j.step = "mail" => j.form = "validation"
    /\ j.step \in {"assoc", "enter"} => j.form # "experience"
    /\ j.form = "submit" /\ j.step \in {"assoc", "write"} /\ j.id # Nil => named # Nil
    /\ j.step = "complete" => named # Nil

RequestsSound == \A t \in Tabs : ~Idle(t) => Sound(job[t])

\* What a request loaded, if no other was under way since, is still so.
Undisturbed(j) ==
    /\ j.step = "update" => row.post = j.old.post /\ row.place = j.old.place
    /\ j.step \in {"mail", "assoc", "enter"} => row.post = j.post /\ row.place = j.place
    /\ j.step = "enter" => experiences[j.id].post = j.post /\ experiences[j.id].place = j.place
    /\ j.step = "write" /\ is_current(j.id) =>
          experiences[j.id].post = j.old.post /\ experiences[j.id].place = j.old.place
    /\ j.step = "write" /\ j.form # "experience" => row.post = j.post /\ row.place = j.place

AloneIsAlone ==
    \A t \in Tabs : ~Idle(t) /\ job[t].alone => Undisturbed(job[t]) /\ Others(t) = {}

\* The two copies of the post agree, as far as they are said to ...
Agree ==
    is_current(named) =>
       /\ settled # "no" => experiences[named].post = row.post
       /\ settled = "all" => experiences[named].place = row.place

\* ... or a request that changed the row has not got to the experience yet.
Dirty(t) == ~Idle(t) /\ job[t].form = "info" /\ job[t].step \in {"assoc", "enter", "write"}

Settled == Agree \/ \E t \in Tabs : Dirty(t)

\* The inductive invariant.
ProfileInv ==
    TypeOK /\ IdsUsed /\ CurrentThere /\ RequestsSound /\ AloneIsAlone /\ Settled

-----------------------------------------------------------------------------
\* A row of experiences, and what it means to be the current one.
LEMMA CurrentType ==
    ASSUME TypeOK
    PROVE  /\ \A i \in Ids : exists(i) => experiences[i] \in Experiences
           /\ \A i : is_current(i) => i \in Ids /\ i # Nil
           /\ named \in Ids \union {Nil}
  BY DEF TypeOK, exists, is_current, Experiences, NoRow, named, Rows, Ids, Nil

\* The request of a tab that has one.
LEMMA JobType ==
    ASSUME TypeOK, NEW t \in Tabs
    PROVE  /\ job[t] # NoJob => job[t] \in Jobs /\ job[t].step \in Steps
           /\ job[t].step \in Steps => job[t] # NoJob
  BY DEF TypeOK, NoJob, Jobs, Steps

\* A step of the request of tab t: the other tabs' requests are as before, and none of
\* them is alone.
LEMMA ServeFrame ==
    ASSUME ProfileInv, NEW t \in Tabs, ~Idle(t),
           \A s \in Tabs \ {t} : job'[s] = job[s],
           TypeOK', IdsUsed', CurrentThere',
           \A i \in Ids : is_current(i) => is_current(i)',
           named # Nil => named' # Nil,
           ~Idle(t)' => /\ Sound(job[t])' /\ job'[t].alone = job[t].alone
                        /\ job'[t].alone => Undisturbed(job[t])',
           Agree' \/ Dirty(t)' \/ (~Dirty(t) /\ (Agree => Agree'))
    PROVE  ProfileInv'
<1>1. TypeOK /\ RequestsSound /\ AloneIsAlone /\ Settled
  BY DEF ProfileInv
<1>2. RequestsSound'
  <2> SUFFICES ASSUME NEW s \in Tabs, ~Idle(s)' PROVE Sound(job[s])'
    BY DEF RequestsSound
  <2>1. CASE s = t
    BY <2>1
  <2>2. CASE s # t
    <3>1. job'[s] = job[s] /\ Sound(job[s]) /\ job[s] \in Jobs
      BY <1>1, <2>2, JobType DEF RequestsSound, Idle
    <3>2. job[s].id \in Ids \union {Nil}
      BY <3>1 DEF Jobs
    <3> QED BY <3>1, <3>2 DEF Sound
  <2> QED BY <2>1, <2>2
<1>3. AloneIsAlone'
  <2> SUFFICES ASSUME NEW s \in Tabs, ~Idle(s)', job'[s].alone
               PROVE  Undisturbed(job[s])' /\ Others(s)' = {}
    BY DEF AloneIsAlone
  <2>1. CASE s = t
    <3>1. Others(t) = {}
      BY <1>1, <2>1 DEF AloneIsAlone
    <3> QED BY <2>1, <3>1 DEF Others, Idle
  <2>2. CASE s # t
    <3>1. Others(s) = {}
      BY <1>1, <2>2 DEF AloneIsAlone, Idle
    <3> QED BY <2>2, <3>1 DEF Others
  <2> QED BY <2>1, <2>2
<1>4. Settled'
  <2>1. \A s \in Tabs \ {t} : Dirty(s) => Dirty(s)'
    BY DEF Dirty, Idle
  <2> QED BY <1>1, <2>1 DEF Settled
<1> QED BY <1>2, <1>3, <1>4 DEF ProfileInv

\* A request begins with what it loaded.
LEMMA BeginsFrame ==
    ASSUME ProfileInv, NEW t \in Tabs, NEW j \in Jobs, Sound(j), Undisturbed(j), Begins(t, j),
           UNCHANGED <<row, experiences, created, page, shown, settled>>
    PROVE  ProfileInv'
<1>1. TypeOK /\ RequestsSound /\ AloneIsAlone /\ Settled /\ IdsUsed /\ CurrentThere
  BY DEF ProfileInv
<1> DEFINE mine == [j EXCEPT !.alone = Others(t) = {}]
<1>2. /\ mine \in Jobs
      /\ mine.step = j.step /\ mine.form = j.form /\ mine.post = j.post
      /\ mine.place = j.place /\ mine.old = j.old /\ mine.id = j.id
      /\ mine.alone = (Others(t) = {})
  BY DEF Jobs
<1>3. job'[t] = mine
  BY DEF Begins
<1>4. \A s \in Others(t) : job'[s] = [job[s] EXCEPT !.alone = FALSE] /\ s # t
  BY DEF Begins, Others
<1>5. \A s \in Tabs : s # t /\ s \notin Others(t) => job'[s] = job[s] /\ Idle(s)
  BY DEF Begins, Others
<1>6. \A s \in Others(t) : /\ job[s] \in Jobs /\ job'[s] \in Jobs /\ ~Idle(s)
                           /\ job'[s].step = job[s].step /\ job'[s].form = job[s].form
                           /\ job'[s].post = job[s].post /\ job'[s].place = job[s].place
                           /\ job'[s].old = job[s].old
                           /\ job'[s].id = job[s].id /\ ~job'[s].alone
  <2> SUFFICES ASSUME NEW s \in Others(t)
               PROVE  /\ job[s] \in Jobs /\ job'[s] \in Jobs /\ ~Idle(s)
                      /\ job'[s].step = job[s].step /\ job'[s].form = job[s].form
                      /\ job'[s].post = job[s].post /\ job'[s].place = job[s].place
                      /\ job'[s].old = job[s].old
                      /\ job'[s].id = job[s].id /\ ~job'[s].alone
    OBVIOUS
  <2>1. job[s] \in Jobs /\ ~Idle(s)
    BY <1>1, JobType DEF Others, Idle
  <2> QED BY <1>4, <2>1 DEF Jobs
<1>7. job' \in [Tabs -> Jobs \union {NoJob}]
  <2>1. \A s \in Tabs : job'[s] \in Jobs \union {NoJob}
    BY <1>2, <1>3, <1>5, <1>6 DEF Idle
  <2>2. job' = [s \in Tabs |-> job'[s]]
    BY DEF Begins
  <2> QED BY <2>1, <2>2
<1>8. TypeOK'
  BY <1>1, <1>7 DEF TypeOK
<1>9. IdsUsed' /\ CurrentThere'
  BY <1>1 DEF IdsUsed, CurrentThere, named, is_current, exists
<1>10. RequestsSound'
  <2> SUFFICES ASSUME NEW s \in Tabs, ~Idle(s)' PROVE Sound(job[s])'
    BY DEF RequestsSound
  <2>1. CASE s = t
    BY <1>2, <1>3, <2>1 DEF Sound, is_current, exists, named
  <2>2. CASE s \in Others(t)
    <3>1. Sound(job[s])
      BY <1>1, <1>6, <2>2 DEF RequestsSound
    <3> QED BY <1>6, <2>2, <3>1 DEF Sound, is_current, exists, named
  <2> QED BY <1>5, <2>1, <2>2 DEF Idle
<1>11. AloneIsAlone'
  <2> SUFFICES ASSUME NEW s \in Tabs, ~Idle(s)', job'[s].alone
               PROVE  Undisturbed(job[s])' /\ Others(s)' = {}
    BY DEF AloneIsAlone
  <2>1. s = t
    BY <1>5, <1>6 DEF Idle
  <2>2. Others(t) = {}
    BY <1>2, <1>3, <2>1
  <2>3. Others(t)' = {}
    BY <1>5, <2>2 DEF Others, Idle
  <2>4. Undisturbed(job[t])'
    BY <1>2, <1>3 DEF Undisturbed, is_current, exists
  <2> QED BY <2>1, <2>3, <2>4
<1>12. Settled'
  <2>1. Agree => Agree'
    BY DEF Agree, is_current, exists, named
  <2>2. ASSUME NEW s \in Tabs, Dirty(s) PROVE Dirty(s)'
    <3>1. s \in Others(t)
      BY <2>2 DEF Dirty, Others, Begins
    <3>2. job'[s] # NoJob
      BY <1>6, <3>1 DEF Jobs, NoJob
    <3> QED BY <1>6, <2>2, <3>1, <3>2 DEF Dirty, Idle
  <2> QED BY <1>1, <2>1, <2>2 DEF Settled
<1> QED BY <1>8, <1>9, <1>10, <1>11, <1>12 DEF ProfileInv

\* What a tab without a request does at once: the current experiences stay what they are.
LEMMA AtOnceFrame ==
    ASSUME ProfileInv, TypeOK', IdsUsed', UNCHANGED <<job, settled>>,
           \A i \in Ids : is_current(i)' <=> is_current(i),
           \A i \in Ids : is_current(i) => experiences'[i] = experiences[i],
           named' = named, row'.post = row.post, row'.place = row.place,
           row'.setup_completed = row.setup_completed
    PROVE  ProfileInv'
<1>1. TypeOK /\ RequestsSound /\ AloneIsAlone /\ Settled /\ CurrentThere
  BY DEF ProfileInv
<1>2. named \in Ids \union {Nil}
  BY <1>1, CurrentType
<1>3. \A t \in Tabs : ~Idle(t) => job[t].id \in Ids \union {Nil}
  BY <1>1, JobType DEF Idle, Jobs
<1>4. \A i : is_current(i) => i \in Ids
  BY DEF is_current, exists
<1>5. CurrentThere'
  BY <1>1, <1>2 DEF CurrentThere
<1>6. RequestsSound'
  <2> SUFFICES ASSUME NEW t \in Tabs, ~Idle(t) PROVE Sound(job[t])'
    BY DEF RequestsSound, Idle
  <2> QED BY <1>1, <1>3 DEF RequestsSound, Sound
<1>7. AloneIsAlone'
  <2> SUFFICES ASSUME NEW t \in Tabs, ~Idle(t), job[t].alone
               PROVE  Undisturbed(job[t])' /\ Others(t)' = {}
    BY DEF AloneIsAlone, Idle
  <2>1. Undisturbed(job[t]) /\ Sound(job[t]) /\ Others(t) = {}
    BY <1>1 DEF AloneIsAlone, RequestsSound
  <2>2. job[t].step = "enter" => is_current(job[t].id)
    BY <2>1 DEF Sound
  <2>3. is_current(job[t].id)' => is_current(job[t].id)
    <3>1. is_current(job[t].id)' => job[t].id \in Ids
      BY DEF is_current, exists
    <3> QED BY <3>1 DEF is_current, exists
  <2>4. is_current(job[t].id) => experiences'[job[t].id] = experiences[job[t].id]
    BY <1>4
  <2> QED BY <2>1, <2>2, <2>3, <2>4 DEF Undisturbed, Others, Idle
<1>8. Settled'
  <2>1. Agree => Agree'
    <3>1. is_current(named)' => is_current(named)
      <4>1. is_current(named)' => named \in Ids
        BY DEF is_current, exists
      <4> QED BY <4>1 DEF is_current, exists
    <3> QED BY <1>4, <3>1 DEF Agree
  <2>2. \A t \in Tabs : Dirty(t) => Dirty(t)'
    BY DEF Dirty, Idle
  <2> QED BY <1>1, <2>1, <2>2 DEF Settled
<1> QED BY <1>5, <1>6, <1>7, <1>8 DEF ProfileInv

-----------------------------------------------------------------------------
LEMMA InitProfile == Init => ProfileInv
<1> SUFFICES ASSUME Init PROVE ProfileInv
  OBVIOUS
<1>1. TypeOK
  <2>1. row \in Rows
    BY DEF Init, Rows
  <2>2. 0 \in 0..MaxExperiences
    BY ProfileAssumption
  <2> QED BY <2>1, <2>2 DEF Init, TypeOK
<1>2. \A t \in Tabs : Idle(t)
  BY DEF Init, Idle
<1>3. \A i : ~exists(i)
  BY DEF Init, exists
<1>4. named = Nil /\ ~row.setup_completed
  BY DEF Init, named
<1> QED
  BY <1>1, <1>2, <1>3, <1>4 DEF ProfileInv, IdsUsed, CurrentThere, RequestsSound,
     AloneIsAlone, Settled, Agree, is_current

\* A request of the profile, or the submission, that is about what the row names.
LEMMA LoadsRow ==
    ASSUME ProfileInv, NEW t \in Tabs, NEW form \in Forms \ {"experience"},
           NEW step \in {"update", "mail", "assoc"}, NEW post \in Posts, NEW place \in Places,
           NEW reset \in BOOLEAN,
           form # "info" => post = row.post /\ place = row.place,
           step = "update" => form \in {"info", "other"},
           form = "info" => step = "update",
           step = "mail" => form = "validation",
           Begins(t, Request(form, step, post, place, Loaded, row.current_experience_id, reset)),
           UNCHANGED <<row, experiences, created, page, shown, settled>>
    PROVE  ProfileInv'
<1>1. TypeOK /\ CurrentThere
  BY DEF ProfileInv
<1> DEFINE j == Request(form, step, post, place, Loaded, row.current_experience_id, reset)
<1>2. /\ j.form = form /\ j.step = step /\ j.post = post /\ j.place = place
      /\ j.id = named /\ j.old.post = row.post /\ j.old.place = row.place
  BY DEF Request, Loaded, named
<1>3. j \in Jobs
  BY <1>1 DEF Request, Loaded, TypeOK, Rows, Jobs, Steps, Forms
<1>4. Sound(j)
  BY <1>1, <1>2 DEF Sound, CurrentThere
<1>5. Undisturbed(j)
  BY <1>2 DEF Undisturbed
<1> QED BY <1>3, <1>4, <1>5, BeginsFrame

LEMMA SubmitStep ==
    ASSUME ProfileInv, NEW t \in Tabs, Submit(t)
    PROVE  ProfileInv'
<1>1. row.post \in Posts /\ row.place \in Places
  BY DEF ProfileInv, TypeOK, Rows
<1>2. /\ Begins(t, Request("submit", "assoc", row.post, row.place, Loaded,
                         row.current_experience_id, FALSE))
      /\ UNCHANGED <<row, experiences, created, page, shown, settled>>
  BY DEF Submit
<1>3. "submit" \in Forms \ {"experience"}
  BY DEF Forms
<1> QED BY <1>1, <1>2, <1>3, LoadsRow

LEMMA UpdateInfoStep ==
    ASSUME ProfileInv, NEW t \in Tabs, NEW post \in Posts, NEW place \in Places,
           UpdateInfo(t, post, place)
    PROVE  ProfileInv'
  BY LoadsRow DEF UpdateInfo, Forms

LEMMA UpdateOtherStep ==
    ASSUME ProfileInv, NEW t \in Tabs, UpdateOther(t)
    PROVE  ProfileInv'
<1>1. row.post \in Posts /\ row.place \in Places
  BY DEF ProfileInv, TypeOK, Rows
<1> QED BY <1>1, LoadsRow DEF UpdateOther, Forms

LEMMA SendValidationStep ==
    ASSUME ProfileInv, NEW t \in Tabs, NEW changed \in BOOLEAN, SendValidation(t, changed)
    PROVE  ProfileInv'
<1>1. row.post \in Posts /\ row.place \in Places /\ row.email_authen \in BOOLEAN
  BY DEF ProfileInv, TypeOK, Rows
<1> DEFINE step == IF row.email_authen /\ ~changed THEN "assoc" ELSE "mail"
<1>2. step \in {"update", "mail", "assoc"} /\ step # "update"
  OBVIOUS
<1>3. Begins(t, Request("validation", step, row.post, row.place, Loaded,
                        row.current_experience_id, row.email_authen))
      /\ UNCHANGED <<row, experiences, created, page, shown, settled>>
  BY DEF SendValidation
<1> HIDE DEF step
<1> QED BY <1>1, <1>2, <1>3, LoadsRow DEF Forms

LEMMA UpdateExperienceStep ==
    ASSUME ProfileInv, NEW t \in Tabs, NEW i \in Ids, NEW post \in Posts, NEW place \in Places,
           UpdateExperience(t, i, post, place)
    PROVE  ProfileInv'
<1>1. TypeOK /\ experiences[i] \in Experiences /\ i # Nil
  <2>1. TypeOK /\ exists(i)
    BY DEF ProfileInv, UpdateExperience
  <2>2. i # Nil
    BY DEF Ids, Nil
  <2> QED BY <2>1, <2>2, CurrentType
<1> DEFINE old == [post |-> experiences[i].post, place |-> experiences[i].place]
           j   == Request("experience", "write", post, place, old, i, FALSE)
<1>2. /\ j.form = "experience" /\ j.step = "write" /\ j.post = post /\ j.place = place
      /\ j.id = i /\ j.old.post = experiences[i].post /\ j.old.place = experiences[i].place
  BY DEF Request
<1>3. old \in [post : Posts, place : Places]
  BY <1>1 DEF Experiences
<1>4. j \in Jobs
  BY <1>3 DEF Request, Jobs, Steps, Forms
<1>5. Sound(j)
  BY <1>1, <1>2 DEF Sound
<1>6. Undisturbed(j)
  BY <1>2 DEF Undisturbed
<1>7. Begins(t, j) /\ UNCHANGED <<row, experiences, created, page, shown, settled>>
  BY DEF UpdateExperience
<1> QED BY <1>4, <1>5, <1>6, <1>7, BeginsFrame

LEMMA ValidateEmailStep ==
    ASSUME ProfileInv, NEW t \in Tabs, ValidateEmail(t)
    PROVE  ProfileInv'
<1>1. TypeOK /\ IdsUsed
  BY DEF ProfileInv
<1>2. /\ row' \in Rows /\ named' = named /\ row'.post = row.post /\ row'.place = row.place
      /\ row'.setup_completed = row.setup_completed
  BY <1>1 DEF ValidateEmail, TypeOK, Rows, named
<1>3. TypeOK' /\ IdsUsed'
  BY <1>1, <1>2 DEF ValidateEmail, TypeOK, IdsUsed, exists
<1>4. \A i \in Ids : is_current(i)' <=> is_current(i)
  BY DEF ValidateEmail, is_current, exists
<1> QED BY <1>2, <1>3, <1>4, AtOnceFrame DEF ValidateEmail

\* A new row of experiences does not touch those there are.
LEMMA NewRow ==
    ASSUME TypeOK, IdsUsed, NEW e \in Experiences, created < MaxExperiences,
           created' = created + 1,
           experiences' = [experiences EXCEPT ![created + 1] = e]
    PROVE  /\ created + 1 \in Ids /\ created' \in 0..MaxExperiences
           /\ experiences' \in [Ids -> Experiences \union {NoRow}]
           /\ experiences'[created + 1] = e
           /\ ~exists(created + 1)
           /\ \A i \in Ids : i # created + 1 => experiences'[i] = experiences[i]
           /\ IdsUsed'
<1>1. created \in 0..MaxExperiences /\ MaxExperiences \in Nat
      /\ experiences \in [Ids -> Experiences \union {NoRow}]
  BY ProfileAssumption DEF TypeOK
<1>2. created + 1 \in Ids /\ created' \in 0..MaxExperiences
  BY <1>1 DEF Ids
<1>3. experiences' \in [Ids -> Experiences \union {NoRow}]
  BY <1>1
<1>4. experiences'[created + 1] = e
      /\ \A i \in Ids : i # created + 1 => experiences'[i] = experiences[i]
  BY <1>1, <1>2
<1>5. ~exists(created + 1)
  <2>1. exists(created + 1) => created + 1 <= created
    BY <1>2 DEF IdsUsed
  <2>2. ~(created + 1 <= created)
    BY <1>1
  <2> QED BY <2>1, <2>2
<1>6. IdsUsed'
  <2> SUFFICES ASSUME NEW i \in Ids, exists(i)' PROVE i <= created'
    BY DEF IdsUsed
  <2>1. CASE i = created + 1
    BY <1>1, <2>1
  <2>2. CASE i # created + 1
    BY <1>1, <1>4, <2>2 DEF IdsUsed, exists, Ids
  <2> QED BY <2>1, <2>2
<1> QED BY <1>2, <1>3, <1>4, <1>5, <1>6

LEMMA CreateExperienceStep ==
    ASSUME ProfileInv, NEW t \in Tabs, NEW post \in Posts, NEW place \in Places,
           CreateExperience(t, post, place)
    PROVE  ProfileInv'
<1>1. TypeOK /\ IdsUsed
  BY DEF ProfileInv
<1> DEFINE e == [post |-> post, place |-> place, current_experience |-> FALSE]
<1>2. e \in Experiences
  BY DEF Experiences
<1>3. /\ created + 1 \in Ids /\ created' \in 0..MaxExperiences
      /\ experiences' \in [Ids -> Experiences \union {NoRow}]
      /\ experiences'[created + 1] = e
      /\ ~exists(created + 1)
      /\ \A i \in Ids : i # created + 1 => experiences'[i] = experiences[i]
      /\ IdsUsed'
  BY <1>1, <1>2, NewRow DEF CreateExperience
<1>4. TypeOK'
  BY <1>1, <1>3 DEF CreateExperience, TypeOK
<1>5. \A i \in Ids : is_current(i)' <=> is_current(i)
  BY <1>3 DEF is_current, exists
<1>6. \A i \in Ids : is_current(i) => experiences'[i] = experiences[i]
  BY <1>3 DEF is_current
<1>7. row' = row /\ named' = named
  BY DEF CreateExperience, named
<1> QED BY <1>3, <1>4, <1>5, <1>6, <1>7, AtOnceFrame DEF CreateExperience

LEMMA DestroyExperienceStep ==
    ASSUME ProfileInv, NEW t \in Tabs, NEW i \in Ids, DestroyExperience(t, i)
    PROVE  ProfileInv'
<1>1. TypeOK /\ IdsUsed
  BY DEF ProfileInv
<1>2. /\ experiences' \in [Ids -> Experiences \union {NoRow}]
      /\ \A k \in Ids : experiences'[k] = IF k = i THEN NoRow ELSE experiences[k]
  BY <1>1 DEF DestroyExperience, TypeOK
<1>3. TypeOK'
  BY <1>1, <1>2 DEF DestroyExperience, TypeOK
<1>4. IdsUsed'
  BY <1>1, <1>2 DEF DestroyExperience, IdsUsed, exists
<1>5. \A k \in Ids : is_current(k)' <=> is_current(k)
  BY <1>2 DEF DestroyExperience, is_current, exists
<1>6. \A k \in Ids : is_current(k) => experiences'[k] = experiences[k]
  BY <1>2 DEF DestroyExperience
<1>7. row' = row /\ named' = named
  BY DEF DestroyExperience, named
<1> QED BY <1>3, <1>4, <1>5, <1>6, <1>7, AtOnceFrame DEF DestroyExperience

-----------------------------------------------------------------------------
\* The request of tab t goes on, or ends.
LEMMA GoesType ==
    ASSUME TypeOK, NEW t \in Tabs, ~Idle(t), NEW step \in Steps, Goes(t, step)
    PROVE  /\ job' \in [Tabs -> Jobs \union {NoJob}]
           /\ \A s \in Tabs \ {t} : job'[s] = job[s]
           /\ job'[t] \in Jobs /\ ~Idle(t)' /\ job'[t].step = step
           /\ job'[t].form = job[t].form /\ job'[t].post = job[t].post
           /\ job'[t].place = job[t].place /\ job'[t].old = job[t].old
           /\ job'[t].id = job[t].id /\ job'[t].alone = job[t].alone
<1>1. job[t] \in Jobs /\ job \in [Tabs -> Jobs \union {NoJob}]
  BY JobType DEF Idle, TypeOK
<1> DEFINE next == [job[t] EXCEPT !.step = step]
<1>2. /\ next \in Jobs /\ next.step = step /\ next.form = job[t].form
      /\ next.post = job[t].post /\ next.place = job[t].place /\ next.old = job[t].old
      /\ next.id = job[t].id /\ next.alone = job[t].alone
  BY <1>1 DEF Jobs
<1>3. job' = [job EXCEPT ![t] = next]
  BY DEF Goes
<1>4. next # NoJob
  BY <1>2 DEF NoJob, Steps
<1> HIDE DEF next
<1> QED BY <1>1, <1>2, <1>3, <1>4 DEF Idle

LEMMA EndsType ==
    ASSUME TypeOK, NEW t \in Tabs, Ends(t)
    PROVE  /\ job' \in [Tabs -> Jobs \union {NoJob}]
           /\ \A s \in Tabs \ {t} : job'[s] = job[s]
           /\ Idle(t)'
  BY DEF Ends, TypeOK, Idle

LEMMA CommitUpdateStep ==
    ASSUME ProfileInv, NEW t \in Tabs, CommitUpdate(t)
    PROVE  ProfileInv'
<1>1. TypeOK /\ IdsUsed /\ CurrentThere /\ RequestsSound /\ AloneIsAlone
  BY DEF ProfileInv
<1>2. job[t].step = "update" /\ "update" \in Steps /\ "assoc" \in Steps
  BY DEF CommitUpdate, Steps
<1>3. ~Idle(t) /\ job[t] \in Jobs /\ Sound(job[t])
  BY <1>1, <1>2, JobType DEF Idle, RequestsSound
<1>4. job[t].post \in Posts /\ job[t].place \in Places
  BY <1>3 DEF Jobs
<1>5. /\ row' \in Rows /\ named' = named /\ row'.setup_completed = row.setup_completed
      /\ row'.post = IF job[t].post # job[t].old.post THEN job[t].post ELSE row.post
      /\ row'.place = IF job[t].place # job[t].old.place THEN job[t].place ELSE row.place
  BY <1>1, <1>4 DEF CommitUpdate, TypeOK, Rows, named
<1>6. UNCHANGED <<experiences, created, page, shown, settled>>
  BY DEF CommitUpdate
<1>7. \A i : is_current(i)' <=> is_current(i)
  BY <1>6 DEF is_current, exists
<1>8. IdsUsed' /\ CurrentThere'
  BY <1>1, <1>5, <1>6, <1>7 DEF IdsUsed, CurrentThere, exists
<1>9. job[t].form \in {"info", "other"}
  BY <1>2, <1>3 DEF Sound
<1>10. CASE change_experience(job[t])
  <2>1. Goes(t, "assoc")
    BY <1>10 DEF CommitUpdate
  <2>2. /\ job' \in [Tabs -> Jobs \union {NoJob}]
        /\ \A s \in Tabs \ {t} : job'[s] = job[s]
        /\ job'[t].step = "assoc" /\ job'[t].form = job[t].form /\ job'[t].post = job[t].post
        /\ job'[t].place = job[t].place /\ job'[t].id = job[t].id
        /\ job'[t].alone = job[t].alone /\ ~Idle(t)'
    BY <1>1, <1>2, <1>3, <2>1, GoesType
  <2>3. TypeOK'
    BY <1>1, <1>5, <1>6, <2>2 DEF TypeOK
  <2>4. Sound(job[t])'
    BY <1>3, <1>7, <1>9, <2>2 DEF Sound
  <2>5. job[t].alone => Undisturbed(job[t])'
    <3>1. job[t].alone => row.post = job[t].old.post /\ row.place = job[t].old.place
      BY <1>1, <1>2, <1>3 DEF AloneIsAlone, Undisturbed
    <3> QED BY <1>5, <2>2, <3>1 DEF Undisturbed
  <2>6. Dirty(t)' \/ (~Dirty(t) /\ (Agree => Agree'))
    <3>1. CASE job[t].form = "info"
      BY <2>2, <3>1 DEF Dirty
    <3>2. CASE job[t].form = "other"
      <4>1. row'.post = row.post /\ row'.place = row.place
        BY <1>2, <1>3, <1>5, <3>2 DEF Sound
      <4> QED BY <1>2, <1>5, <1>6, <1>7, <4>1 DEF Dirty, Agree
    <3> QED BY <1>9, <3>1, <3>2
  <2> QED BY <1>3, <1>5, <1>7, <1>8, <2>2, <2>3, <2>4, <2>5, <2>6, ServeFrame
<1>11. CASE ~change_experience(job[t])
  <2>1. Ends(t)
    BY <1>11 DEF CommitUpdate
  <2>2. /\ job' \in [Tabs -> Jobs \union {NoJob}]
        /\ \A s \in Tabs \ {t} : job'[s] = job[s] /\ Idle(t)'
    BY <1>1, <2>1, EndsType
  <2>3. TypeOK'
    BY <1>1, <1>5, <1>6, <2>2, <2>1, EndsType DEF TypeOK
  <2>4. row'.post = row.post /\ row'.place = row.place
    BY <1>5, <1>11 DEF change_experience
  <2>5. ~Dirty(t) /\ (Agree => Agree')
    BY <1>2, <1>5, <1>6, <1>7, <2>4 DEF Dirty, Agree
  <2>6. Idle(t)'
    BY <1>1, <2>1, EndsType
  <2> QED BY <1>3, <1>5, <1>7, <1>8, <2>2, <2>3, <2>5, <2>6, ServeFrame
<1> QED BY <1>10, <1>11

LEMMA MailCodeStep ==
    ASSUME ProfileInv, NEW t \in Tabs, MailCode(t)
    PROVE  ProfileInv'
<1>1. TypeOK /\ IdsUsed /\ CurrentThere /\ RequestsSound /\ AloneIsAlone
  BY DEF ProfileInv
<1>2. job[t].step = "mail" /\ "mail" \in Steps /\ "assoc" \in Steps
  BY DEF MailCode, Steps
<1>3. ~Idle(t) /\ job[t] \in Jobs /\ Sound(job[t]) /\ ~Dirty(t)
  BY <1>1, <1>2, JobType DEF Idle, RequestsSound, Dirty
<1>4. /\ row' \in Rows /\ named' = named /\ row'.setup_completed = row.setup_completed
      /\ row'.post = row.post /\ row'.place = row.place
  BY <1>1 DEF MailCode, TypeOK, Rows, named
<1>5. UNCHANGED <<experiences, created, page, shown, settled>>
  BY DEF MailCode
<1>6. \A i : is_current(i)' <=> is_current(i)
  BY <1>5 DEF is_current, exists
<1>7. IdsUsed' /\ CurrentThere'
  BY <1>1, <1>4, <1>5, <1>6 DEF IdsUsed, CurrentThere, exists
<1>8. Agree => Agree'
  BY <1>4, <1>5, <1>6 DEF Agree
<1>9. CASE Goes(t, "assoc")
  <2>1. /\ job' \in [Tabs -> Jobs \union {NoJob}]
        /\ \A s \in Tabs \ {t} : job'[s] = job[s]
        /\ job'[t].step = "assoc" /\ job'[t].form = job[t].form /\ job'[t].post = job[t].post
        /\ job'[t].place = job[t].place /\ job'[t].id = job[t].id
        /\ job'[t].alone = job[t].alone /\ ~Idle(t)'
    BY <1>1, <1>2, <1>3, <1>9, GoesType
  <2>2. TypeOK'
    BY <1>1, <1>4, <1>5, <2>1 DEF TypeOK
  <2>3. Sound(job[t])'
    BY <1>2, <1>3, <1>6, <2>1 DEF Sound
  <2>4. job[t].alone => Undisturbed(job[t])'
    <3>1. job[t].alone => row.post = job[t].post /\ row.place = job[t].place
      BY <1>1, <1>2, <1>3 DEF AloneIsAlone, Undisturbed
    <3> QED BY <1>4, <2>1, <3>1 DEF Undisturbed
  <2> QED BY <1>3, <1>4, <1>6, <1>7, <1>8, <2>1, <2>2, <2>3, <2>4, ServeFrame
<1>10. CASE Ends(t)
  <2>1. /\ job' \in [Tabs -> Jobs \union {NoJob}]
        /\ \A s \in Tabs \ {t} : job'[s] = job[s]
        /\ Idle(t)'
    BY <1>1, <1>10, EndsType
  <2>2. TypeOK'
    BY <1>1, <1>4, <1>5, <2>1 DEF TypeOK
  <2> QED BY <1>3, <1>4, <1>6, <1>7, <1>8, <2>1, <2>2, ServeFrame
<1> QED BY <1>9, <1>10 DEF MailCode

LEMMA CreateCurrentStep ==
    ASSUME ProfileInv, NEW t \in Tabs, CreateCurrent(t)
    PROVE  ProfileInv'
<1>1. TypeOK /\ IdsUsed /\ CurrentThere /\ RequestsSound /\ AloneIsAlone
  BY DEF ProfileInv
<1>2. job[t].step = "assoc" /\ "assoc" \in Steps /\ "enter" \in Steps
  BY DEF CreateCurrent, Steps
<1>3. ~Idle(t) /\ job[t] \in Jobs /\ Sound(job[t])
  BY <1>1, <1>2, JobType DEF Idle, RequestsSound
<1> DEFINE e == [post |-> job[t].post, place |-> job[t].place, current_experience |-> TRUE]
           new == created + 1
           next == [job[t] EXCEPT !.id = new, !.step = "enter"]
<1>4. e \in Experiences
  BY <1>3 DEF Experiences, Jobs
<1>5. /\ new \in Ids /\ created' \in 0..MaxExperiences
      /\ experiences' \in [Ids -> Experiences \union {NoRow}]
      /\ experiences'[new] = e
      /\ ~exists(new)
      /\ \A i \in Ids : i # new => experiences'[i] = experiences[i]
      /\ IdsUsed'
  BY <1>1, <1>4, NewRow DEF CreateCurrent
<1>6. /\ next \in Jobs /\ next.step = "enter" /\ next.form = job[t].form
      /\ next.post = job[t].post /\ next.place = job[t].place
      /\ next.id = new /\ next.alone = job[t].alone
  BY <1>2, <1>3, <1>5 DEF Jobs
<1>7. job' = [job EXCEPT ![t] = next]
  BY DEF CreateCurrent
<1>8. next # NoJob
  BY <1>6 DEF NoJob
<1> HIDE DEF next, new
<1>9. /\ job' \in [Tabs -> Jobs \union {NoJob}] /\ job'[t] = next /\ ~Idle(t)'
      /\ \A s \in Tabs \ {t} : job'[s] = job[s]
  BY <1>1, <1>6, <1>7, <1>8 DEF TypeOK, Idle
<1>10. row' = row /\ named' = named /\ settled' = settled
  BY DEF CreateCurrent, named
<1>11. TypeOK'
  BY <1>1, <1>5, <1>9 DEF CreateCurrent, TypeOK
<1>12. is_current(job[t].id)'
  <2>1. e # NoRow /\ e.current_experience
    BY DEF NoRow
  <2>2. job'[t].id \in Ids /\ experiences'[job'[t].id] = e
    BY <1>5, <1>6, <1>9
  <2> QED BY <2>1, <2>2 DEF is_current, exists
<1>13. \A i \in Ids : is_current(i) => is_current(i)' /\ experiences'[i] = experiences[i]
  BY <1>5 DEF is_current, exists
<1>14. named # Nil => is_current(named) /\ named \in Ids
  BY <1>1 DEF CurrentThere, is_current, exists
<1>15. CurrentThere'
  BY <1>1, <1>10, <1>13, <1>14 DEF CurrentThere
<1>16. Sound(job[t])'
  <2>1. job[t].form # "experience"
    BY <1>2, <1>3 DEF Sound
  <2>2. new # Nil
    BY <1>5 DEF Ids, Nil
  <2> QED BY <1>6, <1>9, <1>12, <2>1, <2>2 DEF Sound
<1>17. job[t].alone => Undisturbed(job[t])'
  <2>1. job[t].alone => row.post = job[t].post /\ row.place = job[t].place
    BY <1>1, <1>2, <1>3 DEF AloneIsAlone, Undisturbed
  <2> QED BY <1>5, <1>6, <1>9, <1>10, <2>1 DEF Undisturbed
<1>18. Dirty(t)' \/ (~Dirty(t) /\ (Agree => Agree'))
  <2>1. CASE job[t].form = "info"
    BY <1>6, <1>9, <2>1 DEF Dirty
  <2>2. CASE job[t].form # "info"
    <3>1. is_current(named)' => named # Nil
      BY <1>10 DEF is_current, exists, Ids, Nil
    <3> QED BY <1>10, <1>13, <1>14, <2>2, <3>1 DEF Dirty, Agree
  <2> QED BY <2>1, <2>2
<1> QED BY <1>3, <1>5, <1>6, <1>9, <1>10, <1>11, <1>13, <1>15, <1>16, <1>17, <1>18, ServeFrame

LEMMA FindCurrentStep ==
    ASSUME ProfileInv, NEW t \in Tabs, FindCurrent(t)
    PROVE  ProfileInv'
<1>1. TypeOK /\ IdsUsed /\ CurrentThere /\ RequestsSound /\ AloneIsAlone
  BY DEF ProfileInv
<1>2. job[t].step = "assoc" /\ "assoc" \in Steps /\ "write" \in Steps /\ job[t].id # Nil
  BY DEF FindCurrent, Steps
<1>3. ~Idle(t) /\ job[t] \in Jobs /\ Sound(job[t])
  BY <1>1, <1>2, JobType DEF Idle, RequestsSound
<1>4. job[t].form # "experience" /\ is_current(job[t].id)
  BY <1>2, <1>3 DEF Sound
<1>5. exists(job[t].id) /\ job[t].id \in Ids /\ experiences[job[t].id] \in Experiences
  BY <1>1, <1>4, CurrentType DEF is_current
<1> DEFINE old == [post |-> experiences[job[t].id].post, place |-> experiences[job[t].id].place]
           next == [job[t] EXCEPT !.step = "write", !.old = old]
<1>6. old \in [post : Posts, place : Places]
  BY <1>5 DEF Experiences
<1>7. /\ next \in Jobs /\ next.step = "write" /\ next.form = job[t].form
      /\ next.post = job[t].post /\ next.place = job[t].place /\ next.old = old
      /\ next.id = job[t].id /\ next.alone = job[t].alone
  BY <1>2, <1>3, <1>6 DEF Jobs
<1>8. job' = [job EXCEPT ![t] = next]
  BY <1>5 DEF FindCurrent
<1>9. next # NoJob
  BY <1>7 DEF NoJob
<1> HIDE DEF next
<1>10. /\ job' \in [Tabs -> Jobs \union {NoJob}] /\ job'[t] = next /\ ~Idle(t)'
       /\ \A s \in Tabs \ {t} : job'[s] = job[s]
  BY <1>1, <1>7, <1>8, <1>9 DEF TypeOK, Idle
<1>11. UNCHANGED <<row, experiences, created, page, shown, settled>> /\ named' = named
  BY DEF FindCurrent, named
<1>12. TypeOK' /\ IdsUsed' /\ CurrentThere' /\ \A i : is_current(i)' <=> is_current(i)
  BY <1>1, <1>10, <1>11 DEF TypeOK, IdsUsed, CurrentThere, is_current, exists
<1>13. Sound(job[t])'
  BY <1>2, <1>3, <1>4, <1>7, <1>10, <1>11, <1>12 DEF Sound
<1>14. job[t].alone => Undisturbed(job[t])'
  <2>1. job[t].alone => row.post = job[t].post /\ row.place = job[t].place
    BY <1>1, <1>2, <1>3 DEF AloneIsAlone, Undisturbed
  <2> QED BY <1>7, <1>10, <1>11, <2>1 DEF Undisturbed
<1>15. Dirty(t)' \/ (~Dirty(t) /\ (Agree => Agree'))
  <2>1. Agree => Agree'
    BY <1>11, <1>12 DEF Agree
  <2> QED BY <1>2, <1>7, <1>10, <2>1 DEF Dirty
<1> QED BY <1>3, <1>7, <1>10, <1>11, <1>12, <1>13, <1>14, <1>15, ServeFrame

LEMMA EnterCurrentStep ==
    ASSUME ProfileInv, NEW t \in Tabs, EnterCurrent(t)
    PROVE  ProfileInv'
<1>1. TypeOK /\ IdsUsed /\ CurrentThere /\ RequestsSound /\ AloneIsAlone
  BY DEF ProfileInv
<1>2. job[t].step = "enter" /\ "enter" \in Steps /\ "complete" \in Steps
  BY DEF EnterCurrent, Steps
<1>3. ~Idle(t) /\ job[t] \in Jobs /\ Sound(job[t])
  BY <1>1, <1>2, JobType DEF Idle, RequestsSound
<1>4. job[t].id # Nil /\ job[t].form # "experience" /\ is_current(job[t].id) /\ job[t].id \in Ids
  BY <1>2, <1>3 DEF Sound, is_current, exists
<1>5. /\ row' \in Rows /\ named' = job[t].id /\ row'.setup_completed = row.setup_completed
      /\ row'.post = row.post /\ row'.place = row.place
  BY <1>1, <1>4 DEF EnterCurrent, TypeOK, Rows, named
<1>6. /\ UNCHANGED <<experiences, created, page>> /\ shown' = shown \union {job[t].id}
      /\ settled' = IF job[t].alone THEN "all" ELSE "no"
  BY DEF EnterCurrent
<1>7. \A i : is_current(i)' <=> is_current(i)
  BY <1>6 DEF is_current, exists
<1>8. IdsUsed' /\ CurrentThere'
  BY <1>1, <1>4, <1>5, <1>6, <1>7 DEF IdsUsed, CurrentThere, exists
<1>9. Agree'
  <2>1. job[t].alone => /\ row.post = job[t].post /\ row.place = job[t].place
                        /\ experiences[job[t].id].post = job[t].post
                        /\ experiences[job[t].id].place = job[t].place
    BY <1>1, <1>2, <1>3 DEF AloneIsAlone, Undisturbed
  <2> QED BY <1>5, <1>6, <2>1 DEF Agree
<1>10. ASSUME job' \in [Tabs -> Jobs \union {NoJob}] PROVE TypeOK'
  BY <1>1, <1>4, <1>5, <1>6, <1>10 DEF TypeOK
<1>11. CASE job[t].form = "submit"
  <2>1. Goes(t, "complete")
    BY <1>11 DEF EnterCurrent
  <2>2. /\ job' \in [Tabs -> Jobs \union {NoJob}]
        /\ \A s \in Tabs \ {t} : job'[s] = job[s]
        /\ job'[t].step = "complete" /\ job'[t].form = job[t].form
        /\ job'[t].id = job[t].id /\ job'[t].alone = job[t].alone /\ ~Idle(t)'
    BY <1>1, <1>2, <1>3, <2>1, GoesType
  <2>3. Sound(job[t])' /\ Undisturbed(job[t])'
    BY <1>4, <1>5, <1>7, <2>2 DEF Sound, Undisturbed
  <2> QED BY <1>3, <1>4, <1>5, <1>7, <1>8, <1>9, <1>10, <2>2, <2>3, ServeFrame
<1>12. CASE job[t].form # "submit"
  <2>1. Ends(t)
    BY <1>12 DEF EnterCurrent
  <2>2. /\ job' \in [Tabs -> Jobs \union {NoJob}]
        /\ \A s \in Tabs \ {t} : job'[s] = job[s]
        /\ Idle(t)'
    BY <1>1, <2>1, EndsType
  <2> QED BY <1>3, <1>4, <1>5, <1>7, <1>8, <1>9, <1>10, <2>2, ServeFrame
<1> QED BY <1>11, <1>12

LEMMA CompleteStep ==
    ASSUME ProfileInv, NEW t \in Tabs, Complete(t)
    PROVE  ProfileInv'
<1>1. TypeOK /\ IdsUsed /\ CurrentThere /\ RequestsSound
  BY DEF ProfileInv
<1>2. job[t].step = "complete" /\ "complete" \in Steps
  BY DEF Complete, Steps
<1>3. ~Idle(t) /\ ~Dirty(t) /\ named # Nil
  BY <1>1, <1>2, JobType DEF Idle, RequestsSound, Dirty, Sound
<1>4. /\ row' \in Rows /\ named' = named /\ row'.post = row.post /\ row'.place = row.place
  BY <1>1 DEF Complete, TypeOK, Rows, named
<1>5. /\ UNCHANGED <<experiences, created, shown, settled>>
      /\ page' \in [Tabs -> {"wizard", "profile"}]
  BY <1>1 DEF Complete, TypeOK
<1>6. \A i : is_current(i)' <=> is_current(i)
  BY <1>5 DEF is_current, exists
<1>7. IdsUsed' /\ CurrentThere'
  BY <1>1, <1>3, <1>4, <1>5, <1>6 DEF IdsUsed, CurrentThere, exists
<1>8. /\ job' \in [Tabs -> Jobs \union {NoJob}]
      /\ \A s \in Tabs \ {t} : job'[s] = job[s]
      /\ Idle(t)'
  BY <1>1, EndsType DEF Complete
<1>9. TypeOK'
  BY <1>1, <1>4, <1>5, <1>8 DEF TypeOK
<1>10. Agree => Agree'
  BY <1>4, <1>5, <1>6 DEF Agree
<1> QED BY <1>3, <1>4, <1>6, <1>7, <1>8, <1>9, <1>10, ServeFrame

\* One transaction writes the experience and, when it is the current one, the broker's
\* row; nobody else's write of the post comes in between.
LEMMA WriteExperienceStep ==
    ASSUME ProfileInv, NEW t \in Tabs, WriteExperience(t)
    PROVE  ProfileInv'
<1>1. TypeOK /\ IdsUsed /\ CurrentThere /\ RequestsSound /\ AloneIsAlone
  BY DEF ProfileInv
<1> DEFINE id == job[t].id
<1>2. job[t].step = "write" /\ "write" \in Steps /\ "complete" \in Steps
  BY DEF WriteExperience, Steps
<1>3. ~Idle(t) /\ job[t] \in Jobs /\ Sound(job[t])
  BY <1>1, <1>2, JobType DEF Idle, RequestsSound
<1>4. job[t].post \in Posts /\ job[t].place \in Places /\ id \in Ids
  BY <1>2, <1>3 DEF Jobs, Sound
<1>5. /\ row' \in Rows /\ named' = named /\ row'.setup_completed = row.setup_completed
      /\ row'.post = (IF is_current(id) THEN job[t].post ELSE row.post)
      /\ row'.place = row.place
  BY <1>1, <1>4 DEF WriteExperience, TypeOK, Rows, named
<1>6. experiences' = Written(job[t]) /\ settled' = Settles(job[t])
      /\ UNCHANGED <<created, page, shown>>
  BY DEF WriteExperience
<1>7. \A i \in Ids : i # id => experiences'[i] = experiences[i]
  BY <1>6 DEF Written
<1>8. ~exists(id) => experiences'[id] = experiences[id]
  BY <1>4, <1>6 DEF Written
<1>9. exists(id) =>
         /\ experiences'[id] \in Experiences
         /\ experiences'[id].current_experience = experiences[id].current_experience
         /\ experiences'[id].post =
               (IF job[t].post # job[t].old.post THEN job[t].post ELSE experiences[id].post)
         /\ experiences'[id].place =
               (IF job[t].place # job[t].old.place THEN job[t].place ELSE experiences[id].place)
  <2>1. exists(id) => experiences[id] \in Experiences
    BY <1>1, <1>4, CurrentType
  <2> QED BY <1>4, <1>6, <2>1 DEF Written, Experiences
<1>10. \A e \in Experiences : e # NoRow
  BY DEF Experiences, NoRow
<1>11. \A i \in Ids : /\ exists(i)' <=> exists(i)
                      /\ is_current(i)' <=> is_current(i)
  BY <1>4, <1>7, <1>8, <1>9, <1>10 DEF exists, is_current
<1>12. experiences' \in [Ids -> Experiences \union {NoRow}]
  <2>1. \A i \in Ids : experiences'[i] \in Experiences \union {NoRow}
    BY <1>1, <1>7, <1>8, <1>9 DEF TypeOK
  <2>2. experiences' = [i \in Ids |-> experiences'[i]]
    BY <1>6 DEF Written
  <2> QED BY <2>1, <2>2
<1>13. settled' \in {"no", "post", "all"}
  BY <1>1, <1>6 DEF Settles, TypeOK
<1>14. IdsUsed'
  BY <1>1, <1>6, <1>11 DEF IdsUsed
<1>15. named # Nil => is_current(named) /\ named \in Ids
  BY <1>1 DEF CurrentThere, is_current, exists
<1>16. CurrentThere'
  BY <1>1, <1>5, <1>11, <1>15 DEF CurrentThere
<1>17. is_current(id) => Agree'
  <2> SUFFICES ASSUME is_current(id), settled' # "no" PROVE Agree'
    BY DEF Agree
  <2>1. job[t].alone /\ id = named
    BY <1>6 DEF Settles, named
  <2>2. /\ experiences[id].post = job[t].old.post /\ experiences[id].place = job[t].old.place
        /\ job[t].form # "experience" => row.place = job[t].place
    BY <1>1, <1>2, <1>3, <2>1 DEF AloneIsAlone, Undisturbed
  <2>3. experiences'[id].post = job[t].post /\ experiences'[id].place = job[t].place
    BY <1>9, <2>2 DEF is_current
  <2>4. settled' = "all" => job[t].form # "experience"
    BY <1>6 DEF Settles
  <2> QED BY <1>5, <2>1, <2>2, <2>3, <2>4 DEF Agree
<1>18. ~is_current(id) => ~Dirty(t) /\ (Agree => Agree')
  <2> SUFFICES ASSUME ~is_current(id) PROVE ~Dirty(t) /\ (Agree => Agree')
    OBVIOUS
  <2>1. job[t].form = "experience"
    BY <1>2, <1>3 DEF Sound
  <2>2. settled' = settled /\ row'.post = row.post
    BY <1>5, <1>6 DEF Settles
  <2>3. is_current(named)' => is_current(named) /\ named \in Ids
    <3>1. is_current(named)' => named \in Ids
      BY <1>5 DEF is_current, exists
    <3>2. named # Nil
           => (is_current(named) /\ named \in Ids)
      BY <1>15
    <3>3. Nil \notin Ids
      BY DEF Ids, Nil
    <3> QED BY <3>1, <3>2, <3>3
  <2>4. is_current(named) /\ named \in Ids => experiences'[named] = experiences[named]
    BY <1>7
  <2> QED BY <1>5, <2>1, <2>2, <2>3, <2>4 DEF Dirty, Agree
<1>19. Agree' \/ (~Dirty(t) /\ (Agree => Agree'))
  BY <1>17, <1>18
<1>20. ASSUME job' \in [Tabs -> Jobs \union {NoJob}] PROVE TypeOK'
  BY <1>1, <1>5, <1>6, <1>12, <1>13, <1>20 DEF TypeOK
<1>21. CASE job[t].form = "submit"
  <2>1. Goes(t, "complete")
    BY <1>21 DEF WriteExperience
  <2>2. /\ job' \in [Tabs -> Jobs \union {NoJob}]
        /\ \A s \in Tabs \ {t} : job'[s] = job[s]
        /\ job'[t].step = "complete" /\ job'[t].form = job[t].form
        /\ job'[t].id = job[t].id /\ job'[t].alone = job[t].alone /\ ~Idle(t)'
    BY <1>1, <1>2, <1>3, <2>1, GoesType
  <2>3. is_current(id) /\ named # Nil
    BY <1>2, <1>3, <1>21 DEF Sound
  <2>4. is_current(job[t].id)'
    BY <1>4, <1>9, <1>10, <2>2, <2>3 DEF is_current, exists
  <2>5. Sound(job[t])' /\ Undisturbed(job[t])'
    BY <1>5, <2>2, <2>3, <2>4 DEF Sound, Undisturbed
  <2> QED BY <1>3, <1>5, <1>11, <1>14, <1>16, <1>19, <1>20, <2>2, <2>5, ServeFrame
<1>22. CASE job[t].form # "submit"
  <2>1. Ends(t)
    BY <1>22 DEF WriteExperience
  <2>2. /\ job' \in [Tabs -> Jobs \union {NoJob}]
        /\ \A s \in Tabs \ {t} : job'[s] = job[s]
        /\ Idle(t)'
    BY <1>1, <2>1, EndsType
  <2> QED BY <1>3, <1>5, <1>11, <1>14, <1>16, <1>19, <1>20, <2>2, ServeFrame
<1> QED BY <1>21, <1>22

LEMMA KilledStep ==
    ASSUME ProfileInv, NEW t \in Tabs, Killed(t)
    PROVE  ProfileInv'
<1>1. TypeOK /\ IdsUsed /\ CurrentThere
  BY DEF ProfileInv
<1>2. /\ job' \in [Tabs -> Jobs \union {NoJob}]
      /\ \A s \in Tabs \ {t} : job'[s] = job[s]
      /\ Idle(t)'
  BY <1>1, EndsType DEF Killed
<1>3. UNCHANGED <<row, experiences, created, page, shown>> /\ named' = named /\ settled' = "no"
  BY DEF Killed, named
<1>4. TypeOK' /\ IdsUsed' /\ CurrentThere' /\ \A i : is_current(i)' <=> is_current(i)
  BY <1>1, <1>2, <1>3 DEF TypeOK, IdsUsed, CurrentThere, is_current, exists
<1>5. Agree' /\ ~Idle(t)
  BY <1>3 DEF Agree, Killed
<1> QED BY <1>2, <1>3, <1>4, <1>5, ServeFrame

LEMMA NextProfile == ProfileInv /\ [Next]_vars => ProfileInv'
<1> SUFFICES ASSUME ProfileInv, [Next]_vars PROVE ProfileInv'
  OBVIOUS
<1>1. ASSUME NEW t \in Tabs,
             \/ Submit(t) \/ UpdateOther(t) \/ ValidateEmail(t)
             \/ \E changed \in BOOLEAN : SendValidation(t, changed)
             \/ \E i \in Ids : DestroyExperience(t, i)
      PROVE  ProfileInv'
  BY <1>1, SubmitStep, UpdateOtherStep, ValidateEmailStep, SendValidationStep,
     DestroyExperienceStep
<1>2. ASSUME NEW t \in Tabs, NEW post \in Posts, NEW place \in Places,
             \/ UpdateInfo(t, post, place) \/ CreateExperience(t, post, place)
             \/ \E i \in Ids : UpdateExperience(t, i, post, place)
      PROVE  ProfileInv'
  BY <1>2, UpdateInfoStep, CreateExperienceStep, UpdateExperienceStep
<1>3. ASSUME NEW t \in Tabs, Serve(t) \/ Killed(t)
      PROVE  ProfileInv'
  BY <1>3, CommitUpdateStep, MailCodeStep, CreateCurrentStep, FindCurrentStep,
     EnterCurrentStep, CompleteStep, WriteExperienceStep, KilledStep DEF Serve
<1>4. CASE UNCHANGED vars
  <2>1. ProfileInv
    OBVIOUS
  <2> QED BY <1>4, <2>1 DEF vars, ProfileInv, TypeOK, IdsUsed, CurrentThere, RequestsSound,
             AloneIsAlone, Settled, Sound, Undisturbed, Agree, Dirty, Others, Idle, named,
             is_current, exists
<1> QED BY <1>1, <1>2, <1>3, <1>4 DEF Next

-----------------------------------------------------------------------------
LEMMA ProfileInvariant == Spec => []ProfileInv
  BY InitProfile, NextProfile, PTL DEF Spec

\* The broker's row, the experiences and the requests under way are well typed: no form
\* stores a blank post (the validations of Broker and Experience).
THEOREM ProfileTypeCorrect == Spec => []TypeOK
<1>1. ProfileInv => TypeOK
  BY DEF ProfileInv
<1> QED BY <1>1, ProfileInvariant, PTL

\* Experience.find finds what the row of a registered broker names, with any number of
\* tabs, submissions sent twice, deletions and killed workers.
THEOREM ProfileAlwaysRenders == Spec => []ProfileRenders
<1>1. ProfileInv => ProfileRenders
  BY DEF ProfileInv, CurrentThere, ProfileRenders, named
<1> QED BY <1>1, ProfileInvariant, PTL

\* After a request served alone and to its end the profile names one post
\* (BrokersController#update, Experience#update_broker_info).
THEOREM PostsAgree == Spec => []PostAgrees
<1>1. ProfileInv => PostAgrees
  <2> SUFFICES ASSUME ProfileInv, \A t \in Tabs : Idle(t), is_current(named)
               PROVE  /\ settled # "no" => experiences[named].post = row.post
                      /\ settled = "all" => experiences[named].place = row.place
    BY DEF PostAgrees, named
  <2>1. Agree
    BY DEF ProfileInv, Settled, Dirty
  <2> QED BY <2>1 DEF Agree
<1> QED BY <1>1, ProfileInvariant, PTL
=============================================================================
