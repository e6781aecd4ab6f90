--------------------- MODULE BrokerRegistration_proofs ----------------------
(***************************************************************************)
(* Proofs about BrokerRegistration, for any licence types, addresses,      *)
(* workers and bounds.                                                     *)
(***************************************************************************)
EXTENDS BrokerRegistration, FiniteSetTheorems, TLAPS

-----------------------------------------------------------------------------
(***************************************************************************)
(* Types                                                                   *)
(***************************************************************************)

\* What `update' saves of a well-typed row is well typed and, but for the selection,
\* the same.
LEMMA SavedType ==
    ASSUME NEW b \in Rows
    PROVE  /\ Saved(b) \in Rows
           /\ Saved(b).step = b.step /\ Saved(b).uid = b.uid
           /\ Saved(b).email = b.email /\ Saved(b).email_authen = b.email_authen
           /\ Saved(b).token = b.token /\ Saved(b).id_image = b.id_image
           /\ Saved(b).password = b.password
           /\ Saved(b).check_term_of_use = b.check_term_of_use
           /\ Saved(b).setup_completed = b.setup_completed
           /\ broker.step # license_3 => Saved(b) = b
<1>1. ASSUME b.license_type # NilSelection
      PROVE  b.license_type \ {Blank} \in Selections
  BY <1>1 DEF Rows, Selections
<1> QED BY <1>1 DEF Saved, Rows

\* The steps of Broker#steps.
LEMMA StepNames ==
    /\ basic_info_1 \in steps /\ id_2 \in steps /\ license_3 \in steps
    /\ license_info_4 \in steps /\ vehicle_5 \in steps /\ statement_6 \in steps
    /\ financial_story_7 \in steps /\ term_of_use_8 \in steps
BY DEF steps, basic_info_1, id_2, license_3, license_info_4, vehicle_5, statement_6,
       financial_story_7, term_of_use_8

\* Moving on stays within the steps.
LEMMA StepType ==
    ASSUME NEW s \in steps
    PROVE  next_step(s) \in steps /\ prev_step(s) \in steps
BY DEF steps, next_step, prev_step, basic_info_1, term_of_use_8

\* A save writes a well-typed row; of a row nobody else wrote, the worker's.
LEMMA WrittenType ==
    ASSUME broker \in Rows, NEW old \in Rows, NEW new \in Rows
    PROVE  /\ Written(old, new) \in Rows
           /\ old = broker => Written(old, new) = new
BY DEF Rows, Written

\* Showing a page keeps the browser's state well typed.
LEMMA ShowsType ==
    ASSUME TypeOK, NEW p \in {NoPage, Profile} \union steps, Shows(p)
    PROVE  /\ page' \in {NoPage, Profile} \union steps
           /\ held' \in SUBSET steps
           /\ offered' \in SUBSET LicenseTypes
BY DEF TypeOK, Shows

\* Stale requests and undo operations stay within their bounds.
LEMMA BoundsType ==
    ASSUME TypeOK
    PROVE  /\ \A p : Sends(p) => stale' \in 0..MaxStale
           /\ Asks => stale' \in 0..MaxStale
           /\ Undoes => undo' \in 0..MaxUndo
<1>1. MaxUndo \in Nat /\ MaxStale \in Nat
  BY ConstantsAssumption
<1>2. undo \in 0..MaxUndo /\ stale \in 0..MaxStale
  BY DEF TypeOK
<1>3. Stale => stale' \in 0..MaxStale
  BY <1>1, <1>2 DEF Stale
<1>4. Undoes => undo' \in 0..MaxUndo
  BY <1>1, <1>2 DEF Undoes
<1> QED BY <1>2, <1>3, <1>4 DEF Sends, Asks

\* Destroying licences keeps the licences and their requests within bounds.
LEMMA SyncType ==
    ASSUME TypeOK
    PROVE  /\ \A types : Withdrawn(types) \in [account : 0..MaxSubmit,
                                              license : [LicenseTypes -> 0..MaxSubmit]]
           /\ SyncLicenses => /\ licenses' \in SUBSET LicenseTypes
                              /\ requests' \in [account : 0..MaxSubmit,
                                                license : [LicenseTypes -> 0..MaxSubmit]]
<1>0. MaxSubmit \in Nat
  BY ConstantsAssumption
<1>1. ASSUME NEW types
      PROVE  Withdrawn(types) \in [account : 0..MaxSubmit,
                                   license : [LicenseTypes -> 0..MaxSubmit]]
  <2>1. ASSUME NEW t \in LicenseTypes
        PROVE  (IF t \in types /\ requests.license[t] > 0
                THEN requests.license[t] - 1 ELSE requests.license[t]) \in 0..MaxSubmit
    <3>1. requests.license[t] \in 0..MaxSubmit
      BY DEF TypeOK
    <3> QED BY <1>0, <3>1
  <2> QED BY <2>1 DEF Withdrawn, TypeOK
<1> QED BY <1>1 DEF SyncLicenses, add_or_remove_license, TypeOK

\* A rejected form leaves everything but the browser and the licences alone.
LEMMA RejectsType ==
    ASSUME TypeOK, NEW p, Rejects(p), stale' \in 0..MaxStale
    PROVE  TypeOK'
<1>1. broker.step \in steps
  BY DEF TypeOK, Rows
<1>2. PICK q \in {NoPage} \union steps : Shows(q)
  BY <1>1 DEF Rejects
<1>3. /\ licenses' \in SUBSET LicenseTypes
      /\ requests' \in [account : 0..MaxSubmit, license : [LicenseTypes -> 0..MaxSubmit]]
  BY SyncType DEF Rejects, TypeOK
<1> QED BY <1>2, <1>3, ShowsType DEF Rejects, TypeOK

\* The row with the fields of page 1 is well typed, and differs only in those.
LEMMA BasicInfoType ==
    ASSUME TypeOK, NEW email \in Addresses, NEW info \in BOOLEAN, NEW password \in Typed
    PROVE  LET b == BasicInfo(email, info, password)
           IN  /\ b \in Rows /\ b.step = broker.step /\ b.uid = broker.uid
               /\ b.email = email /\ b.info = info
               /\ b.email_authen = broker.email_authen /\ b.token = broker.token
               /\ b.id_image = broker.id_image
               /\ b.setup_completed = broker.setup_completed
               /\ b.password = IF broker.uid THEN password ELSE broker.password
<1>1. (IF broker.uid THEN password ELSE broker.password) \in Passwords
  BY DEF TypeOK, Rows, Passwords, Typed
<1> QED BY <1>1 DEF BasicInfo, TypeOK, Rows

-----------------------------------------------------------------------------
(***************************************************************************)
(* What a worker begins                                                    *)
(***************************************************************************)

\* What all accepted requests from page p have in common: b is about to be written.
Accepted(p, b, at) ==
    /\ b \in Rows /\ at \in Forms
    /\ b.uid = broker.uid /\ b.token = broker.token
    /\ b.setup_completed = broker.setup_completed
    /\ confirmed \subseteq confirmed' /\ confirmed' \in SUBSET Emails
    /\ undo' \in 0..MaxUndo
    /\ undo' = undo => b.step = broker.step /\ (broker.id_image => b.id_image)
    /\ at = "next" => /\ b.id_image = broker.id_image
                      /\ broker.step = id_2 => b.id_image
    /\ at = "submit" => p = term_of_use_8

\* An accepted form of `update'.
LEMMA UpdateShape ==
    ASSUME TypeOK, NEW w \in Workers, NEW p \in steps, NEW b \in Rows, NEW at \in Forms,
           NEW valid, Update(w, p, b, at, valid),
           b.step = broker.step, b.uid = broker.uid, b.token = broker.token,
           b.setup_completed = broker.setup_completed, broker.id_image => b.id_image,
           at = "next" => b.id_image = broker.id_image,
           at = "next" /\ valid /\ broker.step = id_2 => b.id_image,
           at = "submit" => p = term_of_use_8
    PROVE  /\ job[w] = Idle /\ Sends(p)
           /\ \/ Rejects(p)
              \/ Begins(w, Saved(b), at) /\ Accepted(p, Saved(b), at)
<1>1. CASE Rejects(p)
  BY <1>1 DEF Update
<1>2. CASE ~Rejects(p)
  <2>1. valid /\ Begins(w, Saved(b), at) /\ UNCHANGED <<confirmed, undo>>
    BY <1>2 DEF Update
  <2>2. Accepted(p, Saved(b), at)
    BY <2>1, SavedType DEF Accepted, TypeOK
  <2> QED BY <2>1, <2>2 DEF Update
<1> QED BY <1>1, <1>2

\* A step that is valid with the row at the page of the ID has one.
LEMMA ValidId ==
    ASSUME NEW b, NEW button, StepValid(b, button), broker.step = id_2
    PROVE  b.id_image
BY DEF StepValid, basic_info_1, id_2, license_3, license_info_4, vehicle_5, term_of_use_8

\* A request is sent from a page, and either rejected or accepted.
LEMMA ReceiveShape ==
    ASSUME TypeOK, NEW w \in Workers, Receive(w)
    PROVE  /\ job[w] = Idle
           /\ \E p \in steps :
                /\ Sends(p)
                /\ \/ Rejects(p)
                   \/ \E b, at : Begins(w, b, at) /\ Accepted(p, b, at)
<1> USE StepNames
<1> DEFINE Goal == /\ job[w] = Idle
                   /\ \E p \in steps :
                        /\ Sends(p)
                        /\ \/ Rejects(p)
                           \/ \E b, at : Begins(w, b, at) /\ Accepted(p, b, at)
<1>0. /\ broker \in Rows /\ confirmed \in SUBSET Emails /\ undo \in 0..MaxUndo
      /\ "next" \in Forms /\ "save" \in Forms /\ "submit" \in Forms
      /\ "send_validation" \in Forms
  BY DEF TypeOK, Forms
<1>a. Undoes => undo' # undo
  <2>1. MaxUndo \in Nat
    BY ConstantsAssumption
  <2>2. undo \in Nat
    <3>1. undo \in 0..MaxUndo
      BY DEF TypeOK
    <3> QED BY <2>1, <3>1
  <2> QED BY <2>2 DEF Undoes
<1>b. ASSUME NEW p \in steps, NEW b \in Rows, NEW ok,
             UpdateNext(w, p, b, ok), b.step = broker.step, b.uid = broker.uid,
             b.token = broker.token, b.setup_completed = broker.setup_completed,
             b.id_image = broker.id_image
      PROVE  Goal
  <2> DEFINE valid == ok /\ StepValid(b, "next")
  <2>1. Update(w, p, b, "next", valid)
    BY <1>b DEF UpdateNext
  <2>2. valid /\ broker.step = id_2 => b.id_image
    BY ValidId
  <2> HIDE DEF valid
  <2> QED BY <1>0, <1>b, <2>1, <2>2, UpdateShape
<1>1. ASSUME NEW p \in steps, Back(w, p)
      PROVE  Goal
  <2> DEFINE b == [broker EXCEPT !.step = prev_step(broker.step)]
  <2>1. /\ b \in Rows /\ b.uid = broker.uid /\ b.token = broker.token
        /\ b.setup_completed = broker.setup_completed
    BY <1>0, StepType DEF Rows
  <2>2. Begins(w, b, "save") /\ Undoes /\ UNCHANGED confirmed /\ Sends(p) /\ job[w] = Idle
    BY <1>1 DEF Back
  <2>3. undo' \in 0..MaxUndo
    BY <2>2, BoundsType
  <2> HIDE DEF b
  <2>4. Accepted(p, b, "save")
    BY <1>0, <1>a, <2>1, <2>2, <2>3 DEF Accepted
  <2> QED BY <2>2, <2>4
<1>2. CASE NextButton(w)
  <2>1. ASSUME NEW email \in Addresses, NEW info \in BOOLEAN, NEW password \in Typed,
               NextFromBasicInfo(w, email, info, password)
        PROVE  Goal
    <3> DEFINE b == BasicInfo(email, info, password)
               ok == password_signup => password = "chosen"
    <3>1. UpdateNext(w, basic_info_1, b, ok)
      BY <2>1 DEF NextFromBasicInfo
    <3>2. /\ b \in Rows /\ b.step = broker.step /\ b.uid = broker.uid
          /\ b.token = broker.token /\ b.setup_completed = broker.setup_completed
          /\ b.id_image = broker.id_image
      BY BasicInfoType
    <3> HIDE DEF b, ok
    <3> QED BY <1>b, <3>1, <3>2
  <2>2. CASE NextFromId(w)
    BY <1>0, <1>b, <2>2 DEF NextFromId
  <2>3. ASSUME NEW types \in SUBSET LicenseTypes, NextFromLicense(w, types)
        PROVE  Goal
    <3> DEFINE b == [broker EXCEPT !.license_type = types \union {Blank}]
    <3>1. UpdateNext(w, license_3, b, TRUE)
      BY <2>3 DEF NextFromLicense
    <3>2. types \union {Blank} \in Selections
      BY DEF Selections
    <3>3. /\ b \in Rows /\ b.step = broker.step /\ b.uid = broker.uid
          /\ b.token = broker.token /\ b.setup_completed = broker.setup_completed
          /\ b.id_image = broker.id_image
      BY <1>0, <3>2 DEF Rows
    <3> HIDE DEF b
    <3> QED BY <1>b, <3>1, <3>3
  <2>4. CASE NextFromLicenseInfo(w)
    BY <1>0, <1>b, <2>4 DEF NextFromLicenseInfo
  <2>5. ASSUME NEW some \in BOOLEAN, NextFromVehicle(w, some)
        PROVE  Goal
    <3> DEFINE b == [broker EXCEPT !.products = some]
    <3>1. UpdateNext(w, vehicle_5, b, TRUE)
      BY <2>5 DEF NextFromVehicle
    <3>2. /\ b \in Rows /\ b.step = broker.step /\ b.uid = broker.uid
          /\ b.token = broker.token /\ b.setup_completed = broker.setup_completed
          /\ b.id_image = broker.id_image
      BY <1>0 DEF Rows
    <3> HIDE DEF b
    <3> QED BY <1>b, <3>1, <3>2
  <2>6. ASSUME NEW short \in BOOLEAN, NextFromStatement(w, short)
        PROVE  Goal
    BY <1>0, <1>b, <2>6 DEF NextFromStatement
  <2>7. ASSUME NEW filled \in BOOLEAN, NextFromStory(w, filled)
        PROVE  Goal
    <3> DEFINE b == [broker EXCEPT !.story = TRUE]
    <3>1. UpdateNext(w, financial_story_7, b, filled)
      BY <2>7 DEF NextFromStory
    <3>2. /\ b \in Rows /\ b.step = broker.step /\ b.uid = broker.uid
          /\ b.token = broker.token /\ b.setup_completed = broker.setup_completed
          /\ b.id_image = broker.id_image
      BY <1>0 DEF Rows
    <3> HIDE DEF b
    <3> QED BY <1>b, <3>1, <3>2
  <2> QED BY <1>2, <2>1, <2>2, <2>3, <2>4, <2>5, <2>6, <2>7 DEF NextButton
<1>3. ASSUME NEW file \in BOOLEAN, UploadId(w, file)
      PROVE  Goal
  <2> DEFINE b == [broker EXCEPT !.id_image = broker.id_image \/ file]
             valid == StepValid(b, "upload_id")
  <2>1. Update(w, id_2, b, "save", valid)
    BY <1>3 DEF UploadId
  <2>2. /\ b \in Rows /\ b.step = broker.step /\ b.uid = broker.uid
        /\ b.token = broker.token /\ b.setup_completed = broker.setup_completed
        /\ broker.id_image => b.id_image
    BY <1>0 DEF Rows
  <2> HIDE DEF b, valid
  <2> QED BY <1>0, <2>1, <2>2, UpdateShape
<1>4. CASE RemoveId(w)
  <2> DEFINE b == [broker EXCEPT !.id_image = FALSE]
  <2>1. /\ b \in Rows /\ b.uid = broker.uid /\ b.token = broker.token
        /\ b.setup_completed = broker.setup_completed
    BY <1>0 DEF Rows
  <2>2. Begins(w, b, "save") /\ Undoes /\ UNCHANGED confirmed /\ Sends(id_2) /\ job[w] = Idle
    BY <1>4 DEF RemoveId
  <2>3. undo' \in 0..MaxUndo
    BY <2>2, BoundsType
  <2> HIDE DEF b
  <2>4. Accepted(id_2, b, "save")
    BY <1>0, <1>a, <2>1, <2>2, <2>3 DEF Accepted
  <2> QED BY <2>2, <2>4
<1>5. ASSUME NEW email \in Addresses, NEW info \in BOOLEAN, NEW password \in Typed,
             SendValidation(w, email, info, password)
      PROVE  Goal
  <2> DEFINE form == BasicInfo(email, info, password)
             b == Saved(form)
             at == IF evaluate_and_reset_email_authen(b) THEN "send_validation" ELSE "save"
  <2>1. job[w] = Idle /\ Sends(basic_info_1)
    BY <1>5 DEF SendValidation
  <2>2. CASE Rejects(basic_info_1)
    BY <2>1, <2>2
  <2>3. CASE ~Rejects(basic_info_1)
    <3>1. Begins(w, b, at) /\ UNCHANGED confirmed /\ (Undoes \/ UNCHANGED undo)
      BY <1>5, <2>3 DEF SendValidation
    <3>2. at \in Forms /\ at # "next" /\ at # "submit"
      BY <1>0
    <3>3. /\ b \in Rows /\ b.step = broker.step /\ b.uid = broker.uid
          /\ b.token = broker.token /\ b.setup_completed = broker.setup_completed
          /\ b.id_image = broker.id_image
      BY BasicInfoType, SavedType
    <3>4. undo' \in 0..MaxUndo
      BY <1>0, <3>1, BoundsType
    <3> HIDE DEF b, at
    <3>5. Accepted(basic_info_1, b, at)
      BY <1>0, <3>1, <3>2, <3>3, <3>4 DEF Accepted
    <3> QED BY <2>1, <3>1, <3>5
  <2> QED BY <2>2, <2>3
<1>6. ASSUME NEW right \in BOOLEAN, ValidateEmail(w, right)
      PROVE  Goal
  <2> DEFINE b == [broker EXCEPT !.email_authen = TRUE]
  <2>1. job[w] = Idle /\ Sends(basic_info_1)
    BY <1>6 DEF ValidateEmail
  <2>2. CASE Rejects(basic_info_1)
    BY <2>1, <2>2
  <2>3. CASE ~Rejects(basic_info_1)
    <3>1. /\ Begins(w, b, "save") /\ confirmed' = confirmed \union {broker.token}
          /\ broker.token # NoEmail /\ UNCHANGED undo
      BY <1>6, <2>3 DEF ValidateEmail
    <3>2. /\ b \in Rows /\ b.step = broker.step /\ b.uid = broker.uid
          /\ b.token = broker.token /\ b.setup_completed = broker.setup_completed
          /\ b.id_image = broker.id_image
      BY <1>0 DEF Rows
    <3>3. broker.token \in Emails
      BY <1>0, <3>1 DEF Rows, Addresses
    <3> HIDE DEF b
    <3>4. Accepted(basic_info_1, b, "save")
      BY <1>0, <3>1, <3>2, <3>3 DEF Accepted
    <3> QED BY <2>1, <3>1, <3>4
  <2> QED BY <2>2, <2>3
<1>7. ASSUME NEW agreed \in BOOLEAN, Submit(w, agreed)
      PROVE  Goal
  <2> DEFINE b == [broker EXCEPT !.check_term_of_use = agreed]
             valid == StepValid(b, "submit")
  <2>1. Update(w, term_of_use_8, b, "submit", valid)
    BY <1>7 DEF Submit
  <2>2. /\ b \in Rows /\ b.step = broker.step /\ b.uid = broker.uid
        /\ b.token = broker.token /\ b.setup_completed = broker.setup_completed
        /\ b.id_image = broker.id_image
    BY <1>0 DEF Rows
  <2> HIDE DEF b, valid
  <2> QED BY <1>0, <2>1, <2>2, UpdateShape
<1> QED BY <1>1, <1>2, <1>3, <1>4, <1>5, <1>6, <1>7 DEF Receive

-----------------------------------------------------------------------------
(***************************************************************************)
(* What a worker writes                                                    *)
(***************************************************************************)

\* A worker that is not idle has a job of the type it should have.
LEMMA JobType ==
    ASSUME TypeOK, NEW w \in Workers
    PROVE  /\ job[w] # Idle => /\ job[w] \in Jobs /\ job[w].at # "none"
                              /\ job[w].loaded \in Rows /\ job[w].row \in Rows
                              /\ job[w].left \in SUBSET LicenseTypes
           /\ job[w].at # "none" => job[w] # Idle
<1>1. job[w] \in {Idle} \union Jobs
  BY DEF TypeOK
<1> QED BY <1>1 DEF Jobs, Idle, Forms

\* A request that is accepted makes a job of the right type.
LEMMA BeginsType ==
    ASSUME TypeOK, NEW w \in Workers, NEW p \in steps, NEW b, NEW at,
           Begins(w, b, at), Accepted(p, b, at), stale' \in 0..MaxStale
    PROVE  TypeOK'
<1>1. [at |-> at, loaded |-> broker, row |-> b, left |-> {}] \in Jobs
  BY DEF Accepted, Jobs, TypeOK
<1>2. job' \in [Workers -> {Idle} \union Jobs]
  BY <1>1 DEF Begins, TypeOK
<1> QED BY <1>2, ShowsType DEF Begins, Accepted, TypeOK

\* A commit writes a row of the right type and leaves a job of the right type.
LEMMA SavesType ==
    ASSUME TypeOK, NEW w \in Workers, job[w].at # "none", NEW row \in Rows, Saves(w, row)
    PROVE  TypeOK'
<1>1. job[w] \in Jobs /\ job[w].loaded \in Rows
  BY JobType
<1>2. broker' \in Rows
  BY <1>1, WrittenType DEF Saves, TypeOK
<1>3. following(job[w].at) = "none" \/
        [job[w] EXCEPT !.at = following(job[w].at), !.loaded = row, !.row = row] \in Jobs
  BY <1>1 DEF following, Jobs
<1>4. job' \in [Workers -> {Idle} \union Jobs]
  BY <1>3 DEF Saves, TypeOK
<1> QED BY <1>2, <1>4 DEF Saves, TypeOK

\* What the commits write in the worker's memory is a row.
LEMMA StageRows ==
    ASSUME NEW row \in Rows
    PROVE  /\ [row EXCEPT !.step = next_step(row.step)] \in Rows
           /\ [row EXCEPT !.current_experience = TRUE] \in Rows
           /\ [row EXCEPT !.setup_completed = TRUE] \in Rows
           /\ [row EXCEPT !.email_authen = FALSE] \in Rows
BY StepType DEF Rows

\* Every commit, and the end of a worker, keeps the types.
LEMMA ServeType ==
    ASSUME TypeOK, NEW w \in Workers, Serve(w) \/ Killed(w)
    PROVE  TypeOK'
<1>0. MaxSubmit \in Nat
  BY ConstantsAssumption
<1>a. ASSUME NEW types \in SUBSET LicenseTypes, job[w].at # "none", StillToFile(w, types),
             requests' \in [account : 0..MaxSubmit, license : [LicenseTypes -> 0..MaxSubmit]]
      PROVE  TypeOK'
  <2>1. [job[w] EXCEPT !.at = "licenses", !.left = types] \in Jobs
    <3>1. job[w] \in Jobs
      BY <1>a, JobType
    <3> QED BY <3>1 DEF Jobs
  <2>2. job' \in [Workers -> {Idle} \union Jobs]
    BY <1>a, <2>1 DEF StillToFile, TypeOK
  <2> QED BY <1>a, <2>2 DEF StillToFile, TypeOK
<1>1. CASE SaveForm(w)
  BY <1>1, JobType, SavesType DEF SaveForm, Forms
<1>2. CASE SaveStep(w)
  BY <1>2, JobType, SavesType, StageRows DEF SaveStep
<1>3. CASE SendCode(w)
  <2>1. job[w].row \in Rows
    BY <1>3, JobType DEF SendCode
  <2>2. Written(job[w].row, [job[w].row EXCEPT !.email_authen = FALSE]) \in Rows
    BY <2>1, StageRows, WrittenType DEF TypeOK
  <2>3. broker' \in Rows
    <3>1. job[w].row.email \in Addresses
      BY <2>1 DEF Rows
    <3> QED BY <1>3, <2>2, <3>1 DEF SendCode, Rows, TypeOK
  <2>4. job' \in [Workers -> {Idle} \union Jobs]
    BY <1>3 DEF SendCode, TypeOK
  <2> QED BY <1>3, <2>3, <2>4 DEF SendCode, TypeOK
<1>4. CASE PlaceExperience(w)
  BY <1>4, JobType, SavesType, StageRows DEF PlaceExperience
<1>5. CASE Complete(w)
  BY <1>5, JobType, SavesType, StageRows DEF Complete
<1>6. CASE FileAccount(w)
  <2>1. requests.account \in 0..MaxSubmit /\ requests.account < MaxSubmit
    BY <1>6 DEF FileAccount, TypeOK
  <2>2. requests.account + 1 \in 0..MaxSubmit
    BY <1>0, <2>1
  <2>3. requests' \in [account : 0..MaxSubmit, license : [LicenseTypes -> 0..MaxSubmit]]
    BY <1>6, <2>2 DEF FileAccount, TypeOK
  <2> QED BY <1>6, <1>a, <2>3 DEF FileAccount, TypeOK
<1>7. ASSUME NEW t \in LicenseTypes, FileLicense(w, t)
      PROVE  TypeOK'
  <2>1. requests.license[t] \in 0..MaxSubmit /\ requests.license[t] < MaxSubmit
    BY <1>7 DEF FileLicense, TypeOK
  <2>2. requests.license[t] + 1 \in 0..MaxSubmit
    BY <1>0, <2>1
  <2>3. requests' \in [account : 0..MaxSubmit, license : [LicenseTypes -> 0..MaxSubmit]]
    BY <1>7, <2>2 DEF FileLicense, TypeOK
  <2>4. job[w].at # "none" /\ job[w].left \ {t} \in SUBSET LicenseTypes
    BY <1>7, JobType DEF FileLicense
  <2> QED BY <1>7, <1>a, <2>3, <2>4 DEF FileLicense
<1>8. CASE Killed(w)
  BY <1>8 DEF Killed, TypeOK
<1> QED BY <1>1, <1>2, <1>3, <1>4, <1>5, <1>6, <1>7, <1>8 DEF Serve

\* Every handler and every commit keeps the database and the browser well typed.
LEMMA TypeStep == TypeOK /\ [Next]_vars => TypeOK'
<1> SUFFICES ASSUME TypeOK, [Next]_vars
             PROVE  TypeOK'
  OBVIOUS
<1> USE StepNames
<1>1. CASE Edit
  <2>1. broker.step \in steps
    BY DEF Rows, TypeOK
  <2>2. PICK q \in {NoPage, Profile} \union steps : Shows(q)
    BY <1>1, <2>1 DEF Edit
  <2>3. /\ licenses' \in SUBSET LicenseTypes
        /\ requests' \in [account : 0..MaxSubmit, license : [LicenseTypes -> 0..MaxSubmit]]
    BY <1>1, SyncType DEF Edit, TypeOK
  <2>4. stale' \in 0..MaxStale
    BY <1>1, BoundsType DEF Edit
  <2> QED BY <1>1, <2>2, <2>3, <2>4, ShowsType DEF Edit, TypeOK
<1>2. ASSUME NEW t \in LicenseTypes, NEW ok \in BOOLEAN, UploadLicense(t, ok)
      PROVE  TypeOK'
  <2>0. stale' \in 0..MaxStale
    BY <1>2, BoundsType DEF UploadLicense
  <2>1. CASE Rejects(license_info_4)
    BY <2>0, <2>1, RejectsType
  <2>2. CASE ~Rejects(license_info_4)
    <3>1. CASE SyncLicenses
      BY <1>2, <2>0, <2>2, <3>1, ShowsType, SyncType DEF UploadLicense, TypeOK
    <3>2. CASE ~SyncLicenses
      BY <1>2, <2>0, <2>2, <3>2, ShowsType DEF UploadLicense, TypeOK
    <3> QED BY <3>1, <3>2
  <2> QED BY <2>1, <2>2
<1>3. ASSUME NEW t \in LicenseTypes, RemoveLicense(t)
      PROVE  TypeOK'
  <2>1. requests' \in [account : 0..MaxSubmit, license : [LicenseTypes -> 0..MaxSubmit]]
    BY <1>3, SyncType DEF RemoveLicense
  <2>2. stale' \in 0..MaxStale /\ undo' \in 0..MaxUndo
    BY <1>3, BoundsType DEF RemoveLicense
  <2> QED BY <1>3, <2>1, <2>2, ShowsType DEF RemoveLicense, TypeOK
<1>4. ASSUME NEW w \in Workers, Receive(w)
      PROVE  TypeOK'
  <2>1. PICK p \in steps : /\ Sends(p)
                           /\ \/ Rejects(p)
                              \/ \E b, at : Begins(w, b, at) /\ Accepted(p, b, at)
    BY <1>4, ReceiveShape
  <2>2. stale' \in 0..MaxStale
    BY <2>1, BoundsType
  <2> QED BY <2>1, <2>2, RejectsType, BeginsType
<1>5. ASSUME NEW w \in Workers, Serve(w) \/ Killed(w)
      PROVE  TypeOK'
  BY <1>5, ServeType
<1>6. CASE UNCHANGED vars
  BY <1>6 DEF vars, TypeOK
<1> QED BY <1>1, <1>2, <1>3, <1>4, <1>5, <1>6 DEF Next

\* A new broker is well typed.
LEMMA InitType == Init => TypeOK
<1> SUFFICES ASSUME Init PROVE TypeOK
  OBVIOUS
<1>0. MaxSubmit \in Nat /\ MaxUndo \in Nat /\ MaxStale \in Nat
  BY ConstantsAssumption
<1>1. broker \in Rows
  <2>1. PICK uid \in BOOLEAN, e \in Addresses, authen \in BOOLEAN :
          broker = NewBroker(uid, e, authen)
    BY DEF Init, Addresses
  <2>2. NilSelection \in Selections /\ NoEmail \in Addresses
    BY DEF Selections, Addresses
  <2>3. (IF uid THEN "none" ELSE "chosen") \in Passwords
    BY DEF Passwords
  <2> QED BY <2>1, <2>2, <2>3, StepNames DEF NewBroker, Rows
<1>2. requests \in [account : 0..MaxSubmit, license : [LicenseTypes -> 0..MaxSubmit]]
  BY <1>0 DEF Init
<1>3. confirmed \in SUBSET Emails /\ undo \in 0..MaxUndo /\ stale \in 0..MaxStale
  <2>1. /\ broker.email \in Addresses /\ confirmed = {broker.email} \ {NoEmail}
        /\ undo = 0 /\ stale = 0
    BY <1>1 DEF Init, Rows
  <2> QED BY <1>0, <2>1 DEF Addresses
<1> QED BY <1>1, <1>2, <1>3 DEF Init, TypeOK

\* The state of the wizard is well typed, with stale forms and faults or without.
THEOREM TypeCorrect == Spec => []TypeOK
BY InitType, TypeStep, PTL DEF Spec

-----------------------------------------------------------------------------
(***************************************************************************)
(* A broker who uses the page he is shown and waits for its answer         *)
(***************************************************************************)

\* DoneBefore, page by page.
DoneSoFar(b) ==
    /\ b.step > 1 => b.email # NoEmail /\ b.email_authen /\ b.info /\ b.password # "none"
    /\ b.step > 2 => b.id_image
    /\ b.step > 3 => b.license_type \in (SUBSET LicenseTypes) \ {{}}
    /\ b.step > 4 => licenses = b.license_type
    /\ b.step > 5 => b.products
    /\ b.step > 7 => b.story

\* The pages, one by one.
LEMMA DonePages ==
    ASSUME NEW b
    PROVE  /\ Done(b, 1) <=> /\ b.email # NoEmail /\ b.email_authen
                             /\ b.info /\ b.password # "none"
           /\ Done(b, 2) <=> b.id_image
           /\ Done(b, 3) <=> b.license_type \in (SUBSET LicenseTypes) \ {{}}
           /\ Done(b, 4) <=> licenses = b.license_type
           /\ Done(b, 5) <=> b.products
           /\ Done(b, 6)
           /\ Done(b, 7) <=> b.story
           /\ Done(b, 8) <=> b.check_term_of_use
BY DEF Done, basic_info_1, id_2, license_3, license_info_4, vehicle_5,
       statement_6, financial_story_7, term_of_use_8

\* The two ways of writing it agree.
LEMMA DoneSame ==
    ASSUME NEW b \in Rows
    PROVE  DoneSoFar(b) <=> DoneBefore(b)
<1>0. b.step \in 1..8 /\ steps = 1..8
  BY DEF Rows, steps, basic_info_1, term_of_use_8
<1>1. DoneBefore(b) <=>
        /\ 1 < b.step => Done(b, 1)
        /\ 2 < b.step => Done(b, 2)
        /\ 3 < b.step => Done(b, 3)
        /\ 4 < b.step => Done(b, 4)
        /\ 5 < b.step => Done(b, 5)
        /\ 6 < b.step => Done(b, 6)
        /\ 7 < b.step => Done(b, 7)
        /\ 8 < b.step => Done(b, 8)
  BY <1>0 DEF DoneBefore
<1> QED BY <1>0, <1>1, DonePages DEF DoneSoFar

\* A row whose step is done may go to the next one.
LEMMA NextDone ==
    ASSUME NEW b \in Rows, DoneSoFar(b), Done(b, b.step)
    PROVE  DoneSoFar([b EXCEPT !.step = next_step(b.step)])
<1> DEFINE c == [b EXCEPT !.step = next_step(b.step)]
<1>0. b.step \in 1..8
  BY DEF Rows, steps, basic_info_1, term_of_use_8
<1>1. c.step = IF b.step = 8 THEN 8 ELSE b.step + 1
  BY DEF Rows, next_step, term_of_use_8
<1>2. /\ c.email = b.email /\ c.email_authen = b.email_authen /\ c.info = b.info
      /\ c.password = b.password /\ c.id_image = b.id_image
      /\ c.license_type = b.license_type /\ c.products = b.products /\ c.story = b.story
  BY DEF Rows
<1> HIDE DEF c
<1>3. DoneSoFar(c)
  <2>1. CASE b.step = 1
    BY <1>1, <1>2, <2>1, DonePages DEF DoneSoFar
  <2>2. CASE b.step = 2
    BY <1>1, <1>2, <2>2, DonePages DEF DoneSoFar
  <2>3. CASE b.step = 3
    BY <1>1, <1>2, <2>3, DonePages DEF DoneSoFar
  <2>4. CASE b.step = 4
    BY <1>1, <1>2, <2>4, DonePages DEF DoneSoFar
  <2>5. CASE b.step = 5
    BY <1>1, <1>2, <2>5, DonePages DEF DoneSoFar
  <2>6. CASE b.step = 6
    BY <1>1, <1>2, <2>6, DonePages DEF DoneSoFar
  <2>7. CASE b.step = 7
    BY <1>1, <1>2, <2>7, DonePages DEF DoneSoFar
  <2>8. CASE b.step = 8
    BY <1>1, <1>2, <2>8 DEF DoneSoFar
  <2> QED BY <1>0, <2>1, <2>2, <2>3, <2>4, <2>5, <2>6, <2>7, <2>8
<1> QED BY <1>3 DEF c

\* The page, the row and its selection while nothing is being served.
LEMMA FreshPage ==
    ASSUME TypeOK, FreshInv
    PROVE  /\ page \in 1..8 => page = broker.step /\ ~broker.setup_completed
           /\ page = 4 => licenses \union offered \subseteq broker.license_type
           /\ DoneSoFar(broker)
           /\ broker.password = "none" => broker.uid
           /\ broker.setup_completed => broker.step = 8 /\ broker.check_term_of_use
BY DoneSame DEF FreshInv, PagesBeforeStepDone, TypeOK, steps, basic_info_1,
                license_info_4, term_of_use_8

\* A form that is sent is that of the row's step, and no worker is busy.
LEMMA SentFromStep ==
    ASSUME MaxStale = 0, TypeOK, FreshInv, NEW p \in steps, Sends(p)
    PROVE  /\ page = p /\ broker.step = p /\ p \in 1..8 /\ ~broker.setup_completed
           /\ UNCHANGED stale
           /\ \A w \in Workers : job[w] = Idle
<1>1. stale = 0
  BY DEF TypeOK
<1>2. page = p /\ UNCHANGED stale
  BY <1>1 DEF Sends, Stale
<1>3. p \in 1..8 /\ p # NoPage
  BY DEF steps, basic_info_1, term_of_use_8, NoPage
<1>4. \A w \in Workers : job[w] = Idle
  BY <1>2, <1>3 DEF FreshInv, FreshJob
<1> QED BY <1>2, <1>3, <1>4, FreshPage

\* A page that is asked for is asked for when no worker is busy.
LEMMA AskedIdle ==
    ASSUME MaxStale = 0, TypeOK, Asks
    PROVE  (\A w \in Workers : job[w] = Idle) /\ UNCHANGED stale
<1>1. stale = 0
  BY DEF TypeOK
<1> QED BY <1>1 DEF Asks, Stale

\* What an accepted request is about to write.
FreshRow(b, at) ==
    /\ b \in Rows /\ at \in Forms
    /\ DoneSoFar(b)
    /\ b.password = "none" => b.uid
    /\ ~b.setup_completed
    /\ b.token = broker.token
    /\ at = "next" => Done(b, b.step)
    /\ at = "submit" => b.step = 8 /\ b.check_term_of_use
    /\ at = "send_validation" => b.step = 1 /\ b.email # NoEmail
    /\ at # "send_validation" =>
         /\ b.email = broker.email
         /\ b.email_authen => broker.email_authen \/ broker.token \in confirmed' \ {NoEmail}

\* An accepted form of `update', when what it leaves of the row is done so far.
LEMMA UpdateFresh ==
    ASSUME MaxStale = 0, TypeOK, FreshInv, NEW w \in Workers, NEW p \in steps,
           NEW b \in Rows, NEW at \in Forms, NEW valid, Update(w, p, b, at, valid),
           valid /\ broker.step = p /\ page = p /\ ~broker.setup_completed
             => FreshRow(Saved(b), at)
    PROVE  /\ Sends(p)
           /\ \/ Rejects(p)
              \/ /\ Begins(w, Saved(b), at) /\ FreshRow(Saved(b), at)
                 /\ UNCHANGED confirmed
<1>1. Sends(p)
  BY DEF Update
<1>2. page = p /\ broker.step = p /\ ~broker.setup_completed
  BY <1>1, SentFromStep
<1> QED BY <1>1, <1>2 DEF Update

\* A request comes from the page of the row's step, and is either rejected or accepted
\* with the pages before the step done.
LEMMA FreshShape ==
    ASSUME MaxStale = 0, TypeOK, FreshInv, NEW w \in Workers, Receive(w)
    PROVE  \E p \in steps :
             /\ Sends(p)
             /\ \/ Rejects(p)
                \/ \E b, at : /\ Begins(w, b, at) /\ FreshRow(b, at)
                              /\ confirmed' \in {confirmed, confirmed \union {broker.token}}
<1> USE StepNames
<1> USE DEF basic_info_1, id_2, license_3, license_info_4, vehicle_5,
            statement_6, financial_story_7, term_of_use_8
<1> DEFINE Goal(p) ==
             /\ Sends(p)
             /\ \/ Rejects(p)
                \/ \E b, at : /\ Begins(w, b, at) /\ FreshRow(b, at)
                              /\ confirmed' \in {confirmed, confirmed \union {broker.token}}
<1>0. /\ broker \in Rows /\ broker.step \in 1..8
      /\ "next" \in Forms /\ "save" \in Forms /\ "submit" \in Forms
      /\ "send_validation" \in Forms
  BY DEF TypeOK, Forms, Rows, steps
<1>f. /\ page = 4 => licenses \union offered \subseteq broker.license_type
      /\ DoneSoFar(broker)
      /\ broker.password = "none" => broker.uid
  BY FreshPage
<1>u. ASSUME NEW p \in steps, NEW b \in Rows, NEW ok, UpdateNext(w, p, b, ok),
             ok /\ StepValid(b, "next") /\ broker.step = p /\ page = p
               /\ ~broker.setup_completed => FreshRow(Saved(b), "next")
      PROVE  Goal(p)
  <2> DEFINE valid == ok /\ StepValid(b, "next")
  <2>1. Update(w, p, b, "next", valid)
    BY <1>u DEF UpdateNext
  <2>2. valid /\ broker.step = p /\ page = p /\ ~broker.setup_completed
          => FreshRow(Saved(b), "next")
    BY <1>u
  <2> HIDE DEF valid
  <2> QED BY <1>0, <2>1, <2>2, UpdateFresh
<1>1. ASSUME NEW p \in steps, Back(w, p)
      PROVE  Goal(p)
  <2> DEFINE b == [broker EXCEPT !.step = prev_step(broker.step)]
  <2>1. Begins(w, b, "save") /\ UNCHANGED confirmed /\ Sends(p) /\ p # 1
    BY <1>1 DEF Back
  <2>2. broker.step = p /\ ~broker.setup_completed
    BY <2>1, SentFromStep
  <2>3. b.step = p - 1 /\ p \in 2..8
    BY <1>0, <2>1, <2>2 DEF prev_step, Rows
  <2>4. b \in Rows
    BY <1>0, StepType DEF Rows
  <2>5. DoneSoFar(b)
    BY <1>0, <1>f, <2>2, <2>3 DEF DoneSoFar, Rows
  <2>6. FreshRow(b, "save")
    BY <1>0, <1>f, <2>2, <2>4, <2>5 DEF FreshRow, Rows
  <2> HIDE DEF b
  <2> QED BY <2>1, <2>6
<1>2. ASSUME NextButton(w)
      PROVE  \E p \in steps : Goal(p)
  <2>1. ASSUME NEW email \in Addresses, NEW info \in BOOLEAN, NEW password \in Typed,
               NextFromBasicInfo(w, email, info, password)
        PROVE  Goal(1)
    <3> DEFINE b == BasicInfo(email, info, password)
               ok == password_signup => password = "chosen"
    <3>1. UpdateNext(w, 1, b, ok)
      BY <2>1 DEF NextFromBasicInfo
    <3>2. /\ b \in Rows /\ b.step = broker.step /\ b.uid = broker.uid
          /\ b.email_authen = broker.email_authen /\ b.token = broker.token
          /\ b.setup_completed = broker.setup_completed
          /\ b.password = IF broker.uid THEN password ELSE broker.password
      BY BasicInfoType
    <3>3. ASSUME StepValid(b, "next"), broker.step = 1, ~broker.setup_completed
          PROVE  FreshRow(Saved(b), "next")
      <4>1. b.email # NoEmail /\ b.info /\ b.email_authen /\ b.email = broker.email
        BY <3>3 DEF StepValid
      <4>2. b.password # "none"
        BY <1>f, <3>2 DEF Typed
      <4>3. Saved(b) = b
        BY <3>3 DEF Saved
      <4>4. Done(b, b.step) /\ DoneSoFar(b)
        BY <3>2, <3>3, <4>1, <4>2, DonePages DEF DoneSoFar
      <4> QED BY <1>0, <3>2, <3>3, <4>1, <4>2, <4>3, <4>4 DEF FreshRow
    <3> HIDE DEF b, ok
    <3> QED BY <1>u, <3>1, <3>2, <3>3
  <2>2. ASSUME NextFromId(w)
        PROVE  Goal(2)
    <3>1. UpdateNext(w, 2, broker, TRUE)
      BY <2>2 DEF NextFromId
    <3>2. ASSUME StepValid(broker, "next"), broker.step = 2, ~broker.setup_completed
          PROVE  FreshRow(Saved(broker), "next")
      <4>1. Saved(broker) = broker /\ Done(broker, broker.step)
        BY <3>2, DonePages DEF Saved, StepValid
      <4> QED BY <1>0, <1>f, <3>2, <4>1 DEF FreshRow
    <3> QED BY <1>0, <1>u, <3>1, <3>2
  <2>3. ASSUME NEW types \in SUBSET LicenseTypes, NextFromLicense(w, types)
        PROVE  Goal(3)
    <3> DEFINE b == [broker EXCEPT !.license_type = types \union {Blank}]
               c == [broker EXCEPT !.license_type = types]
    <3>1. UpdateNext(w, 3, b, TRUE)
      BY <2>3 DEF NextFromLicense
    <3>2. b \in Rows /\ c \in Rows
      BY <1>0 DEF Rows, Selections
    <3>3. ASSUME StepValid(b, "next"), broker.step = 3, ~broker.setup_completed
          PROVE  FreshRow(Saved(b), "next")
      <4>1. b.license_type = types \union {Blank} /\ Blank \notin LicenseTypes /\ "nil" # Blank
        BY <1>0, ConstantsAssumption DEF Rows, Blank
      <4>2. b.license_type # NilSelection /\ b.license_type \ {Blank} = types
        BY <4>1 DEF NilSelection
      <4>3. types \in (SUBSET LicenseTypes) \ {{}}
        BY <3>3, <4>2 DEF StepValid, check_licensetype_not_empty
      <4>4. Saved(b) = [b EXCEPT !.license_type = types]
        BY <3>3, <4>2 DEF Saved
      <4>5. Saved(b) = c
        BY <1>0, <4>4 DEF Rows
      <4>6. /\ c.step = 3 /\ c.license_type = types
            /\ c.email = broker.email /\ c.email_authen = broker.email_authen
            /\ c.info = broker.info /\ c.password = broker.password
            /\ c.id_image = broker.id_image /\ c.uid = broker.uid
            /\ c.token = broker.token /\ ~c.setup_completed
        BY <1>0, <3>3 DEF Rows
      <4> HIDE DEF b, c
      <4>7. DoneSoFar(c) /\ Done(c, c.step)
        BY <1>f, <3>3, <4>3, <4>6, DonePages DEF DoneSoFar
      <4>8. FreshRow(c, "next")
        BY <1>0, <1>f, <3>2, <4>6, <4>7 DEF FreshRow
      <4> QED BY <4>5, <4>8
    <3> HIDE DEF b
    <3> QED BY <1>u, <3>1, <3>2, <3>3
  <2>4. ASSUME NextFromLicenseInfo(w)
        PROVE  Goal(4)
    <3>1. UpdateNext(w, 4, broker, TRUE)
      BY <2>4 DEF NextFromLicenseInfo
    <3>2. ASSUME StepValid(broker, "next"), broker.step = 4, page = 4, ~broker.setup_completed
          PROVE  FreshRow(Saved(broker), "next")
      <4>1. Saved(broker) = broker /\ Cardinality(licenses) = Cardinality(broker.license_type)
        BY <3>2 DEF Saved, StepValid, check_all_licenses_uploaded
      <4>2. licenses \subseteq broker.license_type /\ broker.license_type \subseteq LicenseTypes
        BY <1>f, <3>2 DEF DoneSoFar
      <4>3. IsFiniteSet(broker.license_type)
        BY <4>2, FS_Subset, ConstantsAssumption
      <4>4. licenses = broker.license_type
        BY <4>1, <4>2, <4>3, FS_Subset
      <4>5. Done(broker, broker.step)
        BY <3>2, <4>4, DonePages
      <4> QED BY <1>0, <1>f, <3>2, <4>1, <4>5 DEF FreshRow
    <3> QED BY <1>0, <1>u, <3>1, <3>2
  <2>5. ASSUME NEW some \in BOOLEAN, NextFromVehicle(w, some)
        PROVE  Goal(5)
    <3> DEFINE b == [broker EXCEPT !.products = some]
    <3>1. UpdateNext(w, 5, b, TRUE)
      BY <2>5 DEF NextFromVehicle
    <3>2. b \in Rows
      BY <1>0 DEF Rows
    <3>3. ASSUME StepValid(b, "next"), broker.step = 5, ~broker.setup_completed
          PROVE  FreshRow(Saved(b), "next")
      <4>1. Saved(b) = b /\ b.products
        BY <3>3 DEF Saved, StepValid
      <4>2. /\ b.step = 5 /\ b.license_type = broker.license_type
            /\ b.email = broker.email /\ b.email_authen = broker.email_authen
            /\ b.info = broker.info /\ b.password = broker.password
            /\ b.id_image = broker.id_image /\ b.uid = broker.uid
            /\ b.token = broker.token /\ ~b.setup_completed
        BY <1>0, <3>3 DEF Rows
      <4> HIDE DEF b
      <4>3. DoneSoFar(b) /\ Done(b, b.step)
        BY <1>f, <3>3, <4>1, <4>2, DonePages DEF DoneSoFar
      <4> QED BY <1>0, <1>f, <3>2, <4>1, <4>2, <4>3 DEF FreshRow
    <3> HIDE DEF b
    <3> QED BY <1>u, <3>1, <3>2, <3>3
  <2>6. ASSUME NEW short \in BOOLEAN, NextFromStatement(w, short)
        PROVE  Goal(6)
    <3>1. UpdateNext(w, 6, broker, short)
      BY <2>6 DEF NextFromStatement
    <3>2. ASSUME broker.step = 6, ~broker.setup_completed
          PROVE  FreshRow(Saved(broker), "next")
      <4>1. Saved(broker) = broker /\ Done(broker, broker.step)
        BY <3>2, DonePages DEF Saved
      <4> QED BY <1>0, <1>f, <3>2, <4>1 DEF FreshRow
    <3> QED BY <1>0, <1>u, <3>1, <3>2
  <2>7. ASSUME NEW filled \in BOOLEAN, NextFromStory(w, filled)
        PROVE  Goal(7)
    <3> DEFINE b == [broker EXCEPT !.story = TRUE]
    <3>1. UpdateNext(w, 7, b, filled)
      BY <2>7 DEF NextFromStory
    <3>2. b \in Rows
      BY <1>0 DEF Rows
    <3>3. ASSUME broker.step = 7, ~broker.setup_completed
          PROVE  FreshRow(Saved(b), "next")
      <4>1. Saved(b) = b
        BY <3>3 DEF Saved
      <4>2. /\ b.step = 7 /\ b.license_type = broker.license_type /\ b.story
            /\ b.email = broker.email /\ b.email_authen = broker.email_authen
            /\ b.info = broker.info /\ b.password = broker.password
            /\ b.id_image = broker.id_image /\ b.uid = broker.uid
            /\ b.products = broker.products
            /\ b.token = broker.token /\ ~b.setup_completed
        BY <1>0, <3>3 DEF Rows
      <4> HIDE DEF b
      <4>3. DoneSoFar(b) /\ Done(b, b.step)
        BY <1>f, <3>3, <4>2, DonePages DEF DoneSoFar
      <4> QED BY <1>0, <1>f, <3>2, <4>1, <4>2, <4>3 DEF FreshRow
    <3> HIDE DEF b
    <3> QED BY <1>u, <3>1, <3>2, <3>3
  <2> HIDE DEF Goal
  <2> QED BY <1>2, <2>1, <2>2, <2>3, <2>4, <2>5, <2>6, <2>7 DEF NextButton
<1>3. ASSUME NEW file \in BOOLEAN, UploadId(w, file)
      PROVE  Goal(2)
  <2> DEFINE b == [broker EXCEPT !.id_image = broker.id_image \/ file]
             valid == StepValid(b, "upload_id")
  <2>1. Update(w, 2, b, "save", valid)
    BY <1>3 DEF UploadId
  <2>2. b \in Rows
    BY <1>0 DEF Rows
  <2>3. ASSUME broker.step = 2, ~broker.setup_completed
        PROVE  FreshRow(Saved(b), "save")
    <3>1. Saved(b) = b
      BY <2>3 DEF Saved
    <3>2. /\ b.step = 2 /\ b.email = broker.email /\ b.email_authen = broker.email_authen
          /\ b.info = broker.info /\ b.password = broker.password /\ b.uid = broker.uid
          /\ b.token = broker.token /\ ~b.setup_completed
      BY <1>0, <2>3 DEF Rows
    <3> HIDE DEF b
    <3>3. DoneSoFar(b)
      BY <1>f, <2>3, <3>2 DEF DoneSoFar
    <3> QED BY <1>0, <1>f, <2>2, <3>1, <3>2, <3>3 DEF FreshRow
  <2> HIDE DEF b, valid
  <2> QED BY <1>0, <2>1, <2>2, <2>3, UpdateFresh
<1>4. ASSUME RemoveId(w)
      PROVE  Goal(2)
  <2> DEFINE b == [broker EXCEPT !.id_image = FALSE]
  <2>1. Begins(w, b, "save") /\ UNCHANGED confirmed /\ Sends(2)
    BY <1>4 DEF RemoveId
  <2>2. broker.step = 2 /\ ~broker.setup_completed
    BY <2>1, SentFromStep
  <2>3. /\ b \in Rows
        /\ b.step = 2 /\ b.email = broker.email /\ b.email_authen = broker.email_authen
        /\ b.info = broker.info /\ b.password = broker.password /\ b.uid = broker.uid
        /\ b.token = broker.token /\ ~b.setup_completed
    BY <1>0, <2>2 DEF Rows
  <2> HIDE DEF b
  <2>4. DoneSoFar(b)
    BY <1>f, <2>2, <2>3 DEF DoneSoFar
  <2>5. FreshRow(b, "save")
    BY <1>0, <1>f, <2>3, <2>4 DEF FreshRow
  <2> QED BY <2>1, <2>5
<1>5. ASSUME NEW email \in Addresses, NEW info \in BOOLEAN, NEW password \in Typed,
             SendValidation(w, email, info, password)
      PROVE  Goal(1)
  <2> DEFINE b == BasicInfo(email, info, password)
             at == IF evaluate_and_reset_email_authen(b) THEN "send_validation" ELSE "save"
  <2>1. Sends(1)
    BY <1>5 DEF SendValidation
  <2>2. CASE Rejects(1)
    BY <2>1, <2>2
  <2>3. CASE ~Rejects(1)
    <3>1. broker.step = 1 /\ ~broker.setup_completed
      BY <2>1, SentFromStep
    <3>2. Saved(b) = b
      BY <3>1 DEF Saved
    <3>3. Begins(w, b, at) /\ UNCHANGED confirmed /\ StepValid(b, "send_validation")
      BY <1>5, <2>3, <3>2 DEF SendValidation
    <3>4. /\ b \in Rows /\ b.step = 1 /\ b.uid = broker.uid
          /\ b.email_authen = broker.email_authen /\ b.token = broker.token
          /\ ~b.setup_completed
          /\ b.password = IF broker.uid THEN password ELSE broker.password
      BY <3>1, BasicInfoType
    <3>5. b.email # NoEmail /\ (at = "save" => b.email = broker.email)
      BY <3>1, <3>3 DEF StepValid, evaluate_and_reset_email_authen
    <3>6. at \in {"send_validation", "save"}
      OBVIOUS
    <3> HIDE DEF b, at
    <3>7. DoneSoFar(b) /\ b.password # "none"
      BY <1>f, <3>4 DEF DoneSoFar, Typed
    <3>8. FreshRow(b, at)
      BY <1>0, <3>4, <3>5, <3>6, <3>7 DEF FreshRow
    <3> QED BY <2>1, <3>3, <3>8
  <2> QED BY <2>2, <2>3
<1>6. ASSUME NEW right \in BOOLEAN, ValidateEmail(w, right)
      PROVE  Goal(1)
  <2> DEFINE b == [broker EXCEPT !.email_authen = TRUE]
  <2>1. Sends(1)
    BY <1>6 DEF ValidateEmail
  <2>2. CASE Rejects(1)
    BY <2>1, <2>2
  <2>3. CASE ~Rejects(1)
    <3>1. broker.step = 1 /\ ~broker.setup_completed
      BY <2>1, SentFromStep
    <3>2. /\ Begins(w, b, "save") /\ confirmed' = confirmed \union {broker.token}
          /\ broker.token # NoEmail
      BY <1>6, <2>3 DEF ValidateEmail
    <3>3. /\ b \in Rows /\ b.step = 1 /\ b.uid = broker.uid /\ b.email = broker.email
          /\ b.token = broker.token /\ ~b.setup_completed /\ b.password = broker.password
      BY <1>0, <3>1 DEF Rows
    <3> HIDE DEF b
    <3>4. DoneSoFar(b)
      BY <3>3 DEF DoneSoFar
    <3>5. FreshRow(b, "save")
      BY <1>0, <1>f, <3>2, <3>3, <3>4 DEF FreshRow
    <3> QED BY <2>1, <3>2, <3>5
  <2> QED BY <2>2, <2>3
<1>7. ASSUME NEW agreed \in BOOLEAN, Submit(w, agreed)
      PROVE  Goal(8)
  <2> DEFINE b == [broker EXCEPT !.check_term_of_use = agreed]
             valid == StepValid(b, "submit")
  <2>1. Update(w, 8, b, "submit", valid)
    BY <1>7 DEF Submit
  <2>2. b \in Rows
    BY <1>0 DEF Rows
  <2>3. ASSUME valid, broker.step = 8, ~broker.setup_completed
        PROVE  FreshRow(Saved(b), "submit")
    <3>1. Saved(b) = b /\ b.check_term_of_use
      BY <2>3 DEF Saved, StepValid
    <3>2. /\ b.step = 8 /\ b.license_type = broker.license_type
          /\ b.email = broker.email /\ b.email_authen = broker.email_authen
          /\ b.info = broker.info /\ b.password = broker.password
          /\ b.id_image = broker.id_image /\ b.uid = broker.uid
          /\ b.products = broker.products /\ b.story = broker.story
          /\ b.token = broker.token /\ ~b.setup_completed
      BY <1>0, <2>3 DEF Rows
    <3> HIDE DEF b
    <3>3. DoneSoFar(b)
      BY <1>f, <2>3, <3>2 DEF DoneSoFar
    <3> QED BY <1>0, <1>f, <2>2, <3>1, <3>2, <3>3 DEF FreshRow
  <2> HIDE DEF b, valid
  <2> QED BY <1>0, <2>1, <2>2, <2>3, UpdateFresh
<1> HIDE DEF Goal
<1>8. \E p \in steps : Goal(p)
  BY <1>1, <1>2, <1>3, <1>4, <1>5, <1>6, <1>7 DEF Receive
<1> QED BY <1>8 DEF Goal

\* FreshInv with its pages written out.
FreshRequest(w) ==
    LET j == job[w] IN
    /\ page = NoPage
    /\ \A v \in Workers \ {w} : job[v] = Idle
    /\ j.loaded = broker
    /\ j.at \notin Forms => j.row = broker
    /\ DoneSoFar(j.row)
    /\ j.at \in {"next", "step"} => Done(j.row, j.row.step)
    /\ j.at \in {"send_validation", "mail"} => j.row.step = 1
    /\ j.row.password = "none" => j.row.uid
    /\ j.row.setup_completed <=> j.at \in {"account", "licenses"}
    /\ j.at \in {"submit", "experience", "completed", "account", "licenses"} =>
         j.row.step = 8 /\ j.row.check_term_of_use

Fresh ==
    /\ page \in 1..8 => page = broker.step /\ ~broker.setup_completed
    /\ page = 4 => licenses \union offered \subseteq broker.license_type
    /\ DoneSoFar(broker)
    /\ broker.password = "none" => broker.uid
    /\ broker.setup_completed => broker.step = 8 /\ broker.check_term_of_use
    /\ \A w \in Workers : job[w] # Idle => FreshRequest(w)

\* The two ways of writing the invariant agree.
LEMMA FreshSame == TypeOK => (Fresh <=> FreshInv)
<1> SUFFICES ASSUME TypeOK PROVE Fresh <=> FreshInv
  OBVIOUS
<1>1. DoneSoFar(broker) <=> PagesBeforeStepDone
  BY DoneSame DEF TypeOK, PagesBeforeStepDone
<1>2. ASSUME NEW w \in Workers, job[w] # Idle
      PROVE  FreshRequest(w) <=> FreshJob(w)
  <2>1. DoneSoFar(job[w].row) <=> DoneBefore(job[w].row)
    BY <1>2, JobType, DoneSame
  <2> QED BY <2>1 DEF FreshRequest, FreshJob, basic_info_1, term_of_use_8
<1> QED BY <1>1, <1>2 DEF Fresh, FreshInv, steps, basic_info_1, license_info_4,
                          term_of_use_8

\* A rejected form shows the same page again.
LEMMA RejectsFresh ==
    ASSUME MaxStale = 0, TypeOK, Fresh, NEW p \in steps, Sends(p), Rejects(p)
    PROVE  Fresh'
<1> USE DEF steps, basic_info_1, license_info_4, term_of_use_8
<1>0. /\ broker.step = p /\ p \in 1..8 /\ ~broker.setup_completed
      /\ \A w \in Workers : job[w] = Idle
      /\ UNCHANGED <<broker, job>>
  BY SentFromStep, FreshSame DEF Rejects
<1>1. CASE p = 4
  <2>1. broker.license_type # NilSelection
    <3>1. broker.license_type \in SUBSET LicenseTypes
      BY <1>0, <1>1 DEF Fresh, DoneSoFar
    <3>2. "nil" \notin LicenseTypes
      BY ConstantsAssumption
    <3> QED BY <3>1, <3>2 DEF NilSelection
  <2>2. Shows(4) /\ licenses' = licenses \intersect broker.license_type
    BY <1>0, <1>1, <2>1 DEF Rejects, SyncLicenses, add_or_remove_license
  <2>3. page' = 4 /\ offered' \subseteq broker.license_type
    BY <2>2 DEF Shows
  <2> QED BY <1>0, <1>1, <2>2, <2>3 DEF Fresh, DoneSoFar
<1>2. CASE p # 4
  <2>1. Shows(p) /\ UNCHANGED licenses
    BY <1>0, <1>2 DEF Rejects
  <2>2. page' = p
    BY <2>1 DEF Shows
  <2> QED BY <1>0, <1>2, <2>1, <2>2 DEF Fresh, DoneSoFar
<1> QED BY <1>1, <1>2

\* An accepted request leaves the row and begins a job for what is done so far.
LEMMA BeginsFresh ==
    ASSUME TypeOK, Fresh, NEW w \in Workers, NEW b, NEW at, Begins(w, b, at),
           FreshRow(b, at), \A v \in Workers : job[v] = Idle
    PROVE  Fresh'
<1>1. /\ job' = [job EXCEPT ![w] = [at |-> at, loaded |-> broker, row |-> b, left |-> {}]]
      /\ page' = 0 /\ UNCHANGED <<broker, licenses>>
  BY DEF Begins, Shows, NoPage
<1>2. /\ job'[w].at = at /\ job'[w].loaded = broker /\ job'[w].row = b
      /\ \A v \in Workers \ {w} : job'[v] = Idle
  BY <1>1 DEF TypeOK
<1>3. DoneSoFar(job[w].row)' /\ DoneSoFar(broker)'
  BY <1>1, <1>2 DEF DoneSoFar, FreshRow, Fresh
<1>4. (at \in {"next", "step"} => Done(job[w].row, job[w].row.step))'
  BY <1>1, <1>2 DEF Done, FreshRow, Forms
<1>5. FreshRequest(w)'
  BY <1>1, <1>2, <1>3, <1>4 DEF FreshRequest, FreshRow, Forms, NoPage
<1>6. \A v \in Workers : job'[v] # Idle => v = w
  BY <1>2
<1> QED BY <1>1, <1>3, <1>5, <1>6 DEF Fresh

\* A commit of the only request there is leaves the worker's row in the table.
LEMMA SavesFresh ==
    ASSUME TypeOK, Fresh, NEW w \in Workers, job[w] # Idle, NEW row \in Rows,
           Saves(w, row), DoneSoFar(row), row.password = "none" => row.uid,
           NEW next, next = following(job[w].at),
           next = "step" => Done(row, row.step),
           next = "mail" => row.step = 1,
           row.setup_completed <=> next = "account",
           next \in {"experience", "completed", "account"} =>
             row.step = 8 /\ row.check_term_of_use
    PROVE  Fresh' /\ broker' = row
<1>1. FreshRequest(w) /\ job[w] \in Jobs
  BY JobType DEF Fresh
<1>2. broker' = row
  BY <1>1, WrittenType DEF Saves, FreshRequest, TypeOK
<1>3. /\ page' = 0 /\ UNCHANGED licenses
      /\ \A v \in Workers \ {w} : job'[v] = Idle
      /\ next = "none" => job'[w] = Idle
      /\ next # "none" => /\ job'[w].at = next /\ job'[w].loaded = row
                          /\ job'[w].row = row
  BY <1>1 DEF Saves, FreshRequest, TypeOK, NoPage, Jobs
<1>4. next \in {"none", "step", "mail", "experience", "completed", "account"}
  BY DEF following
<1>5. DoneSoFar(broker)'
  BY <1>2, <1>3 DEF DoneSoFar
<1>6. CASE next = "none"
  <2>1. \A v \in Workers : job'[v] = Idle
    BY <1>3, <1>6
  <2> QED BY <1>2, <1>3, <1>5, <1>6, <2>1 DEF Fresh
<1>7. CASE next # "none"
  <2>1. DoneSoFar(job[w].row)'
    BY <1>3, <1>7 DEF DoneSoFar
  <2>2. next = "step" => Done(job[w].row, job[w].row.step)'
    BY <1>3, <1>7 DEF Done
  <2>3. FreshRequest(w)'
    BY <1>2, <1>3, <1>4, <1>7, <2>1, <2>2 DEF FreshRequest, NoPage
  <2>4. \A v \in Workers : job'[v] # Idle => v = w
    BY <1>3
  <2> QED BY <1>2, <1>3, <1>4, <1>5, <2>3, <2>4 DEF Fresh
<1> QED BY <1>2, <1>6, <1>7

\* The commits of the one request preserve the invariant, whether or not it is cut short.
LEMMA ServeFresh ==
    ASSUME TypeOK, Fresh, NEW w \in Workers, Serve(w) \/ Killed(w)
    PROVE  Fresh'
<1> DEFINE j == job[w]
<1>0. j # Idle
  BY JobType DEF Serve, SaveForm, SaveStep, SendCode, PlaceExperience, Complete,
                 FileAccount, FileLicense, Killed, Forms
<1>a. FreshRequest(w) /\ j \in Jobs /\ j.row \in Rows /\ broker \in Rows
  BY <1>0, JobType DEF Fresh, TypeOK
<1>b. ASSUME UNCHANGED <<broker, licenses, page>>, job' = [job EXCEPT ![w] = Idle]
      PROVE  Fresh'
  <2>1. \A v \in Workers : job'[v] = Idle
    BY <1>a, <1>b DEF FreshRequest, TypeOK
  <2>2. page' = 0 /\ DoneSoFar(broker)'
    BY <1>a, <1>b DEF FreshRequest, DoneSoFar, Fresh, NoPage
  <2> QED BY <1>b, <2>1, <2>2 DEF Fresh
<1>c. ASSUME NEW types, StillToFile(w, types), j.at \in {"account", "licenses"}
      PROVE  Fresh'
  <2>1. CASE types = {}
    BY <1>b, <1>c, <2>1 DEF StillToFile
  <2>2. CASE types # {}
    <3>1. /\ UNCHANGED <<broker, licenses, page>>
          /\ job' = [job EXCEPT ![w] = [@ EXCEPT !.at = "licenses", !.left = types]]
      BY <1>c, <2>2 DEF StillToFile
    <3>2. /\ job'[w].at = "licenses" /\ job'[w].loaded = j.loaded /\ job'[w].row = j.row
          /\ \A v \in Workers \ {w} : job'[v] = Idle
      BY <1>a, <3>1 DEF TypeOK, Jobs, FreshRequest
    <3>3. DoneSoFar(broker)' /\ DoneSoFar(job[w].row)'
      BY <1>a, <3>1, <3>2 DEF DoneSoFar, FreshRequest, Fresh
    <3>4. FreshRequest(w)'
      BY <1>a, <1>c, <3>1, <3>2, <3>3 DEF FreshRequest, Forms
    <3>5. \A v \in Workers : job'[v] # Idle => v = w
      BY <3>2
    <3>6. page' = 0
      BY <1>a, <3>1 DEF FreshRequest, NoPage
    <3> QED BY <3>1, <3>3, <3>4, <3>5, <3>6 DEF Fresh
  <2> QED BY <2>1, <2>2
<1>1. CASE SaveForm(w)
  <2>1. j.at \in Forms /\ Saves(w, j.row)
    BY <1>1 DEF SaveForm
  <2>2. following(j.at) \in {"none", "step", "mail", "experience"}
        /\ (following(j.at) = "step" => j.at = "next")
        /\ (following(j.at) = "mail" => j.at = "send_validation")
        /\ (following(j.at) = "experience" => j.at = "submit")
    BY <2>1 DEF following, Forms
  <2>3. ~j.row.setup_completed /\ following(j.at) # "account"
    BY <1>a, <2>1, <2>2 DEF FreshRequest, Forms
  <2> QED BY <1>0, <1>a, <2>1, <2>2, <2>3, SavesFresh DEF FreshRequest
<1>2. CASE SaveStep(w)
  <2> DEFINE row == [j.row EXCEPT !.step = next_step(j.row.step)]
  <2>1. j.at = "step" /\ Saves(w, row)
    BY <1>2 DEF SaveStep
  <2>2. following(j.at) = "none"
    BY <2>1 DEF following
  <2>3. DoneSoFar(row)
    BY <1>a, <2>1, NextDone DEF FreshRequest
  <2>4. /\ row \in Rows /\ row.password = j.row.password /\ row.uid = j.row.uid
        /\ row.setup_completed = j.row.setup_completed
    BY <1>a, StageRows DEF Rows
  <2>5. ~j.row.setup_completed
    BY <1>a, <2>1 DEF FreshRequest
  <2> HIDE DEF row
  <2> QED BY <1>0, <1>a, <2>1, <2>2, <2>3, <2>4, <2>5, SavesFresh DEF FreshRequest
<1>3. CASE SendCode(w)
  <2>1. /\ j.at = "mail" /\ job' = [job EXCEPT ![w] = Idle]
        /\ UNCHANGED <<licenses, page>>
    BY <1>3 DEF SendCode
  <2>2. j.row = broker /\ broker.step = 1 /\ ~broker.setup_completed
    BY <1>a, <2>1 DEF FreshRequest, Forms
  <2>3. CASE UNCHANGED broker
    BY <1>b, <2>1, <2>3
  <2>4. CASE broker' # broker
    <3> DEFINE row == [broker EXCEPT !.email_authen = FALSE]
    <3>1. broker' = [Written(broker, row) EXCEPT !.token = broker.email]
      BY <1>3, <2>2, <2>4 DEF SendCode
    <3>2. row \in Rows /\ Written(broker, row) = row
      BY <1>a, StageRows, WrittenType
    <3>3. broker' = [row EXCEPT !.token = broker.email]
      BY <3>1, <3>2
    <3>4. /\ broker'.step = 1 /\ broker'.uid = broker.uid
          /\ broker'.password = broker.password /\ ~broker'.setup_completed
      BY <1>a, <2>2, <3>3 DEF Rows
    <3>5. DoneSoFar(broker)'
      BY <3>4 DEF DoneSoFar
    <3>6. \A v \in Workers : job'[v] = Idle
      BY <1>a, <2>1 DEF FreshRequest, TypeOK
    <3>7. page' = 0
      BY <1>a, <2>1 DEF FreshRequest, NoPage
    <3> QED BY <3>4, <3>5, <3>6, <3>7 DEF Fresh
  <2> QED BY <2>3, <2>4
<1>4. CASE PlaceExperience(w)
  <2> DEFINE row == [j.row EXCEPT !.current_experience = TRUE]
  <2>1. j.at = "experience" /\ Saves(w, row)
    BY <1>4 DEF PlaceExperience
  <2>2. following(j.at) = "completed"
    BY <2>1 DEF following
  <2>3. /\ row \in Rows /\ row.password = j.row.password /\ row.uid = j.row.uid
        /\ row.setup_completed = j.row.setup_completed /\ row.step = j.row.step
        /\ row.check_term_of_use = j.row.check_term_of_use /\ row.email = j.row.email
        /\ row.email_authen = j.row.email_authen /\ row.info = j.row.info
        /\ row.id_image = j.row.id_image /\ row.license_type = j.row.license_type
        /\ row.products = j.row.products /\ row.story = j.row.story
    BY <1>a, StageRows DEF Rows
  <2> HIDE DEF row
  <2>4. DoneSoFar(row)
    BY <1>a, <2>3 DEF DoneSoFar, FreshRequest
  <2> QED BY <1>0, <1>a, <2>1, <2>2, <2>3, <2>4, SavesFresh DEF FreshRequest
<1>5. CASE Complete(w)
  <2> DEFINE row == [j.row EXCEPT !.setup_completed = TRUE]
  <2>1. j.at = "completed" /\ Saves(w, row)
    BY <1>5 DEF Complete
  <2>2. following(j.at) = "account"
    BY <2>1 DEF following
  <2>3. /\ row \in Rows /\ row.password = j.row.password /\ row.uid = j.row.uid
        /\ row.setup_completed /\ row.step = j.row.step
        /\ row.check_term_of_use = j.row.check_term_of_use /\ row.email = j.row.email
        /\ row.email_authen = j.row.email_authen /\ row.info = j.row.info
        /\ row.id_image = j.row.id_image /\ row.license_type = j.row.license_type
        /\ row.products = j.row.products /\ row.story = j.row.story
    BY <1>a, StageRows DEF Rows
  <2> HIDE DEF row
  <2>4. DoneSoFar(row)
    BY <1>a, <2>3 DEF DoneSoFar, FreshRequest
  <2> QED BY <1>0, <1>a, <2>1, <2>2, <2>3, <2>4, SavesFresh DEF FreshRequest
<1>6. CASE FileAccount(w)
  BY <1>6, <1>c DEF FileAccount
<1>7. ASSUME NEW t \in LicenseTypes, FileLicense(w, t)
      PROVE  Fresh'
  BY <1>7, <1>c DEF FileLicense
<1>8. CASE Killed(w)
  BY <1>8, <1>b DEF Killed
<1> QED BY <1>1, <1>2, <1>3, <1>4, <1>5, <1>6, <1>7, <1>8 DEF Serve

\* Every handler preserves the invariant when no stale form is sent, faults or not.
LEMMA FreshStep ==
    ASSUME MaxStale = 0, TypeOK, Fresh, [Next]_vars
    PROVE  Fresh'
<1> USE StepNames
<1>0. broker \in Rows /\ broker.step \in 1..8 /\ FreshInv
  BY FreshSame DEF TypeOK, Rows, steps, basic_info_1, term_of_use_8
<1>1. CASE Edit
  <2> USE DEF license_info_4
  <2>1. UNCHANGED <<broker, job>> /\ \A w \in Workers : job[w] = Idle
    BY <1>1, AskedIdle DEF Edit
  <2>2. CASE broker.setup_completed
    <3>1. Shows(Profile) /\ UNCHANGED licenses
      BY <1>1, <2>2 DEF Edit, EditRaises
    <3>2. page' = 9
      BY <3>1 DEF Shows, Profile
    <3> QED BY <2>1, <2>2, <3>1, <3>2 DEF Fresh, DoneSoFar
  <2>3. CASE EditRaises
    <3>1. Shows(NoPage) /\ UNCHANGED licenses
      BY <1>1, <2>3 DEF Edit, EditRaises
    <3>2. page' = 0
      BY <3>1 DEF Shows, NoPage
    <3> QED BY <2>1, <3>1, <3>2 DEF Fresh, DoneSoFar
  <2>4. CASE ~broker.setup_completed /\ ~EditRaises
    <3>1. Shows(broker.step)
      BY <1>1, <2>4 DEF Edit
    <3>2. page' = broker.step
      BY <3>1 DEF Shows
    <3>3. CASE broker.step = 4
      <4>1. licenses' = licenses \intersect broker.license_type
        BY <1>1, <2>4, <3>3 DEF Edit, SyncLicenses, add_or_remove_license
      <4>2. offered' \subseteq broker.license_type
        BY <3>1, <3>3 DEF Shows
      <4> QED BY <2>1, <2>4, <3>2, <3>3, <4>1, <4>2 DEF Fresh, DoneSoFar
    <3>4. CASE broker.step # 4
      <4>1. UNCHANGED licenses
        BY <1>1, <2>4, <3>4 DEF Edit
      <4> QED BY <2>1, <2>4, <3>2, <3>4, <4>1 DEF Fresh, DoneSoFar
    <3> QED BY <3>3, <3>4
  <2> QED BY <2>2, <2>3, <2>4
<1>a. ASSUME Sends(4), Shows(NoPage), UNCHANGED <<broker, job>>
      PROVE  Fresh'
  <2>1. broker.step = 4 /\ ~broker.setup_completed /\ \A w \in Workers : job[w] = Idle
    BY <1>0, <1>a, SentFromStep DEF license_info_4
  <2>2. page' = 0
    BY <1>a DEF Shows, NoPage
  <2> QED BY <1>a, <2>1, <2>2 DEF Fresh, DoneSoFar
<1>2. ASSUME NEW t \in LicenseTypes, NEW ok \in BOOLEAN, UploadLicense(t, ok)
      PROVE  Fresh'
  <2>1. Sends(4) /\ Sends(license_info_4)
    BY <1>2 DEF UploadLicense, license_info_4
  <2>2. Rejects(license_info_4) \/ (Shows(NoPage) /\ UNCHANGED <<broker, job>>)
    BY <1>2 DEF UploadLicense
  <2> QED BY <1>a, <2>1, <2>2, RejectsFresh
<1>3. ASSUME NEW t \in LicenseTypes, RemoveLicense(t)
      PROVE  Fresh'
  BY <1>3, <1>a DEF RemoveLicense, license_info_4
<1>4. ASSUME NEW w \in Workers, Receive(w)
      PROVE  Fresh'
  <2>1. PICK p \in steps :
          /\ Sends(p)
          /\ \/ Rejects(p)
             \/ \E b, at : Begins(w, b, at) /\ FreshRow(b, at)
    BY <1>0, <1>4, FreshShape
  <2>2. \A v \in Workers : job[v] = Idle
    BY <1>0, <2>1, SentFromStep
  <2> QED BY <2>1, <2>2, RejectsFresh, BeginsFresh
<1>5. ASSUME NEW w \in Workers, Serve(w) \/ Killed(w)
      PROVE  Fresh'
  BY <1>5, ServeFresh
<1>6. CASE UNCHANGED vars
  <2>1. UNCHANGED <<broker, licenses, job, page, offered>>
    BY <1>6 DEF vars
  <2>2. ASSUME NEW w \in Workers, FreshRequest(w)
        PROVE  FreshRequest(w)'
    <3>1. DoneSoFar(job[w].row)'
      BY <2>1, <2>2 DEF FreshRequest, DoneSoFar
    <3>2. (job[w].at \in {"next", "step"} => Done(job[w].row, job[w].row.step))'
      BY <2>1, <2>2 DEF FreshRequest, Done
    <3> QED BY <2>1, <2>2, <3>1, <3>2 DEF FreshRequest
  <2>3. DoneSoFar(broker)'
    BY <2>1 DEF DoneSoFar, Fresh
  <2> QED BY <2>1, <2>2, <2>3 DEF Fresh
<1> QED BY <1>1, <1>2, <1>3, <1>4, <1>5, <1>6 DEF Next

\* Of a new broker nothing is done, and nothing is being served.
LEMMA InitFresh == Init => TypeOK /\ Fresh
<1> SUFFICES ASSUME Init PROVE TypeOK /\ Fresh
  OBVIOUS
<1>1. TypeOK
  BY InitType
<1>2. PICK uid \in BOOLEAN, e \in Addresses, authen \in BOOLEAN :
        broker = NewBroker(uid, e, authen)
  BY DEF Init, Addresses
<1>3. /\ broker.step = 1 /\ ~broker.setup_completed
      /\ broker.password = IF broker.uid THEN "none" ELSE "chosen"
  BY <1>2 DEF NewBroker, basic_info_1
<1>4. page = 0 /\ \A w \in Workers : job[w] = Idle
  BY DEF Init, NoPage
<1> QED BY <1>1, <1>3, <1>4 DEF Fresh, DoneSoFar

\* The broker who waits: the invariant that makes the following theorems inductive.
LEMMA FreshAlways ==
    ASSUME MaxStale = 0
    PROVE  Spec => [](TypeOK /\ Fresh)
<1>1. TypeOK /\ Fresh /\ [Next]_vars => TypeOK' /\ Fresh'
  BY TypeStep, FreshStep
<1> QED BY <1>1, InitFresh, PTL DEF Spec

\* A broker who uses the page he is shown and waits for its answer has done every page
\* before his step, wherever a worker is killed (the validation flags of `update').
THEOREM PagesDone ==
    ASSUME MaxStale = 0
    PROVE  Spec => []PagesBeforeStepDone
<1>1. FreshInv => PagesBeforeStepDone
  BY DEF FreshInv
<1> QED BY <1>1, FreshAlways, FreshSame, PTL

\* What such a broker submits is complete: every page is done (setup_completed? in
\* `update').
THEOREM SubmissionComplete ==
    ASSUME MaxStale = 0
    PROVE  Spec => []SubmittedIsComplete
<1>1. FreshInv => SubmittedIsComplete
  <2> SUFFICES ASSUME FreshInv, broker.setup_completed, NEW p \in steps
               PROVE  Done(broker, p)
    BY DEF SubmittedIsComplete
  <2>1. broker.step = term_of_use_8 /\ broker.check_term_of_use
    BY DEF FreshInv
  <2>2. CASE p = term_of_use_8
    BY <2>1, <2>2, DonePages DEF term_of_use_8
  <2>3. CASE p # term_of_use_8
    <3>1. p < broker.step
      BY <2>1, <2>3 DEF steps, basic_info_1, term_of_use_8
    <3> QED BY <3>1 DEF FreshInv, PagesBeforeStepDone, DoneBefore
  <2> QED BY <2>2, <2>3
<1> QED BY <1>1, FreshAlways, FreshSame, PTL

\* The page shown, the forms held, the licences stored and the request being served agree
\* with the row's step (`edit' and `update').
THEOREM FreshPages ==
    ASSUME MaxStale = 0
    PROVE  Spec => []FreshInv
BY FreshAlways, FreshSame, PTL

-----------------------------------------------------------------------------
(***************************************************************************)
(* The address and its confirmation                                        *)
(***************************************************************************)

\* The code that can be answered was sent to the stored address, unless the next one
\* is just being mailed.
CodeIsForAddress ==
    broker.token \in {NoEmail, broker.email} \/ \E w \in Workers : job[w].at = "mail"

\* What a request is about to write of the address.
AddressRequest(w) ==
    LET j == job[w] IN
    /\ j.at \in {"send_validation", "mail"} => j.row.email # NoEmail
    /\ j.at \in Forms \ {"send_validation"} =>
         /\ j.row.email = broker.email /\ j.row.token = broker.token
         /\ j.row.email_authen /\ j.row.email # NoEmail => j.row.email \in confirmed

AddressInv ==
    /\ CodeIsForAddress
    /\ EmailConfirmed
    /\ \A w \in Workers : job[w] # Idle => AddressRequest(w)

\* Nothing that leaves the row and the jobs alone matters.
LEMMA AddressFrame ==
    ASSUME AddressInv, UNCHANGED <<broker, job, confirmed>>
    PROVE  AddressInv'
BY DEF AddressInv, CodeIsForAddress, EmailConfirmed, AddressRequest

\* With no code being mailed, the facts about the row.
LEMMA AddressPlain ==
    ASSUME AddressInv, \A v \in Workers : job[v].at # "mail"
    PROVE  /\ broker.token \in {NoEmail, broker.email}
           /\ broker.email_authen /\ broker.email # NoEmail => broker.email \in confirmed
BY DEF AddressInv, CodeIsForAddress, EmailConfirmed

LEMMA ServeAddress ==
    ASSUME ~Faults, TypeOK, Fresh, AddressInv, NEW w \in Workers, Serve(w)
    PROVE  AddressInv'
<1> DEFINE j == job[w]
<1>0. j # Idle
  BY JobType DEF Serve, SaveForm, SaveStep, SendCode, PlaceExperience, Complete,
                 FileAccount, FileLicense, Forms
<1>a. /\ FreshRequest(w) /\ AddressRequest(w)
      /\ j \in Jobs /\ j.row \in Rows /\ broker \in Rows
      /\ \A v \in Workers \ {w} : job[v] = Idle
  BY <1>0, JobType DEF Fresh, TypeOK, AddressInv, FreshRequest
<1>i. Idle.at = "none"
  BY DEF Idle
<1>p. ASSUME j.at # "mail"
      PROVE  /\ broker.token \in {NoEmail, broker.email}
             /\ broker.email_authen /\ broker.email # NoEmail => broker.email \in confirmed
  BY <1>a, <1>i, <1>p, AddressPlain
<1>b. ASSUME NEW row \in Rows, Saves(w, row)
      PROVE  /\ broker' = row /\ UNCHANGED confirmed
             /\ \A v \in Workers \ {w} : job'[v] = Idle
             /\ following(j.at) = "none" => job'[w] = Idle
             /\ following(j.at) # "none" => job'[w].at = following(j.at) /\ job'[w].row = row
  BY <1>a, <1>b, WrittenType DEF Saves, FreshRequest, TypeOK, Jobs
<1>c. ASSUME NEW row \in Rows, Saves(w, row), following(j.at) \notin Forms \union {"mail"},
             row.token \in {NoEmail, row.email},
             row.email_authen /\ row.email # NoEmail => row.email \in confirmed
      PROVE  AddressInv'
  <2>1. broker' = row /\ UNCHANGED confirmed
    BY <1>b, <1>c
  <2>2. \A v \in Workers : job'[v] # Idle => v = w /\ job'[w].at = following(j.at)
    BY <1>b, <1>c
  <2>3. CodeIsForAddress' /\ EmailConfirmed'
    BY <1>c, <2>1 DEF CodeIsForAddress, EmailConfirmed
  <2>4. \A v \in Workers : job'[v] # Idle => AddressRequest(v)'
    BY <1>c, <2>2 DEF AddressRequest, Forms
  <2> QED BY <2>3, <2>4 DEF AddressInv
<1>1. CASE SaveForm(w)
  <2>1. j.at \in Forms /\ Saves(w, j.row)
    BY <1>1 DEF SaveForm
  <2>2. CASE j.at = "send_validation"
    <3>1. following(j.at) = "mail"
      BY <2>2 DEF following
    <3>2. job'[w].at = "mail" /\ job'[w].row = j.row
      BY <1>a, <1>b, <2>1, <3>1
    <3>3. \A v \in Workers : job'[v] # Idle => v = w
      BY <1>a, <1>b, <2>1
    <3>4. AddressRequest(w)'
      BY <1>a, <2>2, <3>2 DEF AddressRequest, Forms
    <3> QED BY <3>2, <3>3, <3>4 DEF AddressInv, CodeIsForAddress, EmailConfirmed
  <2>3. CASE j.at # "send_validation"
    <3>1. following(j.at) \notin Forms \union {"mail"}
      BY <2>1, <2>3 DEF following, Forms
    <3>2. /\ j.row.token \in {NoEmail, j.row.email}
          /\ j.row.email_authen /\ j.row.email # NoEmail => j.row.email \in confirmed
      BY <1>a, <1>p, <2>1, <2>3 DEF AddressRequest, Forms
    <3> QED BY <1>a, <1>c, <2>1, <3>1, <3>2
  <2> QED BY <2>2, <2>3
<1>s. ASSUME NEW row \in Rows, Saves(w, row), j.at \in {"step", "experience", "completed"},
             row.email = j.row.email, row.token = j.row.token,
             row.email_authen = j.row.email_authen
      PROVE  AddressInv'
  <2>1. j.row = broker
    BY <1>a, <1>s DEF FreshRequest, Forms
  <2>2. following(j.at) \notin Forms \union {"mail"}
    BY <1>s DEF following, Forms
  <2> QED BY <1>c, <1>p, <1>s, <2>1, <2>2
<1>2. CASE SaveStep(w)
  <2> DEFINE row == [j.row EXCEPT !.step = next_step(j.row.step)]
  <2>1. /\ row \in Rows /\ row.email = j.row.email /\ row.token = j.row.token
        /\ row.email_authen = j.row.email_authen
    BY <1>a, StageRows DEF Rows
  <2>2. j.at = "step" /\ Saves(w, row)
    BY <1>2 DEF SaveStep
  <2> HIDE DEF row
  <2> QED BY <1>s, <2>1, <2>2
<1>3. CASE SendCode(w)
  <2>1. /\ j.at = "mail" /\ job' = [job EXCEPT ![w] = Idle] /\ UNCHANGED confirmed
    BY <1>3 DEF SendCode
  <2>2. j.row = broker /\ broker.email # NoEmail
    BY <1>a, <2>1 DEF FreshRequest, AddressRequest, Forms
  <2> DEFINE row == [broker EXCEPT !.email_authen = FALSE]
  <2>3. broker' = [Written(broker, row) EXCEPT !.token = broker.email]
    BY <1>3, <2>2 DEF SendCode
  <2>4. row \in Rows /\ Written(broker, row) = row
    BY <1>a, StageRows, WrittenType
  <2>5. broker' = [row EXCEPT !.token = broker.email]
    BY <2>3, <2>4
  <2>6. broker'.token = broker'.email /\ ~broker'.email_authen
    BY <1>a, <2>5 DEF Rows
  <2>7. \A v \in Workers : job'[v] = Idle
    BY <1>a, <2>1 DEF TypeOK
  <2> QED BY <2>6, <2>7 DEF AddressInv, CodeIsForAddress, EmailConfirmed
<1>4. CASE PlaceExperience(w)
  <2> DEFINE row == [j.row EXCEPT !.current_experience = TRUE]
  <2>1. /\ row \in Rows /\ row.email = j.row.email /\ row.token = j.row.token
        /\ row.email_authen = j.row.email_authen
    BY <1>a, StageRows DEF Rows
  <2>2. j.at = "experience" /\ Saves(w, row)
    BY <1>4 DEF PlaceExperience
  <2> HIDE DEF row
  <2> QED BY <1>s, <2>1, <2>2
<1>5. CASE Complete(w)
  <2> DEFINE row == [j.row EXCEPT !.setup_completed = TRUE]
  <2>1. /\ row \in Rows /\ row.email = j.row.email /\ row.token = j.row.token
        /\ row.email_authen = j.row.email_authen
    BY <1>a, StageRows DEF Rows
  <2>2. j.at = "completed" /\ Saves(w, row)
    BY <1>5 DEF Complete
  <2> HIDE DEF row
  <2> QED BY <1>s, <2>1, <2>2
<1>6. ASSUME NEW types, StillToFile(w, types), j.at \in {"account", "licenses"}
      PROVE  AddressInv'
  <2>1. UNCHANGED <<broker, confirmed>>
    BY <1>6 DEF StillToFile
  <2>2. /\ \A v \in Workers \ {w} : job'[v] = Idle
        /\ job'[w] = Idle \/ job'[w].at = "licenses"
    BY <1>a, <1>6 DEF StillToFile, TypeOK, Jobs
  <2>3. CodeIsForAddress' /\ EmailConfirmed'
    BY <1>p, <1>6, <2>1 DEF CodeIsForAddress, EmailConfirmed
  <2>4. \A v \in Workers : job'[v] # Idle => AddressRequest(v)'
    BY <2>2 DEF AddressRequest, Forms
  <2> QED BY <2>3, <2>4 DEF AddressInv
<1>7. CASE FileAccount(w) \/ \E t \in LicenseTypes : FileLicense(w, t)
  BY <1>6, <1>7 DEF FileAccount, FileLicense
<1> QED BY <1>1, <1>2, <1>3, <1>4, <1>5, <1>7 DEF Serve

LEMMA AddressStep ==
    ASSUME MaxStale = 0, ~Faults, TypeOK, Fresh, AddressInv, [Next]_vars
    PROVE  AddressInv'
<1>1. CASE Edit
  BY <1>1, AddressFrame DEF Edit
<1>2. ASSUME NEW t \in LicenseTypes, NEW ok \in BOOLEAN, UploadLicense(t, ok)
      PROVE  AddressInv'
  BY <1>2, AddressFrame DEF UploadLicense, Rejects
<1>3. ASSUME NEW t \in LicenseTypes, RemoveLicense(t)
      PROVE  AddressInv'
  BY <1>3, AddressFrame DEF RemoveLicense
<1>4. ASSUME NEW w \in Workers, Receive(w)
      PROVE  AddressInv'
  <2>0. FreshInv
    BY FreshSame
  <2>1. PICK p \in steps :
          /\ Sends(p)
          /\ \/ Rejects(p)
             \/ \E b, at : /\ Begins(w, b, at) /\ FreshRow(b, at)
                           /\ confirmed' \in {confirmed, confirmed \union {broker.token}}
    BY <1>4, <2>0, FreshShape
  <2>2. \A v \in Workers : job[v] = Idle
    BY <2>0, <2>1, SentFromStep
  <2>3. CASE Rejects(p)
    BY <2>3, AddressFrame DEF Rejects
  <2>4. CASE ~Rejects(p)
    <3>1. PICK b, at : /\ Begins(w, b, at) /\ FreshRow(b, at)
                       /\ confirmed' \in {confirmed, confirmed \union {broker.token}}
      BY <2>1, <2>4
    <3>2. /\ job'[w].at = at /\ job'[w].row = b /\ UNCHANGED broker
          /\ \A v \in Workers \ {w} : job'[v] = Idle
      BY <2>2, <3>1 DEF Begins, TypeOK
    <3>3. /\ broker.token \in {NoEmail, broker.email}
          /\ broker.email_authen /\ broker.email # NoEmail => broker.email \in confirmed
      <4>1. \A v \in Workers : job[v].at # "mail"
        BY <2>2 DEF Idle
      <4> QED BY <4>1, AddressPlain
    <3>4. confirmed \subseteq confirmed'
      BY <3>1
    <3>5. CodeIsForAddress' /\ EmailConfirmed'
      BY <3>2, <3>3, <3>4 DEF CodeIsForAddress, EmailConfirmed
    <3>6. AddressRequest(w)'
      BY <3>1, <3>2, <3>3, <3>4 DEF AddressRequest, FreshRow, Forms
    <3>7. \A v \in Workers : job'[v] # Idle => v = w
      BY <3>2
    <3> QED BY <3>5, <3>6, <3>7 DEF AddressInv
  <2> QED BY <2>3, <2>4
<1>5. ASSUME NEW w \in Workers, Serve(w)
      PROVE  AddressInv'
  BY <1>5, ServeAddress
<1>6. CASE UNCHANGED vars
  BY <1>6, AddressFrame DEF vars
<1> QED BY <1>1, <1>2, <1>3, <1>4, <1>5, <1>6 DEF Next, Killed

\* An address counts as confirmed only when its owner answered the code sent to it or the
\* provider vouched for it (evaluate_and_reset_email_authen, confirm_email?), as long as
\* the broker waits for his answers and no request is cut short.
THEOREM AddressConfirmed ==
    ASSUME MaxStale = 0, ~Faults
    PROVE  Spec => []EmailConfirmed
<1>1. Init => AddressInv
  <2> SUFFICES ASSUME Init PROVE AddressInv
    OBVIOUS
  <2>1. PICK uid, e, authen : /\ broker = NewBroker(uid, e, authen)
                              /\ confirmed = {broker.email} \ {NoEmail}
    BY DEF Init
  <2>2. broker.token = NoEmail
    BY <2>1 DEF NewBroker
  <2>3. \A w \in Workers : job[w] = Idle
    BY DEF Init
  <2> QED BY <2>1, <2>2, <2>3 DEF AddressInv, CodeIsForAddress, EmailConfirmed
<1>2. TypeOK /\ Fresh /\ AddressInv /\ [Next]_vars => AddressInv'
  BY AddressStep
<1>3. AddressInv => EmailConfirmed
  BY DEF AddressInv
<1> QED BY <1>1, <1>2, <1>3, FreshAlways, PTL DEF Spec

-----------------------------------------------------------------------------
(***************************************************************************)
(* The application that comes of the registration of a broker who waits    *)
(***************************************************************************)

\* What a submission has filed so far.
FilingRequest(w) ==
    LET j == job[w] IN
    /\ j.at \notin {"account", "licenses"} => ~broker.setup_completed
    /\ j.at = "account" => requests.account = 0 /\ \A t \in LicenseTypes : requests.license[t] = 0
    /\ j.at = "licenses" => /\ requests.account = 1 /\ j.left \subseteq licenses
                            /\ \A t \in j.left : requests.license[t] = 0

\* Requests are those of a completed registration, one of the account and then at most
\* one of each licence.
FilingInv ==
    /\ requests.account \in {0, 1}
    /\ ~broker.setup_completed => requests.account = 0
    /\ \A t \in LicenseTypes :
         /\ requests.license[t] \in {0, 1}
         /\ requests.license[t] = 1 => requests.account = 1 /\ t \in licenses
    /\ \A w \in Workers : job[w] # Idle => FilingRequest(w)

\* The requests stay as they are.
SameRequests ==
    /\ requests'.account = requests.account
    /\ \A t \in LicenseTypes : requests'.license[t] = requests.license[t]

\* Before the submission there is nothing to withdraw.
LEMMA NothingWithdrawn ==
    ASSUME TypeOK, FilingInv, ~broker.setup_completed,
           requests' = requests \/ \E types : requests' = Withdrawn(types)
    PROVE  SameRequests /\ \A t \in LicenseTypes : requests.license[t] = 0
<1>1. \A t \in LicenseTypes : requests.license[t] = 0
  BY DEF FilingInv
<1>2. ASSUME NEW types, requests' = Withdrawn(types)
      PROVE  SameRequests
  <2>1. requests'.account = requests.account
    BY <1>2 DEF Withdrawn, TypeOK
  <2>2. ASSUME NEW t \in LicenseTypes
        PROVE  requests'.license[t] = requests.license[t]
    <3>1. requests'.license[t] = IF t \in types /\ requests.license[t] > 0
                                 THEN requests.license[t] - 1 ELSE requests.license[t]
      BY <1>2 DEF Withdrawn, TypeOK
    <3> QED BY <1>1, <3>1
  <2> QED BY <2>1, <2>2 DEF SameRequests
<1> QED BY <1>1, <1>2 DEF SameRequests

\* A step of a registration that is not submitted before it.
LEMMA FilingOpen ==
    ASSUME TypeOK, FilingInv, ~broker.setup_completed,
           requests' = requests \/ \E types : requests' = Withdrawn(types),
           \A w \in Workers : job'[w] # Idle =>
             /\ job'[w].at # "licenses"
             /\ job'[w].at # "account" => ~broker'.setup_completed
    PROVE  SameRequests /\ FilingInv'
<1>1. SameRequests /\ \A t \in LicenseTypes : requests.license[t] = 0
  BY NothingWithdrawn
<1>2. requests.account = 0
  BY DEF FilingInv
<1>3. \A w \in Workers : job'[w] # Idle => FilingRequest(w)'
  BY <1>1, <1>2 DEF FilingRequest, SameRequests
<1> QED BY <1>1, <1>2, <1>3 DEF FilingInv, SameRequests

\* A commit of the row.
LEMMA SavesFiling ==
    ASSUME TypeOK, Fresh, Fresh', FilingInv, NEW w \in Workers, job[w].at # "none",
           job[w].at \notin {"account", "licenses"}, NEW row, Saves(w, row)
    PROVE  SameRequests /\ FilingInv'
<1>0. FreshRequest(w) /\ job[w] \in Jobs /\ job[w] # Idle
  BY JobType DEF Fresh
<1>1. ~broker.setup_completed
  BY <1>0 DEF FilingInv, FilingRequest
<1>2. requests' = requests
  BY DEF Saves
<1>3. ASSUME NEW v \in Workers, job'[v] # Idle
      PROVE  /\ job'[v].at # "licenses"
             /\ job'[v].at # "account" => ~broker'.setup_completed
  <2>1. following(job[w].at) \notin Forms \union {"licenses"}
    BY DEF following, Forms
  <2>2. job'[v].at = following(job[w].at)
    BY <1>0, <1>3 DEF Saves, TypeOK, FreshRequest, Jobs
  <2>3. FreshRequest(v)'
    BY <1>3 DEF Fresh
  <2> QED BY <2>1, <2>2, <2>3 DEF FreshRequest
<1> QED BY <1>1, <1>2, <1>3, FilingOpen

\* The steps that file a request.
FilesAccount ==
    /\ requests.account = 0 /\ requests'.account = 1
    /\ \A t \in LicenseTypes : requests.license[t] = 0 /\ requests'.license[t] = 0

FilesLicense(t) ==
    /\ requests.account = 1 /\ requests'.account = 1
    /\ requests.license[t] = 0 /\ requests'.license[t] = 1
    /\ \A u \in LicenseTypes \ {t} : requests'.license[u] = requests.license[u]

\* The commits of the one request, cut short or not.
LEMMA ServeFiling ==
    ASSUME TypeOK, Fresh, Fresh', FilingInv, NEW w \in Workers, Serve(w) \/ Killed(w)
    PROVE  /\ FilingInv'
           /\ SameRequests \/ FilesAccount \/ \E t \in LicenseTypes : FilesLicense(t)
<1> DEFINE j == job[w]
<1>0. j # Idle /\ j.at # "none"
  BY JobType DEF Serve, SaveForm, SaveStep, SendCode, PlaceExperience, Complete,
                 FileAccount, FileLicense, Killed, Forms
<1>a. /\ FreshRequest(w) /\ FilingRequest(w) /\ j \in Jobs
      /\ \A v \in Workers \ {w} : job[v] = Idle
      /\ j.left \in SUBSET LicenseTypes
  BY <1>0, JobType DEF Fresh, FilingInv, FreshRequest
<1>1. CASE SaveForm(w) \/ SaveStep(w) \/ PlaceExperience(w) \/ Complete(w)
  <2>1. /\ j.at \notin {"account", "licenses"}
        /\ \E row : Saves(w, row)
    BY <1>1 DEF SaveForm, SaveStep, PlaceExperience, Complete, Forms
  <2> QED BY <1>0, <2>1, SavesFiling
<1>b. ASSUME job' = [job EXCEPT ![w] = Idle], UNCHANGED <<licenses, requests>>,
             broker' = broker \/ ~broker.setup_completed
      PROVE  FilingInv' /\ SameRequests
  <2>1. \A v \in Workers : job'[v] = Idle
    BY <1>a, <1>b DEF TypeOK
  <2> QED BY <1>b, <2>1 DEF FilingInv, SameRequests
<1>2. CASE SendCode(w)
  <2>1. ~broker.setup_completed
    BY <1>a, <1>2 DEF FilingRequest, SendCode
  <2> QED BY <1>b, <1>2, <2>1 DEF SendCode
<1>3. CASE Killed(w)
  BY <1>b, <1>3 DEF Killed
<1>4. CASE FileAccount(w)
  <2>1. /\ requests.account = 0 /\ \A t \in LicenseTypes : requests.license[t] = 0
    BY <1>a, <1>4 DEF FileAccount, FilingRequest
  <2>2. requests'.account = 1 /\ \A t \in LicenseTypes : requests'.license[t] = 0
    BY <1>4, <2>1 DEF FileAccount, TypeOK
  <2>3. FilesAccount
    BY <2>1, <2>2 DEF FilesAccount
  <2>4. UNCHANGED <<broker, licenses>> /\ StillToFile(w, licenses) /\ broker.setup_completed
    BY <1>a, <1>4 DEF FileAccount, StillToFile, FreshRequest, Forms
  <2>5. /\ \A v \in Workers \ {w} : job'[v] = Idle
        /\ job'[w] = Idle \/ (job'[w].at = "licenses" /\ job'[w].left = licenses)
    BY <1>a, <2>4 DEF StillToFile, TypeOK, Jobs
  <2>6. licenses \subseteq LicenseTypes
    BY DEF TypeOK
  <2>7. ASSUME NEW v \in Workers, job'[v] # Idle
        PROVE  FilingRequest(v)'
    BY <2>2, <2>4, <2>5, <2>6, <2>7 DEF FilingRequest
  <2> QED BY <2>2, <2>3, <2>4, <2>7 DEF FilingInv
<1>5. ASSUME NEW t \in LicenseTypes, FileLicense(w, t)
      PROVE  FilingInv' /\ FilesLicense(t)
  <2>1. /\ j.at = "licenses" /\ t \in j.left /\ requests.account = 1
        /\ j.left \subseteq licenses /\ \A u \in j.left : requests.license[u] = 0
    BY <1>a, <1>5 DEF FileLicense, FilingRequest
  <2>2. /\ requests'.account = 1 /\ requests'.license[t] = 1
        /\ \A u \in LicenseTypes \ {t} : requests'.license[u] = requests.license[u]
    BY <1>5, <2>1 DEF FileLicense, TypeOK
  <2>3. FilesLicense(t)
    BY <2>1, <2>2 DEF FilesLicense
  <2>4. /\ UNCHANGED <<broker, licenses>> /\ StillToFile(w, j.left \ {t})
        /\ broker.setup_completed
    BY <1>a, <1>5, <2>1 DEF FileLicense, StillToFile, FreshRequest, Forms
  <2>5. /\ \A v \in Workers \ {w} : job'[v] = Idle
        /\ job'[w] = Idle \/ (job'[w].at = "licenses" /\ job'[w].left = j.left \ {t})
    BY <1>a, <2>4 DEF StillToFile, TypeOK, Jobs
  <2>6. ASSUME NEW v \in Workers, job'[v] # Idle
        PROVE  FilingRequest(v)'
    <3>1. v = w /\ job'[v].at = "licenses" /\ job'[v].left = j.left \ {t}
      BY <2>5, <2>6
    <3>2. \A u \in j.left \ {t} : requests'.license[u] = 0
      BY <1>a, <2>1, <2>2
    <3> QED BY <2>1, <2>2, <2>4, <3>1, <3>2 DEF FilingRequest
  <2>7. \A u \in LicenseTypes :
          /\ requests'.license[u] \in {0, 1}
          /\ requests'.license[u] = 1 => u \in licenses'
    BY <2>1, <2>2, <2>4 DEF FilingInv
  <2> QED BY <2>2, <2>3, <2>4, <2>6, <2>7 DEF FilingInv
<1> QED BY <1>1, <1>2, <1>3, <1>4, <1>5 DEF Serve

LEMMA FilingStep ==
    ASSUME MaxStale = 0, TypeOK, Fresh, Fresh', FilingInv, [Next]_vars
    PROVE  /\ FilingInv'
           /\ SameRequests \/ FilesAccount \/ \E t \in LicenseTypes : FilesLicense(t)
<1> USE StepNames
<1>0. FreshInv
  BY FreshSame
<1>a. ASSUME NEW p \in steps, Sends(p), UNCHANGED job,
             requests' = requests \/ \E types : requests' = Withdrawn(types)
      PROVE  FilingInv' /\ SameRequests
  <2>1. ~broker.setup_completed /\ \A w \in Workers : job[w] = Idle
    BY <1>0, <1>a, SentFromStep
  <2> QED BY <1>a, <2>1, FilingOpen
<1>1. CASE Edit
  <2>1. (\A w \in Workers : job[w] = Idle) /\ UNCHANGED <<broker, job>>
    BY <1>1, AskedIdle DEF Edit
  <2>2. CASE broker.setup_completed
    <3>1. UNCHANGED <<licenses, requests>>
      BY <1>1, <2>2 DEF Edit
    <3> QED BY <2>1, <3>1 DEF FilingInv, SameRequests
  <2>3. CASE ~broker.setup_completed
    <3>1. requests' = requests \/ \E types : requests' = Withdrawn(types)
      BY <1>1 DEF Edit, SyncLicenses
    <3> QED BY <2>1, <2>3, <3>1, FilingOpen
  <2> QED BY <2>2, <2>3
<1>2. ASSUME NEW t \in LicenseTypes, NEW ok \in BOOLEAN, UploadLicense(t, ok)
      PROVE  FilingInv' /\ SameRequests
  <2>1. /\ Sends(license_info_4) /\ UNCHANGED job
        /\ requests' = requests \/ \E types : requests' = Withdrawn(types)
    BY <1>2 DEF UploadLicense, Rejects, SyncLicenses
  <2> QED BY <1>a, <2>1
<1>3. ASSUME NEW t \in LicenseTypes, RemoveLicense(t)
      PROVE  FilingInv' /\ SameRequests
  <2>1. Sends(license_info_4) /\ UNCHANGED job /\ \E types : requests' = Withdrawn(types)
    BY <1>3 DEF RemoveLicense
  <2> QED BY <1>a, <2>1
<1>4. ASSUME NEW w \in Workers, Receive(w)
      PROVE  FilingInv' /\ SameRequests
  <2>1. PICK p \in steps :
          /\ Sends(p)
          /\ \/ Rejects(p)
             \/ \E b, at : Begins(w, b, at) /\ FreshRow(b, at)
    BY <1>0, <1>4, FreshShape
  <2>2. CASE Rejects(p)
    <3>1. UNCHANGED job /\ (requests' = requests \/ \E types : requests' = Withdrawn(types))
      BY <2>2 DEF Rejects, SyncLicenses
    <3> QED BY <1>a, <2>1, <3>1
  <2>3. CASE ~Rejects(p)
    <3>1. PICK b, at : Begins(w, b, at) /\ FreshRow(b, at)
      BY <2>1, <2>3
    <3>2. ~broker.setup_completed /\ \A v \in Workers : job[v] = Idle
      BY <1>0, <2>1, SentFromStep
    <3>3. UNCHANGED <<broker, requests>> /\ \A v \in Workers : job'[v] # Idle => job'[v].at = at
      BY <3>1, <3>2 DEF Begins, TypeOK
    <3>4. at \notin {"account", "licenses"}
      BY <3>1 DEF FreshRow, Forms
    <3> QED BY <3>2, <3>3, <3>4, FilingOpen
  <2> QED BY <2>2, <2>3
<1>5. ASSUME NEW w \in Workers, Serve(w) \/ Killed(w)
      PROVE  /\ FilingInv'
             /\ SameRequests \/ FilesAccount \/ \E t \in LicenseTypes : FilesLicense(t)
  BY <1>5, ServeFiling
<1>6. CASE UNCHANGED vars
  BY <1>6 DEF vars, FilingInv, FilingRequest, SameRequests
<1> QED BY <1>1, <1>2, <1>3, <1>4, <1>5, <1>6 DEF Next

LEMMA InitFiling == Init => FilingInv
BY DEF Init, FilingInv

LEMMA FilingAlways ==
    ASSUME MaxStale = 0
    PROVE  Spec => [](TypeOK /\ Fresh /\ FilingInv)
<1>1. TypeOK /\ Fresh /\ Fresh' /\ FilingInv /\ [Next]_vars => FilingInv'
  BY FilingStep
<1> QED BY <1>1, InitFiling, FreshAlways, PTL DEF Spec

\* The registration of a broker who waits for his answers implements module Application:
\* it is filed once and each licence attached once, although every request is a commit
\* of its own, whether or not a worker is killed between two of them (`update').
THEOREM RegistrationImplementsApplication ==
    ASSUME MaxStale = 0
    PROVE  Spec => ImplementsApplication
<1> DEFINE Inv == TypeOK /\ Fresh /\ FilingInv
<1>1. Init => Under!Init
  BY DEF Init, Under!Init
<1>2. Inv /\ Fresh' /\ [Next]_vars => [Under!Next]_(Under!vars)
  <2> SUFFICES ASSUME Inv, Fresh', [Next]_vars PROVE [Under!Next]_(Under!vars)
    OBVIOUS
  <2>1. CASE SameRequests
    BY <2>1 DEF SameRequests, Under!vars
  <2>2. CASE FilesAccount
    <3>1. Under!File
      BY <2>2 DEF FilesAccount, Under!File
    <3> QED BY <3>1 DEF Under!Next
  <2>3. ASSUME NEW t \in LicenseTypes, FilesLicense(t)
        PROVE  [Under!Next]_(Under!vars)
    <3>1. {u \in LicenseTypes : requests'.license[u] > 0} =
            {u \in LicenseTypes : requests.license[u] > 0} \union {t}
      BY <2>3 DEF FilesLicense
    <3>2. t \notin {u \in LicenseTypes : requests.license[u] > 0}
      BY <2>3 DEF FilesLicense
    <3>3. Under!Attach(t)
      BY <2>3, <3>1, <3>2 DEF FilesLicense, Under!Attach
    <3> QED BY <3>3 DEF Under!Next
  <2> QED BY <2>1, <2>2, <2>3, FilingStep
<1> HIDE DEF Inv
<1>3. Spec => [](Inv /\ Fresh)
  BY FilingAlways, PTL DEF Inv
<1> QED BY <1>1, <1>2, <1>3, PTL DEF Spec, ImplementsApplication, Under!Spec

\* What a submission that is not cut short has filed in the end.
AllFiled ==
    /\ broker.setup_completed /\ (\A w \in Workers : job[w] = Idle) =>
         requests.account = 1 /\ \A t \in licenses : requests.license[t] = 1
    /\ \A w \in Workers : job[w].at = "licenses" =>
         \A t \in licenses \ job[w].left : requests.license[t] = 1

\* A step after which the registration is not submitted, or whose request goes on to file.
LEMMA AllFiledOpen ==
    ASSUME \A w \in Workers : job'[w].at # "licenses",
           ~broker'.setup_completed \/ \E w \in Workers : job'[w].at = "account"
    PROVE  AllFiled'
BY DEF AllFiled, Idle

LEMMA ServeAllFiled ==
    ASSUME ~Faults, TypeOK, Fresh, FilingInv, AllFiled, NEW w \in Workers, Serve(w)
    PROVE  AllFiled'
<1> DEFINE j == job[w]
<1>0. j # Idle /\ j.at # "none"
  BY JobType DEF Serve, SaveForm, SaveStep, SendCode, PlaceExperience, Complete,
                 FileAccount, FileLicense, Forms
<1>a. /\ FreshRequest(w) /\ FilingRequest(w) /\ j \in Jobs /\ j.row \in Rows
      /\ broker \in Rows /\ licenses \subseteq LicenseTypes
      /\ \A v \in Workers \ {w} : job[v] = Idle
      /\ j.left \in SUBSET LicenseTypes
  BY <1>0, JobType DEF Fresh, FilingInv, FreshRequest, TypeOK
<1>i. Idle.at = "none"
  BY DEF Idle
<1>b. ASSUME NEW row \in Rows, Saves(w, row)
      PROVE  /\ broker' = row
             /\ \A v \in Workers \ {w} : job'[v] = Idle
             /\ job'[w].at = following(j.at)
  BY <1>a, <1>b, <1>i, WrittenType DEF Saves, FreshRequest, TypeOK, Jobs
<1>c. following(j.at) # "licenses"
  BY DEF following
<1>d. ASSUME NEW row \in Rows, Saves(w, row),
             ~row.setup_completed \/ following(j.at) = "account"
      PROVE  AllFiled'
  BY <1>b, <1>c, <1>d, <1>i, AllFiledOpen
<1>e. j.at \notin {"account", "licenses"} => ~j.row.setup_completed
  BY <1>a DEF FreshRequest
<1>1. CASE SaveForm(w)
  BY <1>1, <1>a, <1>d, <1>e DEF SaveForm, Forms
<1>2. CASE SaveStep(w)
  <2> DEFINE row == [j.row EXCEPT !.step = next_step(j.row.step)]
  <2>1. row \in Rows /\ row.setup_completed = j.row.setup_completed
    BY <1>a, StageRows DEF Rows
  <2>2. j.at = "step" /\ Saves(w, row)
    BY <1>2 DEF SaveStep
  <2> HIDE DEF row
  <2> QED BY <1>d, <1>e, <2>1, <2>2
<1>3. CASE SendCode(w)
  <2>1. /\ j.at = "mail" /\ job' = [job EXCEPT ![w] = Idle]
    BY <1>3 DEF SendCode
  <2>2. j.row = broker /\ ~broker.setup_completed
    BY <1>a, <2>1 DEF FreshRequest, Forms
  <2> DEFINE row == [broker EXCEPT !.email_authen = FALSE]
  <2>3. broker' = broker \/ broker' = [Written(broker, row) EXCEPT !.token = broker.email]
    BY <1>3, <2>2 DEF SendCode
  <2>4. row \in Rows /\ Written(broker, row) = row
    BY <1>a, StageRows, WrittenType
  <2>5. ~broker'.setup_completed
    BY <1>a, <2>2, <2>3, <2>4 DEF Rows
  <2>6. \A v \in Workers : job'[v] = Idle
    BY <1>a, <2>1 DEF TypeOK
  <2> QED BY <1>i, <2>5, <2>6, AllFiledOpen
<1>4. CASE PlaceExperience(w)
  <2> DEFINE row == [j.row EXCEPT !.current_experience = TRUE]
  <2>1. row \in Rows /\ row.setup_completed = j.row.setup_completed
    BY <1>a, StageRows DEF Rows
  <2>2. j.at = "experience" /\ Saves(w, row)
    BY <1>4 DEF PlaceExperience
  <2> HIDE DEF row
  <2> QED BY <1>d, <1>e, <2>1, <2>2
<1>5. CASE Complete(w)
  <2>1. following(j.at) = "account"
    BY <1>5 DEF Complete, following
  <2> QED BY <1>5, <1>a, <1>d, <2>1, StageRows DEF Complete
<1>6. CASE FileAccount(w)
  <2>1. requests'.account = 1 /\ UNCHANGED licenses /\ StillToFile(w, licenses)
    BY <1>a, <1>6 DEF FileAccount, FilingRequest, StillToFile, TypeOK
  <2>2. \A v \in Workers \ {w} : job'[v] = Idle
    BY <1>a, <2>1 DEF StillToFile
  <2>3. CASE licenses = {}
    <3>1. job'[w] = Idle
      BY <2>1, <2>3 DEF StillToFile, TypeOK
    <3> QED BY <1>i, <2>1, <2>2, <2>3, <3>1 DEF AllFiled
  <2>4. CASE licenses # {}
    <3>1. job'[w].at = "licenses" /\ job'[w].left = licenses
      BY <1>a, <2>1, <2>4 DEF StillToFile, TypeOK, Jobs
    <3> QED BY <1>i, <2>1, <2>2, <3>1 DEF AllFiled
  <2> QED BY <2>3, <2>4
<1>7. ASSUME NEW t \in LicenseTypes, FileLicense(w, t)
      PROVE  AllFiled'
  <2>1. /\ j.at = "licenses" /\ t \in j.left /\ requests.account = 1
        /\ requests.license[t] = 0 /\ UNCHANGED licenses /\ StillToFile(w, j.left \ {t})
    BY <1>a, <1>7 DEF FileLicense, FilingRequest, StillToFile
  <2>2. /\ requests'.account = 1 /\ requests'.license[t] = 1
        /\ \A u \in LicenseTypes \ {t} : requests'.license[u] = requests.license[u]
    BY <1>7, <2>1 DEF FileLicense, TypeOK
  <2>3. \A u \in licenses \ (j.left \ {t}) : requests'.license[u] = 1
    <3>1. \A u \in licenses \ j.left : requests.license[u] = 1
      BY <2>1 DEF AllFiled
    <3> QED BY <1>a, <2>2, <3>1
  <2>4. \A v \in Workers \ {w} : job'[v] = Idle
    BY <1>a, <2>1 DEF StillToFile
  <2>5. CASE j.left \ {t} = {}
    <3>1. job'[w] = Idle
      BY <2>1, <2>5 DEF StillToFile, TypeOK
    <3>2. \A u \in licenses : requests'.license[u] = 1
      BY <2>3, <2>5
    <3> QED BY <1>i, <2>1, <2>2, <2>4, <3>1, <3>2 DEF AllFiled
  <2>6. CASE j.left \ {t} # {}
    <3>1. job'[w].at = "licenses" /\ job'[w].left = j.left \ {t}
      BY <1>a, <2>1, <2>6 DEF StillToFile, TypeOK, Jobs
    <3> QED BY <1>i, <2>1, <2>3, <2>4, <3>1 DEF AllFiled
  <2> QED BY <2>5, <2>6
<1> QED BY <1>1, <1>2, <1>3, <1>4, <1>5, <1>6, <1>7 DEF Serve

LEMMA AllFiledStep ==
    ASSUME MaxStale = 0, ~Faults, TypeOK, Fresh, FilingInv, AllFiled, [Next]_vars
    PROVE  AllFiled'
<1> USE StepNames
<1>0. FreshInv
  BY FreshSame
<1>i. Idle.at = "none"
  BY DEF Idle
<1>a. ASSUME NEW p \in steps, Sends(p), UNCHANGED <<broker, job>>
      PROVE  AllFiled'
  <2>1. ~broker.setup_completed /\ \A w \in Workers : job[w] = Idle
    BY <1>0, <1>a, SentFromStep
  <2> QED BY <1>a, <1>i, <2>1, AllFiledOpen
<1>1. CASE Edit
  <2>1. (\A w \in Workers : job[w] = Idle) /\ UNCHANGED <<broker, job>>
    BY <1>1, AskedIdle DEF Edit
  <2>2. CASE broker.setup_completed
    <3>1. UNCHANGED <<licenses, requests>>
      BY <1>1, <2>2 DEF Edit
    <3> QED BY <2>1, <3>1 DEF AllFiled
  <2>3. CASE ~broker.setup_completed
    BY <1>i, <2>1, <2>3, AllFiledOpen
  <2> QED BY <2>2, <2>3
<1>2. ASSUME NEW t \in LicenseTypes, NEW ok \in BOOLEAN, UploadLicense(t, ok)
      PROVE  AllFiled'
  <2>1. Sends(license_info_4) /\ UNCHANGED <<broker, job>>
    BY <1>2 DEF UploadLicense, Rejects
  <2> QED BY <1>a, <2>1
<1>3. ASSUME NEW t \in LicenseTypes, RemoveLicense(t)
      PROVE  AllFiled'
  BY <1>3, <1>a DEF RemoveLicense
<1>4. ASSUME NEW w \in Workers, Receive(w)
      PROVE  AllFiled'
  <2>1. PICK p \in steps :
          /\ Sends(p)
          /\ \/ Rejects(p)
             \/ \E b, at : Begins(w, b, at) /\ FreshRow(b, at)
    BY <1>0, <1>4, FreshShape
  <2>2. CASE Rejects(p)
    BY <1>a, <2>1, <2>2 DEF Rejects
  <2>3. CASE ~Rejects(p)
    <3>1. PICK b, at : Begins(w, b, at) /\ FreshRow(b, at)
      BY <2>1, <2>3
    <3>2. ~broker.setup_completed /\ \A v \in Workers : job[v] = Idle
      BY <1>0, <2>1, SentFromStep
    <3>3. UNCHANGED broker /\ \A v \in Workers : job'[v].at \in {"none", at}
      BY <1>i, <3>1, <3>2 DEF Begins, TypeOK
    <3>4. at # "licenses"
      BY <3>1 DEF FreshRow, Forms
    <3> QED BY <3>2, <3>3, <3>4, AllFiledOpen
  <2> QED BY <2>2, <2>3
<1>5. ASSUME NEW w \in Workers, Serve(w)
      PROVE  AllFiled'
  BY <1>5, ServeAllFiled
<1>6. CASE UNCHANGED vars
  BY <1>6 DEF vars, AllFiled
<1> QED BY <1>1, <1>2, <1>3, <1>4, <1>5, <1>6 DEF Next, Killed

\* A submission whose worker is not killed files one request for the account and one for
\* each licence, and nothing else files any (broker_requests.create in `update').
THEOREM OneApplicationFiled ==
    ASSUME MaxStale = 0, ~Faults
    PROVE  Spec => []OneApplication
<1>1. Init => AllFiled
  <2> SUFFICES ASSUME Init PROVE AllFiled
    OBVIOUS
  <2>1. ~broker.setup_completed /\ \A w \in Workers : job[w] = Idle
    BY DEF Init, NewBroker
  <2> QED BY <2>1 DEF AllFiled, Idle
<1>2. TypeOK /\ Fresh /\ FilingInv /\ AllFiled /\ [Next]_vars => AllFiled'
  BY AllFiledStep
<1>3. FilingInv /\ AllFiled => OneApplication
  BY DEF FilingInv, AllFiled, OneApplication
<1> QED BY <1>1, <1>2, <1>3, FilingAlways, PTL DEF Spec

\* Only the broker's own removal destroys a licence whose type is selected: what
\* Broker#add_or_remove_license destroys is not selected any more, however a broker who
\* waits for his answers goes back and forth.
THEOREM SelectedStay ==
    ASSUME MaxStale = 0
    PROVE  Spec => SelectedLicensesKept
<1>1. TypeOK /\ [Next]_vars =>
        [undo' = undo => licenses \intersect broker.license_type \subseteq licenses']_vars
  <2> SUFFICES ASSUME TypeOK, Next, undo' = undo
               PROVE  licenses \intersect broker.license_type \subseteq licenses'
    BY DEF vars
  <2> DEFINE Kept == licenses \intersect broker.license_type \subseteq licenses'
  <2>1. SyncLicenses => Kept
    BY DEF SyncLicenses, add_or_remove_license
  <2>2. \A p : Rejects(p) => Kept
    BY <2>1 DEF Rejects
  <2>3. Edit => Kept
    BY <2>1 DEF Edit
  <2>4. ASSUME NEW t \in LicenseTypes, NEW ok \in BOOLEAN, UploadLicense(t, ok)
        PROVE  Kept
    BY <2>1, <2>2, <2>4 DEF UploadLicense
  <2>5. ASSUME NEW t \in LicenseTypes, RemoveLicense(t)
        PROVE  Kept
    <3>1. undo \in Nat
      <4>1. undo \in 0..MaxUndo /\ MaxUndo \in Nat
        BY ConstantsAssumption DEF TypeOK
      <4> QED BY <4>1
    <3> QED BY <2>5, <3>1 DEF RemoveLicense, Undoes
  <2>6. ASSUME NEW w \in Workers, Receive(w)
        PROVE  Kept
    BY <2>2, <2>6, ReceiveShape DEF Begins
  <2>7. ASSUME NEW w \in Workers, Serve(w) \/ Killed(w)
        PROVE  Kept
    BY <2>7 DEF Serve, SaveForm, SaveStep, SendCode, PlaceExperience, Complete, Saves,
                FileAccount, FileLicense, StillToFile, Killed
  <2> HIDE DEF Kept
  <2>8. Kept
    BY <2>3, <2>4, <2>5, <2>6, <2>7 DEF Next
  <2> QED BY <2>8 DEF Kept
<1> QED BY <1>1, TypeCorrect, PTL DEF Spec, SelectedLicensesKept

-----------------------------------------------------------------------------
(***************************************************************************)
(* Several workers at once, stale forms and requests cut short             *)
(***************************************************************************)

\* What a save leaves of a column: the worker's value or the one in the table; a flag
\* that the worker only ever raises is not lowered.
LEMMA WrittenColumns ==
    ASSUME broker \in Rows, NEW old \in Rows, NEW new \in Rows
    PROVE  /\ Written(old, new).step \in {new.step, broker.step}
           /\ Written(old, new).setup_completed =
                IF new.setup_completed # old.setup_completed
                THEN new.setup_completed ELSE broker.setup_completed
           /\ Written(old, new).id_image =
                IF new.id_image # old.id_image THEN new.id_image ELSE broker.id_image
BY DEF Written, Rows

\* What a commit of the row does to the table, the other jobs and its own.
LEMMA SavesEffect ==
    ASSUME TypeOK, NEW w \in Workers, job[w] # Idle, NEW row \in Rows, Saves(w, row)
    PROVE  LET j == job[w] IN
           /\ broker'.step \in {row.step, broker.step}
           /\ broker'.setup_completed = IF row.setup_completed # j.loaded.setup_completed
                                        THEN row.setup_completed ELSE broker.setup_completed
           /\ broker'.id_image = IF row.id_image # j.loaded.id_image
                                 THEN row.id_image ELSE broker.id_image
           /\ \A v \in Workers \ {w} : job'[v] = job[v]
           /\ \/ job'[w] = Idle
              \/ /\ job'[w].at = following(j.at) /\ following(j.at) # "none"
                 /\ job'[w].loaded = row /\ job'[w].row = row
           /\ UNCHANGED <<licenses, requests, page, held>>
<1>1. job[w] \in Jobs /\ job[w].loaded \in Rows
  BY JobType
<1>2. broker' = Written(job[w].loaded, row) /\ broker \in Rows
  BY DEF Saves, TypeOK
<1>3. /\ \A v \in Workers \ {w} : job'[v] = job[v]
      /\ \/ job'[w] = Idle
         \/ /\ job'[w].at = following(job[w].at) /\ following(job[w].at) # "none"
            /\ job'[w].loaded = row /\ job'[w].row = row
  BY <1>1 DEF Saves, TypeOK, Jobs
<1> QED BY <1>1, <1>2, <1>3, WrittenColumns DEF Saves

\* A submission under way: nothing is filed before the flag is stored.
OrderRequest(w) ==
    LET j == job[w] IN
    /\ j.loaded.setup_completed => j.row.setup_completed
    /\ j.row.setup_completed => broker.setup_completed
    /\ j.at = "account" => broker.setup_completed
    /\ j.at = "licenses" => requests.account > 0

OrderInv ==
    /\ FiledInOrder
    /\ \A w \in Workers : job[w] # Idle => OrderRequest(w)

\* Steps that leave the row alone and withdraw at most requests of licences.
LEMMA OrderFrame ==
    ASSUME TypeOK, OrderInv, UNCHANGED <<broker, job>>,
           requests' = requests \/ \E types : requests' = Withdrawn(types)
    PROVE  OrderInv'
<1>1. /\ requests'.account = requests.account
      /\ \A t \in LicenseTypes : requests'.license[t] > 0 => requests.license[t] > 0
  <2>1. ASSUME NEW types, requests' = Withdrawn(types)
        PROVE  /\ requests'.account = requests.account
               /\ \A t \in LicenseTypes : requests'.license[t] > 0 => requests.license[t] > 0
    <3>1. \A t \in LicenseTypes :
            requests'.license[t] = IF t \in types /\ requests.license[t] > 0
                                   THEN requests.license[t] - 1 ELSE requests.license[t]
      BY <2>1 DEF Withdrawn, TypeOK
    <3>2. requests'.account = requests.account
      BY <2>1 DEF Withdrawn, TypeOK
    <3> QED BY <3>1, <3>2
  <2> QED BY <2>1
<1>2. FiledInOrder'
  BY <1>1 DEF OrderInv, FiledInOrder
<1> QED BY <1>1, <1>2 DEF OrderInv, OrderRequest

\* A commit of the row keeps the order, and the flag stored.
LEMMA SavesOrder ==
    ASSUME TypeOK, OrderInv, NEW w \in Workers, job[w] # Idle, NEW row \in Rows,
           Saves(w, row), job[w].row.setup_completed => row.setup_completed,
           row.setup_completed => job[w].row.setup_completed \/ job[w].at = "completed",
           following(job[w].at) = "account" => row.setup_completed
    PROVE  OrderInv'
<1>1. OrderRequest(w) /\ job[w].loaded \in Rows /\ row.setup_completed \in BOOLEAN
  BY JobType DEF OrderInv, Rows
<1>a. job[w].loaded.setup_completed \in BOOLEAN
  BY <1>1 DEF Rows
<1>2. broker.setup_completed => broker'.setup_completed
  BY <1>1, <1>a, SavesEffect DEF OrderRequest
<1>3. row.setup_completed => broker'.setup_completed
  BY <1>1, <1>a, SavesEffect DEF OrderRequest
<1>4. FiledInOrder'
  BY <1>2, SavesEffect DEF OrderInv, FiledInOrder
<1>5. ASSUME NEW v \in Workers, job'[v] # Idle
      PROVE  OrderRequest(v)'
  <2>1. CASE v = w
    <3>1. following(job[w].at) # "licenses"
      BY DEF following
    <3> QED BY <1>3, <1>5, <2>1, <3>1, SavesEffect DEF OrderRequest
  <2>2. CASE v # w
    <3>1. job'[v] = job[v] /\ UNCHANGED requests
      BY <2>2, SavesEffect
    <3> QED BY <1>2, <1>5, <3>1 DEF OrderInv, OrderRequest
  <2> QED BY <2>1, <2>2
<1> QED BY <1>4, <1>5 DEF OrderInv

LEMMA ServeOrder ==
    ASSUME TypeOK, OrderInv, NEW w \in Workers, Serve(w) \/ Killed(w)
    PROVE  OrderInv'
<1> DEFINE j == job[w]
<1>0. j # Idle
  BY JobType DEF Serve, SaveForm, SaveStep, SendCode, PlaceExperience, Complete,
                 FileAccount, FileLicense, Killed, Forms
<1>a. OrderRequest(w) /\ j \in Jobs /\ j.row \in Rows /\ broker \in Rows
  BY <1>0, JobType DEF OrderInv, TypeOK
<1>1. CASE SaveForm(w)
  <2>1. following(j.at) # "account" /\ Saves(w, j.row)
    BY <1>1 DEF SaveForm, following, Forms
  <2> QED BY <1>0, <1>a, <2>1, SavesOrder
<1>2. CASE SaveStep(w)
  <2> DEFINE row == [j.row EXCEPT !.step = next_step(j.row.step)]
  <2>1. row \in Rows /\ row.setup_completed = j.row.setup_completed
    BY <1>a, StageRows DEF Rows
  <2>2. Saves(w, row) /\ following(j.at) # "account"
    BY <1>2 DEF SaveStep, following
  <2> HIDE DEF row
  <2> QED BY <1>0, <2>1, <2>2, SavesOrder
<1>3. CASE PlaceExperience(w)
  <2> DEFINE row == [j.row EXCEPT !.current_experience = TRUE]
  <2>1. row \in Rows /\ row.setup_completed = j.row.setup_completed
    BY <1>a, StageRows DEF Rows
  <2>2. Saves(w, row) /\ following(j.at) # "account"
    BY <1>3 DEF PlaceExperience, following
  <2> HIDE DEF row
  <2> QED BY <1>0, <2>1, <2>2, SavesOrder
<1>4. CASE Complete(w)
  <2> DEFINE row == [j.row EXCEPT !.setup_completed = TRUE]
  <2>1. row \in Rows /\ row.setup_completed
    BY <1>a, StageRows DEF Rows
  <2>2. Saves(w, row) /\ j.at = "completed"
    BY <1>4 DEF Complete
  <2> HIDE DEF row
  <2> QED BY <1>0, <2>1, <2>2, SavesOrder
<1>b. ASSUME \A v \in Workers \ {w} : job'[v] = job[v], job'[w] = Idle,
             UNCHANGED requests, broker'.setup_completed = broker.setup_completed
      PROVE  OrderInv'
  <2>1. FiledInOrder'
    BY <1>b DEF OrderInv, FiledInOrder
  <2>2. ASSUME NEW v \in Workers, job'[v] # Idle
        PROVE  OrderRequest(v)'
    BY <1>b, <2>2 DEF OrderInv, OrderRequest
  <2> QED BY <2>1, <2>2 DEF OrderInv
<1>5. CASE SendCode(w)
  <2> DEFINE row == [j.row EXCEPT !.email_authen = FALSE]
  <2>1. row \in Rows /\ row.setup_completed = j.row.setup_completed
    BY <1>a, StageRows DEF Rows
  <2>2. /\ Written(j.row, row).setup_completed = broker.setup_completed
        /\ Written(j.row, row) \in Rows
    BY <1>a, <2>1, WrittenColumns, WrittenType
  <2>3. \/ broker' = [Written(j.row, row) EXCEPT !.token = j.row.email]
        \/ UNCHANGED broker
    BY <1>5 DEF SendCode
  <2> HIDE DEF row
  <2>4. broker'.setup_completed = broker.setup_completed
    BY <2>2, <2>3 DEF Rows
  <2>5. /\ \A v \in Workers \ {w} : job'[v] = job[v] /\ job'[w] = Idle
        /\ job'[w] = Idle /\ UNCHANGED requests
    BY <1>5 DEF SendCode, TypeOK
  <2> QED BY <1>b, <2>4, <2>5
<1>6. CASE Killed(w)
  BY <1>b, <1>6 DEF Killed, TypeOK
<1>c. ASSUME NEW types, StillToFile(w, types), requests'.account > 0,
             broker.setup_completed, requests.account > 0 => requests'.account > 0
      PROVE  OrderInv'
  <2>1. /\ UNCHANGED broker /\ \A v \in Workers \ {w} : job'[v] = job[v]
        /\ \/ job'[w] = Idle
           \/ /\ job'[w].at = "licenses" /\ job'[w].loaded = j.loaded
              /\ job'[w].row = j.row
    BY <1>a, <1>c DEF StillToFile, TypeOK, Jobs
  <2>2. FiledInOrder'
    BY <1>c, <2>1 DEF FiledInOrder
  <2>3. ASSUME NEW v \in Workers, job'[v] # Idle
        PROVE  OrderRequest(v)'
    <3>1. CASE v = w
      BY <1>a, <1>c, <2>1, <2>3, <3>1 DEF OrderRequest
    <3>2. CASE v # w
      BY <1>c, <2>1, <2>3, <3>2 DEF OrderInv, OrderRequest
    <3> QED BY <3>1, <3>2
  <2> QED BY <2>2, <2>3 DEF OrderInv
<1>7. CASE FileAccount(w)
  <2>1. requests.account \in Nat
    <3>1. requests.account \in 0..MaxSubmit /\ MaxSubmit \in Nat
      BY ConstantsAssumption DEF TypeOK
    <3> QED BY <3>1
  <2>2. requests'.account = requests.account + 1
    BY <1>7 DEF FileAccount, TypeOK
  <2>3. requests'.account > 0
    BY <2>1, <2>2
  <2> QED BY <1>7, <1>a, <1>c, <2>3 DEF FileAccount, OrderRequest
<1>8. ASSUME NEW t \in LicenseTypes, FileLicense(w, t)
      PROVE  OrderInv'
  <2>1. requests'.account = requests.account /\ requests.account > 0
    BY <1>8, <1>a DEF FileLicense, TypeOK, OrderRequest
  <2>2. broker.setup_completed
    BY <2>1 DEF OrderInv, FiledInOrder
  <2> QED BY <1>8, <1>c, <2>1, <2>2 DEF FileLicense
<1> QED BY <1>1, <1>2, <1>3, <1>4, <1>5, <1>6, <1>7, <1>8 DEF Serve

LEMMA OrderStep == TypeOK /\ OrderInv /\ [Next]_vars => OrderInv'
<1> SUFFICES ASSUME TypeOK, OrderInv, [Next]_vars PROVE OrderInv'
  OBVIOUS
<1>1. CASE Edit
  BY <1>1, OrderFrame DEF Edit, SyncLicenses
<1>2. ASSUME NEW t \in LicenseTypes, NEW ok \in BOOLEAN, UploadLicense(t, ok)
      PROVE  OrderInv'
  BY <1>2, OrderFrame DEF UploadLicense, Rejects, SyncLicenses
<1>3. ASSUME NEW t \in LicenseTypes, RemoveLicense(t)
      PROVE  OrderInv'
  BY <1>3, OrderFrame DEF RemoveLicense
<1>4. ASSUME NEW w \in Workers, Receive(w)
      PROVE  OrderInv'
  <2>1. PICK p \in steps : /\ Sends(p)
                           /\ \/ Rejects(p)
                              \/ \E b, at : Begins(w, b, at) /\ Accepted(p, b, at)
    BY <1>4, ReceiveShape
  <2>2. CASE Rejects(p)
    BY <2>2, OrderFrame DEF Rejects, SyncLicenses
  <2>3. CASE ~Rejects(p)
    <3>1. PICK b, at : Begins(w, b, at) /\ Accepted(p, b, at)
      BY <2>1, <2>3
    <3>2. /\ UNCHANGED <<broker, requests>> /\ \A v \in Workers \ {w} : job'[v] = job[v]
          /\ job'[w].at = at /\ job'[w].loaded = broker /\ job'[w].row = b
      BY <3>1 DEF Begins, TypeOK
    <3>3. FiledInOrder'
      BY <3>2 DEF OrderInv, FiledInOrder
    <3>4. ASSUME NEW v \in Workers, job'[v] # Idle
          PROVE  OrderRequest(v)'
      <4>1. CASE v = w
        BY <3>1, <3>2, <4>1 DEF OrderRequest, Accepted, Forms
      <4>2. CASE v # w
        BY <3>2, <3>4, <4>2 DEF OrderInv, OrderRequest
      <4> QED BY <4>1, <4>2
    <3> QED BY <3>3, <3>4 DEF OrderInv
  <2> QED BY <2>2, <2>3
<1>5. ASSUME NEW w \in Workers, Serve(w) \/ Killed(w)
      PROVE  OrderInv'
  BY <1>5, ServeOrder
<1>6. CASE UNCHANGED vars
  BY <1>6, OrderFrame DEF vars
<1> QED BY <1>1, <1>2, <1>3, <1>4, <1>5, <1>6 DEF Next

\* Requests are filed only of a completed registration, and those of licences only beside
\* that of the account, however many submissions are served at once, repeated or killed
\* (the order of the commits in `update').
THEOREM FiledAlwaysInOrder == Spec => []FiledInOrder
<1>1. Init => OrderInv
  BY DEF Init, OrderInv, FiledInOrder
<1>2. OrderInv => FiledInOrder
  BY DEF OrderInv
<1> QED BY <1>1, <1>2, OrderStep, TypeCorrect, PTL DEF Spec

\* As long as nobody goes back, whatever leads past the page of the ID was begun with an
\* ID stored, and none is taken away.
IdRequest(w) ==
    LET j == job[w] IN
    /\ j.loaded.id_image => j.row.id_image
    /\ j.row.step > 2 => broker.id_image
    /\ j.at \in {"next", "step"} /\ j.row.step = 2 => broker.id_image
    /\ j.at \in {"submit", "experience", "completed", "account", "licenses"} =>
         broker.id_image
    /\ j.row.setup_completed => broker.id_image

IdInv ==
    /\ broker.step > 2 => broker.id_image
    /\ broker.setup_completed => broker.id_image
    /\ page \in 3..8 => broker.id_image
    /\ \A p \in held : p > 2 => broker.id_image
    /\ \A w \in Workers : job[w] # Idle => IdRequest(w)

\* Steps that leave the row and the jobs alone and show no later page.
LEMMA IdFrame ==
    ASSUME TypeOK, IdInv, UNCHANGED <<broker, job>>, NEW p, Shows(p),
           p \in steps => p = broker.step
    PROVE  IdInv'
<1>1. broker.step \in 1..8 /\ steps = 1..8
  BY DEF TypeOK, Rows, steps, basic_info_1, term_of_use_8
<1>2. page' = p /\ \A q \in held' : q \in held \/ (q = p /\ q \in steps)
  BY DEF Shows
<1>3. page' \in 3..8 => broker'.id_image
  BY <1>1, <1>2 DEF IdInv
<1>4. \A q \in held' : q > 2 => broker'.id_image
  BY <1>1, <1>2 DEF IdInv
<1> QED BY <1>3, <1>4 DEF IdInv, IdRequest

LEMMA RejectsId ==
    ASSUME TypeOK, IdInv, NEW p, Rejects(p)
    PROVE  IdInv'
<1>1. UNCHANGED <<broker, job>> /\ \E q : Shows(q) /\ (q \in steps => q = broker.step)
  BY DEF Rejects, NoPage, steps, basic_info_1, term_of_use_8
<1> QED BY <1>1, IdFrame

\* A commit of the row.
LEMMA SavesId ==
    ASSUME TypeOK, IdInv, NEW w \in Workers, job[w] # Idle, NEW row \in Rows,
           Saves(w, row), row.id_image = job[w].row.id_image,
           row.step > 2 => broker.id_image,
           following(job[w].at) = "step" /\ row.step = 2 => broker.id_image,
           following(job[w].at) \in {"experience", "completed", "account"} => broker.id_image,
           row.setup_completed => broker.id_image
    PROVE  IdInv'
<1>1. IdRequest(w) /\ job[w].loaded \in Rows /\ row.id_image \in BOOLEAN
  BY JobType DEF IdInv, Rows
<1>a. job[w].loaded.id_image \in BOOLEAN
  BY <1>1 DEF Rows
<1>2. broker.id_image => broker'.id_image
  BY <1>1, <1>a, SavesEffect DEF IdRequest
<1>3. /\ broker'.step > 2 => broker'.id_image
      /\ broker'.setup_completed => broker'.id_image
  BY <1>2, SavesEffect DEF IdInv
<1>4. /\ page' \in 3..8 => broker'.id_image
      /\ \A p \in held' : p > 2 => broker'.id_image
  BY <1>2, SavesEffect DEF IdInv
<1>5. ASSUME NEW v \in Workers, job'[v] # Idle
      PROVE  IdRequest(v)'
  <2>1. CASE v = w
    <3>1. following(job[w].at) \notin {"next", "submit", "licenses"}
      BY DEF following
    <3> QED BY <1>2, <1>5, <2>1, <3>1, SavesEffect DEF IdRequest
  <2>2. CASE v # w
    <3>1. job'[v] = job[v]
      BY <2>2, SavesEffect
    <3> QED BY <1>2, <1>5, <3>1 DEF IdInv, IdRequest
  <2> QED BY <2>1, <2>2
<1> QED BY <1>3, <1>4, <1>5 DEF IdInv

LEMMA ServeId ==
    ASSUME TypeOK, IdInv, NEW w \in Workers, Serve(w) \/ Killed(w)
    PROVE  IdInv'
<1> DEFINE j == job[w]
<1>0. j # Idle
  BY JobType DEF Serve, SaveForm, SaveStep, SendCode, PlaceExperience, Complete,
                 FileAccount, FileLicense, Killed, Forms
<1>a. IdRequest(w) /\ j \in Jobs /\ j.row \in Rows /\ broker \in Rows /\ j.row.step \in 1..8
  BY <1>0, JobType DEF IdInv, TypeOK, Rows, steps, basic_info_1, term_of_use_8
<1>1. CASE SaveForm(w)
  <2>1. Saves(w, j.row) /\ j.at \in Forms
    BY <1>1 DEF SaveForm
  <2>2. /\ following(j.at) = "step" => j.at = "next"
        /\ following(j.at) = "experience" => j.at = "submit"
        /\ following(j.at) \notin {"completed", "account"}
    BY <2>1 DEF following, Forms
  <2> QED BY <1>0, <1>a, <2>1, <2>2, SavesId DEF IdRequest
<1>2. CASE SaveStep(w)
  <2> DEFINE row == [j.row EXCEPT !.step = next_step(j.row.step)]
  <2>1. /\ row \in Rows /\ row.setup_completed = j.row.setup_completed
        /\ row.id_image = j.row.id_image
        /\ row.step = IF j.row.step = 8 THEN 8 ELSE j.row.step + 1
    BY <1>a, StageRows DEF Rows, next_step, term_of_use_8
  <2>2. Saves(w, row) /\ following(j.at) = "none" /\ j.at = "step"
    BY <1>2 DEF SaveStep, following
  <2> HIDE DEF row
  <2>3. row.step > 2 => broker.id_image
    BY <1>a, <2>1, <2>2 DEF IdRequest
  <2> QED BY <1>0, <1>a, <2>1, <2>2, <2>3, SavesId DEF IdRequest
<1>3. CASE PlaceExperience(w)
  <2> DEFINE row == [j.row EXCEPT !.current_experience = TRUE]
  <2>1. row \in Rows /\ row.step = j.row.step /\ row.id_image = j.row.id_image
    BY <1>a, StageRows DEF Rows
  <2>2. Saves(w, row) /\ broker.id_image
    BY <1>a, <1>3 DEF PlaceExperience, IdRequest
  <2> HIDE DEF row
  <2> QED BY <1>0, <2>1, <2>2, SavesId
<1>4. CASE Complete(w)
  <2> DEFINE row == [j.row EXCEPT !.setup_completed = TRUE]
  <2>1. row \in Rows /\ row.step = j.row.step /\ row.id_image = j.row.id_image
    BY <1>a, StageRows DEF Rows
  <2>2. Saves(w, row) /\ broker.id_image
    BY <1>a, <1>4 DEF Complete, IdRequest
  <2> HIDE DEF row
  <2> QED BY <1>0, <2>1, <2>2, SavesId
<1>b. ASSUME \A v \in Workers \ {w} : job'[v] = job[v],
             job'[w] = Idle \/ (/\ job'[w].at = "licenses" /\ job'[w].loaded = j.loaded
                                /\ job'[w].row = j.row /\ broker.id_image),
             UNCHANGED <<page, held>>, broker'.step = broker.step,
             broker'.id_image = broker.id_image,
             broker'.setup_completed = broker.setup_completed
      PROVE  IdInv'
  <2>1. ASSUME NEW v \in Workers, job'[v] # Idle
        PROVE  IdRequest(v)'
    <3>1. CASE v = w
      BY <1>a, <1>b, <2>1, <3>1 DEF IdRequest
    <3>2. CASE v # w
      BY <1>b, <2>1, <3>2 DEF IdInv, IdRequest
    <3> QED BY <3>1, <3>2
  <2> QED BY <1>b, <2>1 DEF IdInv
<1>5. CASE SendCode(w)
  <2> DEFINE row == [j.row EXCEPT !.email_authen = FALSE]
  <2>1. /\ row \in Rows /\ row.setup_completed = j.row.setup_completed
        /\ row.step = j.row.step /\ row.id_image = j.row.id_image
    BY <1>a, StageRows DEF Rows
  <2>2. /\ Written(j.row, row).setup_completed = broker.setup_completed
        /\ Written(j.row, row).id_image = broker.id_image
        /\ Written(j.row, row).step = broker.step
        /\ Written(j.row, row) \in Rows
    <3>1. Written(j.row, row).step = broker.step
      BY <1>a, <2>1 DEF Written, Rows
    <3> QED BY <1>a, <2>1, <3>1, WrittenColumns, WrittenType
  <2>3. \/ broker' = [Written(j.row, row) EXCEPT !.token = j.row.email]
        \/ UNCHANGED broker
    BY <1>5 DEF SendCode
  <2> HIDE DEF row
  <2>4. /\ broker'.setup_completed = broker.setup_completed
        /\ broker'.id_image = broker.id_image /\ broker'.step = broker.step
    BY <2>2, <2>3 DEF Rows
  <2>5. /\ \A v \in Workers \ {w} : job'[v] = job[v]
        /\ job'[w] = Idle /\ UNCHANGED <<page, held>>
    BY <1>5 DEF SendCode, TypeOK
  <2> QED BY <1>b, <2>4, <2>5
<1>6. CASE Killed(w)
  BY <1>b, <1>6 DEF Killed, TypeOK
<1>7. ASSUME NEW types, StillToFile(w, types), j.at \in {"account", "licenses"}
      PROVE  IdInv'
  <2>1. broker.id_image
    BY <1>a, <1>7 DEF IdRequest
  <2>2. /\ UNCHANGED <<broker, page, held>> /\ \A v \in Workers \ {w} : job'[v] = job[v]
        /\ \/ job'[w] = Idle
           \/ /\ job'[w].at = "licenses" /\ job'[w].loaded = j.loaded
              /\ job'[w].row = j.row
    BY <1>a, <1>7 DEF StillToFile, TypeOK, Jobs
  <2> QED BY <1>b, <2>1, <2>2
<1>8. CASE FileAccount(w) \/ \E t \in LicenseTypes : FileLicense(w, t)
  BY <1>7, <1>8 DEF FileAccount, FileLicense
<1> QED BY <1>1, <1>2, <1>3, <1>4, <1>5, <1>6, <1>8 DEF Serve

LEMMA IdStep ==
    ASSUME MaxUndo = 0, TypeOK, IdInv, [Next]_vars
    PROVE  IdInv'
<1>0. /\ broker \in Rows /\ broker.step \in 1..8 /\ steps = 1..8 /\ undo = 0
      /\ NoPage \notin steps /\ Profile \notin steps /\ broker.id_image \in BOOLEAN
  BY DEF TypeOK, Rows, steps, basic_info_1, term_of_use_8, NoPage, Profile
<1>1. CASE Edit
  <2>1. UNCHANGED <<broker, job>> /\ \E p : Shows(p) /\ (p \in steps => p = broker.step)
    BY <1>0, <1>1 DEF Edit
  <2> QED BY <2>1, IdFrame
<1>2. ASSUME NEW t \in LicenseTypes, NEW ok \in BOOLEAN, UploadLicense(t, ok)
      PROVE  IdInv'
  <2>1. CASE Rejects(license_info_4)
    BY <2>1, RejectsId
  <2>2. CASE ~Rejects(license_info_4)
    <3>1. UNCHANGED <<broker, job>> /\ Shows(NoPage)
      BY <1>2, <2>2 DEF UploadLicense
    <3> QED BY <1>0, <3>1, IdFrame
  <2> QED BY <2>1, <2>2
<1>3. ASSUME NEW t \in LicenseTypes, RemoveLicense(t)
      PROVE  IdInv'
  BY <1>0, <1>3 DEF RemoveLicense, Undoes
<1>4. ASSUME NEW w \in Workers, Receive(w)
      PROVE  IdInv'
  <2>1. PICK p \in steps : /\ Sends(p)
                           /\ \/ Rejects(p)
                              \/ \E b, at : Begins(w, b, at) /\ Accepted(p, b, at)
    BY <1>4, ReceiveShape
  <2>2. CASE Rejects(p)
    BY <2>2, RejectsId
  <2>3. CASE ~Rejects(p)
    <3>1. PICK b, at : Begins(w, b, at) /\ Accepted(p, b, at)
      BY <2>1, <2>3
    <3>2. /\ UNCHANGED broker /\ \A v \in Workers \ {w} : job'[v] = job[v]
          /\ job'[w].at = at /\ job'[w].loaded = broker /\ job'[w].row = b
          /\ page' = NoPage /\ held' = held
      BY <1>0, <3>1 DEF Begins, TypeOK, Shows
    <3>3. undo' = undo
      BY <1>0, <3>1 DEF Accepted
    <3>4. /\ b.step = broker.step /\ (broker.id_image => b.id_image)
          /\ b.setup_completed = broker.setup_completed
          /\ at = "next" /\ broker.step = 2 => broker.id_image
          /\ at = "submit" => p = 8
      BY <3>1, <3>3 DEF Accepted, id_2, term_of_use_8
    <3>5. at = "submit" => broker.id_image
      <4>1. p = page \/ p \in held
        BY <2>1 DEF Sends
      <4> QED BY <3>4, <4>1 DEF IdInv
    <3>6. ASSUME NEW v \in Workers, job'[v] # Idle
          PROVE  IdRequest(v)'
      <4>1. CASE v = w
        <5>1. at \in Forms
          BY <3>1 DEF Accepted
        <5> QED BY <3>2, <3>4, <3>5, <4>1, <5>1 DEF IdRequest, IdInv, Forms
      <4>2. CASE v # w
        BY <3>2, <3>6, <4>2 DEF IdInv, IdRequest
      <4> QED BY <4>1, <4>2
    <3> QED BY <3>2, <3>6 DEF IdInv, NoPage
  <2> QED BY <2>2, <2>3
<1>5. ASSUME NEW w \in Workers, Serve(w) \/ Killed(w)
      PROVE  IdInv'
  BY <1>5, ServeId
<1>6. CASE UNCHANGED vars
  BY <1>6 DEF vars, IdInv, IdRequest
<1> QED BY <1>1, <1>2, <1>3, <1>4, <1>5, <1>6 DEF Next

\* A broker who never goes back has an ID stored once he is registered, whatever forms he
\* sends twice, from whatever tab, served by however many workers and wherever one of
\* them is killed (validates_presence_of :id_image in Broker, loaded and written apart).
THEOREM IdSurvives ==
    ASSUME MaxUndo = 0
    PROVE  Spec => []IdSurvivesRepeats
<1>1. Init => IdInv
  <2> SUFFICES ASSUME Init PROVE IdInv
    OBVIOUS
  <2>1. /\ broker.step = 1 /\ ~broker.setup_completed /\ page = 0 /\ held = {}
        /\ \A w \in Workers : job[w] = Idle
    BY DEF Init, NewBroker, basic_info_1, NoPage
  <2> QED BY <2>1 DEF IdInv
<1>2. TypeOK /\ IdInv /\ [Next]_vars => IdInv'
  BY IdStep
<1>3. IdInv => IdSurvivesRepeats
  BY DEF IdInv, IdSurvivesRepeats
<1> QED BY <1>1, <1>2, <1>3, TypeCorrect, PTL DEF Spec
=============================================================================
