------------------------- MODULE BrokerRegistration -------------------------
(***************************************************************************)
(* The eight-page registration of a financial representative ("broker"):   *)
(* SetupBrokersController with the validations and step functions of the   *)
(* Broker model, and the two LicensesController actions that page 4 uses.  *)
(*                                                                         *)
(* One broker row and its dependent rows are the database.  A handler that *)
(* writes the row is one action per commit: in the first one a worker      *)
(* loads the row and validates the form, and `job' is what it still has to *)
(* write.  Another worker may have written since.                          *)
(*                                                                         *)
(* The browser is the other actor: `page' is the page it shows, `held' are *)
(* the pages it was sent before and whose forms and links a double click,  *)
(* a second tab or the Back key can still send, while other requests are   *)
(* being served.  The form that arrives is therefore not always the form   *)
(* of the step the row is at, and it is the row's step that selects the    *)
(* validation.                                                             *)
(***************************************************************************)
EXTENDS Naturals, FiniteSets

CONSTANTS
    LicenseTypes,   \* Order::LICENSE_TYPES
    Emails,         \* the addresses a broker may enter
    Workers,        \* the workers that serve the broker's requests
    Faults,         \* may a request be cut short: mail refused, worker killed?
    MaxUndo,        \* bound: how often the broker goes back on something entered
    MaxStale,       \* bound: how often he sends a form of a page no longer shown, or
                    \*        asks for a page while a form is still being processed
    MaxSubmit       \* bound: how many applications are submitted

ASSUME ConstantsAssumption ==
    /\ IsFiniteSet(LicenseTypes)
    /\ LicenseTypes # {}
    /\ {"", "nil"} \intersect LicenseTypes = {}
    /\ Emails # {}
    /\ "" \notin Emails
    /\ Faults \in BOOLEAN
    /\ MaxUndo \in Nat /\ MaxStale \in Nat
    /\ MaxSubmit \in Nat \ {0}

VARIABLES
    broker,     \* the row of the brokers table
    licenses,   \* the license_type of each uploaded row of the licenses table
    requests,   \* the broker's rows of broker_requests, counted by kind
    job,        \* for each worker, the rest of the request being served
    page,       \* what the browser shows
    held,       \* the pages whose forms the browser can still send
    offered,    \* the licence types for which it holds an upload form of page 4
    confirmed,  \* the addresses whose owner answered a code, or the provider vouched for
    undo,       \* how many undo operations were used up
    stale       \* how many stale requests were

vars == <<broker, licenses, requests, job, page, held, offered, confirmed, undo, stale>>

-----------------------------------------------------------------------------
(***************************************************************************)
(* The steps, by their index in Broker#steps.  A row whose step is still   *)
(* nil behaves in every function as one at the first step.                 *)
(***************************************************************************)
basic_info_1      == 1
id_2              == 2
license_3         == 3
license_info_4    == 4
vehicle_5         == 5
statement_6       == 6
financial_story_7 == 7
term_of_use_8     == 8

steps == basic_info_1 .. term_of_use_8

\* What the browser may show besides the page of a step.
NoPage  == 0    \* a redirect under way, or the error page of a failed request
Profile == 9    \* the profile, where registration ends

\* An unselected checkbox list is nil until the form of page 3 is stored.  The
\* hidden field of that form adds an empty string to the boxes checked.
Blank == ""
NilSelection == {"nil"}
Selections == {NilSelection} \union SUBSET (LicenseTypes \union {Blank})

NoEmail == ""
Addresses == Emails \union {NoEmail}

\* Of a password the model keeps whether there is one, and whether it is the
\* one the broker chose or the digest of an empty field.
Passwords == {"none", "chosen", "blank"}

Rows == [step : steps,
         email : Addresses,
         email_authen : BOOLEAN,
         token : Addresses, \* where the current code was sent to
         uid : BOOLEAN,                    \* signed up with a provider
         password : Passwords,
         info : BOOLEAN,                   \* names, title and company are filled in
         id_image : BOOLEAN,
         license_type : Selections,
         products : BOOLEAN,               \* at least one vehicle
         story : BOOLEAN,                  \* at least one financial story
         check_term_of_use : BOOLEAN,
         current_experience : BOOLEAN,
         setup_completed : BOOLEAN]

\* What a worker is about to do: to commit a validated form, by the button that sent it,
\* or one of the commits that follow.  `loaded' is the row as it is in the worker's
\* memory since the last query or commit, `row' what becomes of it, `left' the licences
\* for which a request is still to be created.
Forms == {"save", "next", "send_validation", "submit"}
Idle  == [at |-> "none"]
Jobs  == [at : Forms \union {"step", "mail", "experience", "completed", "account", "licenses"},
          loaded : Rows, row : Rows, left : SUBSET LicenseTypes]

TypeOK ==
    /\ broker \in Rows
    /\ job \in [Workers -> {Idle} \union Jobs]
    /\ licenses \in SUBSET LicenseTypes
    /\ requests \in [account : 0..MaxSubmit, license : [LicenseTypes -> 0..MaxSubmit]]
    /\ page \in {NoPage, Profile} \union steps
    /\ held \in SUBSET steps
    /\ offered \in SUBSET LicenseTypes
    /\ confirmed \in SUBSET Emails
    /\ undo \in 0..MaxUndo
    /\ stale \in 0..MaxStale

-----------------------------------------------------------------------------
(***************************************************************************)
(* Sign-up creates the row: with a user name and a password, or from a     *)
(* provider.  Twitter passes on no address; of the other providers every   *)
(* row is called confirmed, also one that comes without an address.        *)
(***************************************************************************)
NewBroker(uid, email, email_authen) ==
    [step |-> basic_info_1, email |-> email, email_authen |-> email_authen,
     token |-> NoEmail, uid |-> uid,
     password |-> IF uid THEN "none" ELSE "chosen",
     info |-> FALSE, id_image |-> FALSE, license_type |-> NilSelection,
     products |-> FALSE, story |-> FALSE, check_term_of_use |-> FALSE,
     current_experience |-> FALSE, setup_completed |-> FALSE]

Init ==
    /\ \/ \E uid \in BOOLEAN : broker = NewBroker(uid, NoEmail, FALSE)
       \/ \E e \in Addresses : broker = NewBroker(TRUE, e, TRUE)
    /\ licenses = {}
    /\ requests = [account |-> 0, license |-> [t \in LicenseTypes |-> 0]]
    /\ job = [w \in Workers |-> Idle]
    /\ page = NoPage
    /\ held = {}
    /\ offered = {}
    /\ confirmed = {broker.email} \ {NoEmail}
    /\ undo = 0
    /\ stale = 0

-----------------------------------------------------------------------------
(***************************************************************************)
(* Broker#next_step and #prev_step.  The last step is its own successor;   *)
(* the predecessor of the first step is the last one.                      *)
(***************************************************************************)
next_step(s) == IF s = term_of_use_8 THEN s ELSE s + 1

prev_step(s) == IF s = basic_info_1 THEN term_of_use_8 ELSE s - 1

\* Broker#add_or_remove_license: the rows it builds for selected types are not
\* saved, the rows of types that are not selected any more are destroyed.
add_or_remove_nothing(sel) == licenses     \* mutant
add_or_remove_all(sel) == {}               \* mutant

add_or_remove_license(sel) == licenses \intersect sel

\* A license row is destroyed with the request that belongs to it, if there is one.
Withdrawn(types) ==
    [requests EXCEPT !.license = [t \in LicenseTypes |->
        IF t \in types /\ @[t] > 0 THEN @[t] - 1 ELSE @[t]]]

SyncLicenses ==
    /\ licenses' = add_or_remove_license(broker.license_type)
    /\ requests' = Withdrawn(licenses \ licenses')

(***************************************************************************)
(* The browser.  A form or link is sent from the page shown, and nothing   *)
(* else is done until it is answered.  A stale request is one from a page  *)
(* shown before, or for a page while others are being served.              *)
(***************************************************************************)
Stale ==
    /\ stale < MaxStale
    /\ stale' = stale + 1

Sends(p) ==
    \/ p = page /\ UNCHANGED stale
    \/ p # page /\ p \in held /\ Stale

Asks ==
    \/ (\A w \in Workers : job[w] = Idle) /\ UNCHANGED stale
    \/ (\E w \in Workers : job[w] # Idle) /\ Stale

Shows(p) ==
    /\ page' = p
    /\ held' = IF MaxStale > 0 /\ p \in steps THEN held \union {p} ELSE held
    /\ offered' = IF p # license_info_4 THEN offered
                  ELSE (broker.license_type \intersect LicenseTypes)
                         \union (IF MaxStale > 0 THEN offered ELSE {})

Undoes ==
    /\ undo < MaxUndo
    /\ undo' = undo + 1

-----------------------------------------------------------------------------
(***************************************************************************)
(* GET edit.  A registered broker is redirected to the profile.  At step 4 *)
(* the licences are brought in line with the selection, which raises when  *)
(* the selection is nil.  One step, as the request of a broker who waits   *)
(* for its page.                                                           *)
(***************************************************************************)
EditRaises ==
    /\ ~broker.setup_completed
    /\ broker.step = license_info_4
    /\ broker.license_type = NilSelection

Edit ==
    /\ Asks
    /\ Shows(CASE broker.setup_completed -> Profile
               [] EditRaises             -> NoPage
               [] OTHER                  -> broker.step)
    /\ IF broker.step = license_info_4 /\ ~broker.setup_completed /\ ~EditRaises
       THEN SyncLicenses
       ELSE UNCHANGED <<licenses, requests>>
    /\ UNCHANGED <<broker, job, confirmed, undo>>

\* The worker w has loaded the row and found nothing against storing b instead.
Begins(w, b, at) ==
    /\ job' = [job EXCEPT ![w] = [at |-> at, loaded |-> broker, row |-> b, left |-> {}]]
    /\ Shows(NoPage)
    /\ UNCHANGED <<broker, licenses, requests>>

(***************************************************************************)
(* PUT update with the button "Previous", which every page but the first   *)
(* has.  Nothing else of the form is used.                                 *)
(***************************************************************************)
Back(w, p) ==
    /\ job[w] = Idle
    /\ p # basic_info_1
    /\ Sends(p)
    /\ Undoes
    /\ Begins(w, [broker EXCEPT !.step = prev_step(@)], "save")
    /\ UNCHANGED confirmed

-----------------------------------------------------------------------------
(***************************************************************************)
(* The validations of Broker.  Those of StepValid are switched on by the   *)
(* flag that `update' sets for the step of the row, whatever form arrived; *)
(* b is the row after the assignment.  At step 4 a nil selection raises,   *)
(* which like a failed validation rolls the transaction back.              *)
(***************************************************************************)
check_licensetype_size(sel) == sel # {}    \* mutant

check_licensetype_not_empty(sel) == sel = NilSelection \/ sel \ {Blank} # {}

check_some_license_uploaded(sel) ==        \* mutant
    sel # NilSelection /\ licenses # {}

check_all_licenses_uploaded(sel) ==
    sel # NilSelection /\ Cardinality(licenses) = Cardinality(sel)

StepValidWithoutId(b, button) ==            \* mutant
    CASE broker.step = basic_info_1 ->
           /\ b.email # NoEmail
           /\ button # "send_validation" =>
                b.info /\ b.email = broker.email /\ b.email_authen
      [] broker.step = license_3      -> check_licensetype_not_empty(b.license_type)
      [] broker.step = license_info_4 -> check_all_licenses_uploaded(b.license_type)
      [] broker.step = term_of_use_8  -> b.check_term_of_use
      [] OTHER                        -> TRUE

StepValid(b, button) ==
    CASE broker.step = basic_info_1 ->
           /\ b.email # NoEmail
           /\ button # "send_validation" =>
                b.info /\ b.email = broker.email /\ b.email_authen
      [] broker.step = id_2           -> b.id_image
      [] broker.step = license_3      -> check_licensetype_not_empty(b.license_type)
      [] broker.step = license_info_4 -> check_all_licenses_uploaded(b.license_type)
      [] broker.step = vehicle_5      -> b.products
      [] broker.step = term_of_use_8  -> b.check_term_of_use
      [] OTHER                        -> TRUE

\* The row as `update' saves it: at step 3 the empty string is dropped.
SavedWithBlank(b) == b     \* mutant

Saved(b) ==
    IF broker.step = license_3 /\ b.license_type # NilSelection
    THEN [b EXCEPT !.license_type = @ \ {Blank}]
    ELSE b

(***************************************************************************)
(* A failed `update' renders the page of the row's step, with an error     *)
(* message.  For the form of page 4 the licences are synchronised first;   *)
(* for other forms page 4 cannot be rendered, @licenses being nil.         *)
(***************************************************************************)
Rejects(p) ==
    /\ IF p = license_info_4
       THEN IF broker.license_type = NilSelection
            THEN Shows(NoPage) /\ UNCHANGED <<licenses, requests>>
            ELSE Shows(broker.step) /\ SyncLicenses
       ELSE /\ Shows(IF broker.step = license_info_4 THEN NoPage ELSE broker.step)
            /\ UNCHANGED <<licenses, requests>>
    /\ UNCHANGED <<broker, job, confirmed, undo>>

-----------------------------------------------------------------------------
(***************************************************************************)
(* PUT update of the form of page p.  b is the row after the mass          *)
(* assignment, `valid' whether it is accepted.  Inputs are the values the  *)
(* validations tell apart.                                                 *)
(***************************************************************************)
Update(w, p, b, at, valid) ==
    /\ job[w] = Idle
    /\ Sends(p)
    /\ \/ valid /\ Begins(w, Saved(b), at) /\ UNCHANGED <<confirmed, undo>>
       \/ ~valid /\ Rejects(p)

\* The button "Next"; formValid is what is validated of the form whenever it arrives.
UpdateNext(w, p, b, formValid) ==
    Update(w, p, b, "next", formValid /\ StepValid(b, "next"))

\* Page 1 has password fields for a broker who came from a provider.  Fields that
\* are not retyped arrive empty, and encrypt_password digests an empty string too.
BasicInfo(email, info, password) ==
    [broker EXCEPT !.email = email, !.info = info,
                   !.password = IF broker.uid THEN password ELSE @]

password_signup == broker.uid /\ broker.password = "none"

NextFromBasicInfo(w, email, info, password) ==
    UpdateNext(w, basic_info_1, BasicInfo(email, info, password),
               password_signup => password = "chosen")

\* The buttons of page 2 and page 4 send no field of the row.
NextFromId(w) == UpdateNext(w, id_2, broker, TRUE)

NextFromLicense(w, types) ==
    UpdateNext(w, license_3, [broker EXCEPT !.license_type = types \union {Blank}], TRUE)

NextFromLicenseInfo(w) == UpdateNext(w, license_info_4, broker, TRUE)

NextFromVehicle(w, some) == UpdateNext(w, vehicle_5, [broker EXCEPT !.products = some], TRUE)

\* Is the statement at most 150 characters long?
NextFromStatement(w, short) == UpdateNext(w, statement_6, broker, short)

\* Are all fields of the story filled in?
NextFromStory(w, filled) ==
    UpdateNext(w, financial_story_7, [broker EXCEPT !.story = TRUE], filled)

\* PUT update with "Upload" on page 2, with or without a file.
UploadId(w, file) ==
    LET b == [broker EXCEPT !.id_image = @ \/ file] IN
    Update(w, id_2, b, "save", StepValid(b, "upload_id"))

\* GET remove_id, the link that page 2 has once a file is stored.
RemoveId(w) ==
    /\ job[w] = Idle
    /\ Sends(id_2)
    /\ broker.id_image
    /\ Undoes
    /\ Begins(w, [broker EXCEPT !.id_image = FALSE], "save")
    /\ UNCHANGED confirmed

(***************************************************************************)
(* PUT update with "send validation code".  `update' commits the address   *)
(* first; evaluate_and_reset_email_authen clears email_authen in memory    *)
(* and send_email_confirmation saves it, with the new code, only after the *)
(* mail was handed over.  Mail to nobody is refused.  prev_email is nil    *)
(* unless the row is at the first step.                                    *)
(***************************************************************************)
evaluate_email_authen(b) == ~b.email_authen    \* mutant

evaluate_and_reset_email_authen(b) ==
    \/ ~b.email_authen
    \/ broker.step # basic_info_1
    \/ b.email # broker.email

SendValidation(w, email, info, password) ==
    LET form == BasicInfo(email, info, password)
        b    == Saved(form)
    IN
    /\ job[w] = Idle
    /\ Sends(basic_info_1)
    /\ IF StepValid(form, "send_validation")
       THEN /\ Begins(w, b, IF evaluate_and_reset_email_authen(b)
                            THEN "send_validation" ELSE "save")
            /\ IF broker.email \notin {NoEmail, email}
               THEN Undoes ELSE UNCHANGED undo
            /\ UNCHANGED confirmed
       ELSE Rejects(basic_info_1)

\* PUT update with "validate email" and the code last sent, or a wrong one.
ValidateEmail(w, right) ==
    /\ job[w] = Idle
    /\ Sends(basic_info_1)
    /\ IF right /\ broker.token # NoEmail
       THEN /\ Begins(w, [broker EXCEPT !.email_authen = TRUE], "save")
            /\ confirmed' = confirmed \union {broker.token}
            /\ UNCHANGED undo
       ELSE Rejects(basic_info_1)

\* PUT update with "Submit".
Submit(w, agreed) ==
    LET b == [broker EXCEPT !.check_term_of_use = agreed] IN
    Update(w, term_of_use_8, b, "submit", StepValid(b, "submit"))

-----------------------------------------------------------------------------
(***************************************************************************)
(* POST licenses from page 4 (ok: number, date and file are all there) and *)
(* DELETE licenses.  A refused licence takes part in the synchronisation,  *)
(* which raises in the end when its type is not selected any more.  DELETE *)
(* asks for the destroyed request again: without one it raises, when the   *)
(* row is gone.                                                            *)
(***************************************************************************)
UploadLicense(t, ok) ==
    /\ Sends(license_info_4)
    /\ t \in offered
    /\ IF ok /\ t \notin licenses
       THEN /\ licenses' = licenses \union {t}
            /\ Shows(NoPage)
            /\ UNCHANGED <<broker, requests, job, confirmed, undo>>
       ELSE \/ /\ t \in broker.license_type \/ broker.license_type = NilSelection
               /\ Rejects(license_info_4)
            \/ /\ t \notin broker.license_type /\ broker.license_type # NilSelection
               /\ SyncLicenses
               /\ Shows(NoPage)
               /\ UNCHANGED <<broker, job, confirmed, undo>>

RemoveLicense(t) ==
    /\ Sends(license_info_4)
    /\ t \in licenses
    /\ Undoes
    /\ licenses' = licenses \ {t}
    /\ requests' = Withdrawn({t})
    /\ Shows(NoPage)
    /\ UNCHANGED <<broker, job, confirmed>>

-----------------------------------------------------------------------------
(***************************************************************************)
(* The commits of a worker.  A save writes the columns that differ from    *)
(* what the worker has in memory, and license_type, a serialized column,   *)
(* always; the others keep what another worker may have written.           *)
(***************************************************************************)
Written(old, new) ==
    [c \in DOMAIN broker |->
        IF c = "license_type" \/ new[c] # old[c] THEN new[c] ELSE broker[c]]

\* What the handler does when a commit is done, by the button that was pressed.
following_unflagged(at) ==      \* mutant
    CASE at = "next"            -> "step"
      [] at = "send_validation" -> "mail"
      [] at = "submit"          -> "experience"
      [] at = "experience"      -> "account"
      [] OTHER                  -> "none"

following(at) ==
    CASE at = "next"            -> "step"
      [] at = "send_validation" -> "mail"
      [] at = "submit"          -> "experience"
      [] at = "experience"      -> "completed"
      [] at = "completed"       -> "account"
      [] OTHER                  -> "none"

Saves(w, row) ==
    LET next == following(job[w].at) IN
    /\ broker' = Written(job[w].loaded, row)
    /\ job' = [job EXCEPT ![w] =
                 IF next = "none" THEN Idle
                 ELSE [@ EXCEPT !.at = next, !.loaded = row, !.row = row]]
    /\ UNCHANGED <<licenses, requests, page, held, offered, confirmed, undo, stale>>

SaveForm(w) == job[w].at \in Forms /\ Saves(w, job[w].row)

SaveStep(w) ==
    /\ job[w].at = "step"
    /\ Saves(w, [job[w].row EXCEPT !.step = next_step(@)])

\* The code is mailed, then stored; it is of no use to anybody if it is not.
SendCode(w) ==
    LET row == job[w].row IN
    /\ job[w].at = "mail"
    /\ \/ /\ row.email # NoEmail
          /\ broker' = [Written(row, [row EXCEPT !.email_authen = FALSE])
                           EXCEPT !.token = row.email]
       \/ /\ Faults \/ row.email = NoEmail
          /\ UNCHANGED broker
    /\ job' = [job EXCEPT ![w] = Idle]
    /\ UNCHANGED <<licenses, requests, page, held, offered, confirmed, undo, stale>>

\* The submission: the current experience, the completed flag, and the requests that
\* put the application before an administrator.
PlaceExperience(w) ==
    /\ job[w].at = "experience"
    /\ Saves(w, [job[w].row EXCEPT !.current_experience = TRUE])

CompleteUnsaved(w) ==           \* mutant
    /\ job[w].at = "completed"
    /\ Saves(w, job[w].row)

Complete(w) ==
    /\ job[w].at = "completed"
    /\ Saves(w, [job[w].row EXCEPT !.setup_completed = TRUE])

StillToFile(w, types) ==
    /\ job' = [job EXCEPT ![w] = IF types = {} THEN Idle
                                 ELSE [@ EXCEPT !.at = "licenses", !.left = types]]
    /\ UNCHANGED <<broker, licenses, page, held, offered, confirmed, undo, stale>>

FileAccount(w) ==
    /\ job[w].at = "account"
    /\ requests.account < MaxSubmit
    /\ requests' = [requests EXCEPT !.account = @ + 1]
    /\ StillToFile(w, licenses)

FileAccountPerLicense(w, t) ==  \* mutant
    /\ job[w].at = "licenses"
    /\ t \in job[w].left
    /\ requests' = [requests EXCEPT !.account = @ + 1, !.license[t] = @ + 1]
    /\ StillToFile(w, job[w].left \ {t})

FileLicense(w, t) ==
    /\ job[w].at = "licenses"
    /\ t \in job[w].left
    /\ requests.license[t] < MaxSubmit
    /\ requests' = [requests EXCEPT !.license[t] = @ + 1]
    /\ StillToFile(w, job[w].left \ {t})

\* The worker is killed between two commits (unicorn's timeout).
Killed(w) ==
    /\ Faults
    /\ job[w] # Idle
    /\ job' = [job EXCEPT ![w] = Idle]
    /\ UNCHANGED <<broker, licenses, requests, page, held, offered, confirmed, undo, stale>>

-----------------------------------------------------------------------------
Typed == {"chosen", "blank"}

NextButton(w) ==
    \/ \E email \in Addresses, info \in BOOLEAN, password \in Typed :
         NextFromBasicInfo(w, email, info, password)
    \/ NextFromId(w)
    \/ \E types \in SUBSET LicenseTypes : NextFromLicense(w, types)
    \/ NextFromLicenseInfo(w)
    \/ \E some \in BOOLEAN : NextFromVehicle(w, some)
    \/ \E short \in BOOLEAN : NextFromStatement(w, short)
    \/ \E filled \in BOOLEAN : NextFromStory(w, filled)

Receive(w) ==
    \/ \E p \in steps : Back(w, p)
    \/ NextButton(w)
    \/ \E file \in BOOLEAN : UploadId(w, file)
    \/ RemoveId(w)
    \/ \E email \in Addresses, info \in BOOLEAN, password \in Typed :
         SendValidation(w, email, info, password)
    \/ \E right \in BOOLEAN : ValidateEmail(w, right)
    \/ \E agreed \in BOOLEAN : Submit(w, agreed)

Serve(w) ==
    \/ SaveForm(w) \/ SaveStep(w) \/ SendCode(w)
    \/ PlaceExperience(w) \/ Complete(w) \/ FileAccount(w)
    \/ \E t \in LicenseTypes : FileLicense(w, t)

Next ==
    \/ Edit
    \/ \E t \in LicenseTypes, ok \in BOOLEAN : UploadLicense(t, ok)
    \/ \E t \in LicenseTypes : RemoveLicense(t)
    \/ \E w \in Workers : Receive(w) \/ Serve(w) \/ Killed(w)

Spec == Init /\ [][Next]_vars

(***************************************************************************)
(* A broker who does not give up: the forward buttons that are offered     *)
(* again and again are pressed with acceptable input in the end, and a     *)
(* redirect is followed.  A worker that is not killed finishes the request *)
(* it serves.                                                              *)
(***************************************************************************)
Fairness ==
    /\ WF_vars(page = NoPage /\ Edit)
    /\ \A w \in Workers : WF_vars(Serve(w))
    /\ SF_vars(\E w \in Workers, email \in Emails, password \in Typed :
                 SendValidation(w, email, TRUE, password))
    /\ SF_vars(\E w \in Workers : ValidateEmail(w, TRUE))
    /\ SF_vars(\E w \in Workers : UploadId(w, TRUE))
    /\ SF_vars(\E t \in LicenseTypes : UploadLicense(t, TRUE))
    /\ SF_vars((\E w \in Workers : NextButton(w)) /\ job' # job)
    /\ SF_vars(\E w \in Workers : Submit(w, TRUE))

FairSpec == Spec /\ Fairness

-----------------------------------------------------------------------------
(***************************************************************************)
(* Properties                                                              *)
(***************************************************************************)

\* What each page asks of the row b before "Next" lets its broker pass.
Done(b, p) ==
    CASE p = basic_info_1      -> /\ b.email # NoEmail /\ b.email_authen
                                  /\ b.info /\ b.password # "none"
      [] p = id_2              -> b.id_image
      [] p = license_3         -> b.license_type \in (SUBSET LicenseTypes) \ {{}}
      [] p = license_info_4    -> licenses = b.license_type
      [] p = vehicle_5         -> b.products
      [] p = statement_6       -> TRUE
      [] p = financial_story_7 -> b.story
      [] p = term_of_use_8     -> b.check_term_of_use

DoneBefore(b) == \A p \in steps : p < b.step => Done(b, p)

\* A broker who only ever uses the page he is shown is never at a step with an
\* earlier page left undone, however he goes back, deselects, removes and uploads
\* again, and between which commits ever a worker is killed (the validation flags set
\* in SetupBrokersController#update).
PagesBeforeStepDone == DoneBefore(broker)

\* A registration that setup_completed? declares complete has every page done: the
\* uploaded licences are exactly the selected ones, there are an ID, a vehicle, a
\* story and the agreement (the "submit" branch of SetupBrokersController#update).
SubmittedIsComplete == broker.setup_completed => \A p \in steps : Done(broker, p)

\* A request of a broker who waits for its answer: it is the only one, the worker's row
\* is that of the table, what is about to be written leaves the pages before its step
\* done, and the step itself if "Next" was pressed.
FreshJob(w) ==
    LET j == job[w] IN
    /\ page = NoPage
    /\ \A v \in Workers \ {w} : job[v] = Idle
    /\ j.loaded = broker
    /\ j.at \notin Forms => j.row = broker
    /\ DoneBefore(j.row)
    /\ j.at \in {"next", "step"} => Done(j.row, j.row.step)
    /\ j.at \in {"send_validation", "mail"} => j.row.step = basic_info_1
    /\ j.row.password = "none" => j.row.uid
    /\ j.row.setup_completed <=> j.at \in {"account", "licenses"}
    /\ j.at \in {"submit", "experience", "completed", "account", "licenses"} =>
         j.row.step = term_of_use_8 /\ j.row.check_term_of_use

\* What makes PagesBeforeStepDone inductive while no stale form is sent: the page shown
\* is the page of the row's step, page 4 shows and holds upload forms only for selected
\* licences and no other licence is stored behind it, only a provider's broker can be
\* without a password, a submitted row is at the last step, and so is what the one
\* request under way still writes (SetupBrokersController#edit, #update).
FreshInv ==
    /\ page \in steps => page = broker.step /\ ~broker.setup_completed
    /\ page = license_info_4 => licenses \union offered \subseteq broker.license_type
    /\ PagesBeforeStepDone
    /\ broker.password = "none" => broker.uid
    /\ broker.setup_completed => broker.step = term_of_use_8 /\ broker.check_term_of_use
    /\ \A w \in Workers : job[w] # Idle => FreshJob(w)

\* email_authen says that the stored address was confirmed: by the code mailed to
\* it, or by the provider; unless a worker is just about to mail a code to it and to
\* clear the flag (evaluate_and_reset_email_authen, confirm_email?).
EmailConfirmed ==
    broker.email_authen /\ broker.email # NoEmail =>
        broker.email \in confirmed \/ \E w \in Workers : job[w].at = "mail"

\* A submission files one account request and one request per licence, the account
\* first, and nothing else files any; when no request is under way a completed
\* registration has them all (broker_requests.create in SetupBrokersController#update).
OneApplication ==
    /\ requests.account <= (IF broker.setup_completed THEN 1 ELSE 0)
    /\ \A t \in LicenseTypes :
         requests.license[t] <= (IF t \in licenses THEN requests.account ELSE 0)
    /\ broker.setup_completed /\ (\A w \in Workers : job[w] = Idle) =>
         requests.account = 1 /\ \A t \in licenses : requests.license[t] = 1

\* A licence that was uploaded and whose type is still selected is not destroyed,
\* unless the broker removes it himself (Broker#add_or_remove_license).
SelectedLicensesKept ==
    [][undo' = undo => licenses \intersect broker.license_type \subseteq licenses']_vars

(***************************************************************************)
(* The registration as an application (module Application): its stage and  *)
(* its licences are those of the requests filed; none is assessed yet.  A  *)
(* second account request is no stage of an application.                   *)
(***************************************************************************)
Under == INSTANCE Application WITH
            Documents <- LicenseTypes,
            stage     <- CASE requests.account = 0 -> "open"
                           [] requests.account = 1 -> "filed"
                           [] OTHER                -> "filed again",
            filed     <- {t \in LicenseTypes : requests.license[t] > 0},
            accepted  <- {}

\* Whatever the broker enters, goes back on or removes on the eight pages, one
\* application comes of it, filed first and given its licences one by one, each once,
\* although every one of them is a commit of its own between which the worker may be
\* killed and the broker press "Submit" again (SetupBrokersController#update).
ImplementsApplication == Under!Spec

\* No page is a dead end: a broker who keeps going completes the registration.
Completes == <>broker.setup_completed

\* Double clicks and repeated forms served by several workers at once, as long as nobody
\* goes back, do not get a broker past the ID page without an ID: a slow worker may
\* write an earlier step over a later one, but none that was not reached with an ID
\* (id_image_bool in SetupBrokersController#update).
IdSurvivesRepeats == broker.setup_completed => broker.id_image

\* An administrator finds requests only of a registration that is completed, and those
\* of its licences only beside that of the account, however many submissions are served
\* at once and between which commits ever one is killed (the order of the commits after
\* "Submit" in SetupBrokersController#update).
FiledInOrder ==
    /\ requests.account > 0 => broker.setup_completed
    /\ \A t \in LicenseTypes : requests.license[t] > 0 => requests.account > 0

-----------------------------------------------------------------------------
(***************************************************************************)
(* Statements about the wizard that the code does not keep (see README).   *)
(***************************************************************************)

\* A submitted registration has the agreement to the terms of use.
TermsSurviveRepeats == broker.setup_completed => broker.check_term_of_use

\* As long as nobody presses "Previous" the registration does not move backwards.
NoStepBackwards == [][broker'.step >= broker.step]_vars

\* The criteria of the privacy policy: "Criteria for successful registration include
\* submitting your valid ID, license number, at least one financial story".
CriteriaSubmitted ==
    broker.setup_completed => broker.id_image /\ licenses # {} /\ broker.story

\* GET edit shows an unfinished broker his page: add_or_remove_license does not raise.
EditRenders == ~EditRaises

\* A broker who is told "Your registration has been submitted. Please wait for it to
\* be processed." (redirect_if_registered) has an account request to be processed.
SubmittedIsFiled == broker.setup_completed => requests.account > 0

\* However often "Submit" is sent, one account request is filed.
OneAccountRequest == requests.account <= 1

\* A broker who is past page 1 can log in with the password he chose there
\* (Broker#password_signup?: "enforces password presence validation").
PasswordChosen == broker.step > basic_info_1 => broker.password = "chosen"

=============================================================================
