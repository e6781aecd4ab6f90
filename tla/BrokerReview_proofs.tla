------------------------ MODULE BrokerReview_proofs -------------------------
(***************************************************************************)
(* Proofs about BrokerReview: for any licences, administrators and uploads *)
(* that the state is well typed; for a registration submitted once that no *)
(* request dangles; and, with one administrator at work, that the account  *)
(* is approved only with its licences, and for good.                       *)
(***************************************************************************)
EXTENDS BrokerReview, TLAPS

-----------------------------------------------------------------------------
(***************************************************************************)
(* Identifiers                                                             *)
(***************************************************************************)

LEMMA Ids ==
    /\ Account \notin LicenseIds
    /\ Registered \subseteq LicenseIds
    /\ Account \notin Registered
  BY ReviewAssumption DEF Account, LicenseIds, Registered

LEMMA RequestParts ==
    ASSUME NEW r \in RequestIds
    PROVE  /\ r[1] \in LicenseIds \union {Account}
           /\ r[2] \in 1..Submissions
           /\ r = <<r[1], r[2]>>
  BY DEF RequestIds

LEMMA LicenseRequest ==
    ASSUME NEW l \in LicenseIds, NEW k \in 1..Submissions
    PROVE  <<l, k>> \in RequestIds /\ <<l, k>>[1] = l /\ l # Account
  BY Ids DEF RequestIds

LEMMA UploadId ==
    ASSUME NEW l \in LicenseIds
    PROVE  <<l, 1>> \in RequestIds /\ <<l, 1>>[1] = l /\ l # Account
  BY LicenseRequest, ReviewAssumption

-----------------------------------------------------------------------------
(***************************************************************************)
(* Types                                                                   *)
(***************************************************************************)

LEMMA ShowsType ==
    ASSUME NEW a \in Admins, page \in [Admins -> SUBSET Buttons],
           ShowsIndex(a) \/ ShowsNothing(a)
    PROVE  page' \in [Admins -> SUBSET Buttons]
<1>1. PendingApplication \in SUBSET Buttons
  BY DEF PendingApplication
<1> QED BY <1>1 DEF ShowsIndex, ShowsNothing

LEMMA JobType ==
    ASSUME NEW a \in Admins, job \in [Admins -> Jobs]
    PROVE  /\ job[a].step = "license" \/ job[a].step = "valid" \/ job[a].step = "committed" =>
                /\ job[a] \in [step : {"license", "valid", "committed"},
                               request : RequestIds, admin_reply : Verdicts]
                /\ job[a] # NoJob
           /\ job[a] # NoJob => job[a].step \in {"license", "valid", "committed"}
           /\ job' = [job EXCEPT ![a] = NoJob] => job' \in [Admins -> Jobs]
  BY DEF Jobs, NoJob

\* A verdict on a licence leaves only its flag to the worker.
LEMMA LicenseJob ==
    ASSUME NEW a \in Admins, NEW b \in Buttons, job \in [Admins -> Jobs],
           UpdateLicenseRequest(a, b)
    PROVE  /\ job'[a].step \in {"license", "none"}
           /\ \A c \in Admins : c # a => job'[c] = job[c]
           /\ ShowsNothing(a)
<1> DEFINE new == [step |-> "license", request |-> b.request, admin_reply |-> b.admin_reply]
<1>1. new.step = "license" /\ NoJob.step = "none"
  BY DEF NoJob
<1>2. /\ job' = [job EXCEPT ![a] = new] \/ job' = job
      /\ job[a] = NoJob /\ ShowsNothing(a)
  BY DEF UpdateLicenseRequest
<1> HIDE DEF new
<1> QED BY <1>1, <1>2

LEMMA TypeStep == TypeOK /\ [Next]_vars => TypeOK'
<1> SUFFICES ASSUME TypeOK, [Next]_vars PROVE TypeOK'
  OBVIOUS
<1> USE DEF TypeOK
<1>1. ASSUME NEW a \in Admins, Index(a) PROVE TypeOK'
  BY <1>1, ShowsType DEF Index
<1>2. ASSUME NEW a \in Admins, NEW b \in Buttons, UpdateLicenseRequest(a, b) PROVE TypeOK'
  <2>1. page' \in [Admins -> SUBSET Buttons]
    BY <1>2, ShowsType DEF UpdateLicenseRequest
  <2>2. b.request \in RequestIds /\ b.admin_reply \in Verdicts
    BY DEF Buttons
  <2> DEFINE new == [step |-> "license", request |-> b.request, admin_reply |-> b.admin_reply]
  <2>5. new \in Jobs
    BY <2>2 DEF Jobs
  <2>6. job' = [job EXCEPT ![a] = new] \/ job' = job
    BY <1>2 DEF UpdateLicenseRequest
  <2> HIDE DEF new
  <2>3. job' \in [Admins -> Jobs]
    BY <2>5, <2>6
  <2>4. reply' \in [RequestIds -> Verdicts \union {"nil", "none"}]
    BY <1>2, <2>2 DEF UpdateLicenseRequest
  <2> QED BY <1>2, <2>1, <2>3, <2>4 DEF UpdateLicenseRequest
<1>3. ASSUME NEW a \in Admins, NEW b \in Buttons, UpdateAccountRequest(a, b) PROVE TypeOK'
  <2>1. page' \in [Admins -> SUBSET Buttons]
    BY <1>3, ShowsType DEF UpdateAccountRequest
  <2>2. b.request \in RequestIds /\ b.admin_reply \in Verdicts
    BY DEF Buttons
  <2>3. job' \in [Admins -> Jobs]
    BY <1>3, <2>2 DEF UpdateAccountRequest, Jobs
  <2> QED BY <1>3, <2>1, <2>3 DEF UpdateAccountRequest
<1>4. ASSUME NEW a \in Admins, FlagLicense(a) PROVE TypeOK'
  <2>1. page' \in [Admins -> SUBSET Buttons]
    BY <1>4, ShowsType DEF FlagLicense
  <2>2. job' \in [Admins -> Jobs]
    BY <1>4, JobType DEF FlagLicense
  <2>3. approved' \in SUBSET licenses'
    BY <1>4 DEF FlagLicense
  <2> QED BY <1>4, <2>1, <2>2, <2>3 DEF FlagLicense
<1>5. ASSUME NEW a \in Admins, CommitReply(a) PROVE TypeOK'
  <2>1. job[a] \in [step : {"license", "valid", "committed"},
                    request : RequestIds, admin_reply : Verdicts]
    BY <1>5, JobType DEF CommitReply
  <2>2. job' \in [Admins -> Jobs]
    BY <1>5, <2>1 DEF CommitReply, Jobs
  <2>3. reply' \in [RequestIds -> Verdicts \union {"nil", "none"}]
    BY <1>5, <2>1 DEF CommitReply
  <2> QED BY <1>5, <2>2, <2>3 DEF CommitReply
<1>6. ASSUME NEW a \in Admins, NotifyBroker(a) PROVE TypeOK'
  <2>1. page' \in [Admins -> SUBSET Buttons]
    BY <1>6, ShowsType DEF NotifyBroker
  <2>2. job' \in [Admins -> Jobs]
    BY <1>6, JobType DEF NotifyBroker
  <2>3. job[a].admin_reply \in Verdicts
    BY <1>6, JobType DEF NotifyBroker
  <2> DEFINE flagged == [broker EXCEPT !.approved = @ \/ job[a].admin_reply = "approve"]
  <2>5. flagged \in [approved : BOOLEAN, mails : SUBSET Verdicts]
    OBVIOUS
  <2>6. \/ broker' = [flagged EXCEPT !.mails = @ \union {job[a].admin_reply}]
        \/ broker' = flagged
    BY <1>6 DEF NotifyBroker
  <2> HIDE DEF flagged
  <2>4. broker' \in [approved : BOOLEAN, mails : SUBSET Verdicts]
    BY <2>3, <2>5, <2>6
  <2> QED BY <1>6, <2>1, <2>2, <2>4 DEF NotifyBroker
<1>7. ASSUME NEW a \in Admins, Killed(a) PROVE TypeOK'
  BY <1>7, ShowsType, JobType DEF Killed
<1>8. ASSUME NEW t \in LicenseTypes, CheckUpload(t) PROVE TypeOK'
  BY <1>8, ReviewAssumption DEF CheckUpload
<1>9. ASSUME NEW t \in LicenseTypes, StoreUpload(t) PROVE TypeOK'
  <2>1. PICK l \in LicenseIds :
           /\ created' = created \union {l} /\ licenses' = licenses \union {l}
           /\ unfiled' = unfiled \union {<<l, 1>>}
    BY <1>9 DEF StoreUpload
  <2>2. pending' \in [LicenseTypes -> 0..MaxPending]
    BY <1>9, ReviewAssumption DEF StoreUpload
  <2>3. unfiled' \in SUBSET RequestIds
    BY <2>1, UploadId
  <2> QED BY <1>9, <2>1, <2>2, <2>3 DEF StoreUpload
<1>10. ASSUME NEW l \in LicenseIds, RemoveLicense(l) PROVE TypeOK'
  <2>1. reply' \in [RequestIds -> Verdicts \union {"nil", "none"}]
    BY <1>10 DEF RemoveLicense
  <2> QED BY <1>10, <2>1 DEF RemoveLicense
<1>11. ASSUME NEW r \in RequestIds, FileRequest(r) \/ FilingCut(r) PROVE TypeOK'
  BY <1>11 DEF FileRequest, FilingCut
<1>12. CASE UNCHANGED vars
  BY <1>12 DEF vars
<1> QED BY <1>1, <1>2, <1>3, <1>4, <1>5, <1>6, <1>7, <1>8, <1>9, <1>10, <1>11, <1>12
        DEF Next, Serve

LEMMA TypeInit == Init => TypeOK
<1> SUFFICES ASSUME Init PROVE TypeOK
  OBVIOUS
<1>1. job \in [Admins -> Jobs]
  BY DEF Init, Jobs
<1>2. Registered \subseteq LicenseIds
  BY Ids
<1>3. broker \in [approved : BOOLEAN, mails : SUBSET Verdicts]
  BY DEF Init
<1>4. reply \in [RequestIds -> Verdicts \union {"nil", "none"}]
  BY DEF Init
<1> QED BY <1>1, <1>2, <1>3, <1>4, ReviewAssumption DEF Init, TypeOK

\* Rows, pages and unfinished requests of the review are well typed; above all the flag
\* `approved' is only ever on a licence that is still stored.
THEOREM ReviewTypeCorrect == Spec => []TypeOK
  BY TypeInit, TypeStep, PTL DEF Spec


-----------------------------------------------------------------------------
(***************************************************************************)
(* Requests and licences, for a registration submitted once                *)
(***************************************************************************)

\* Only a request for the account is validated before it is committed.
AccountJobs ==
    \A a \in Admins : job[a].step \in {"valid", "committed"} => job[a].request[1] = Account

\* What a worker is about to create is not there yet, and nobody answers it: ids are
\* used once, and a button for an account is on a page only when its request is stored.
NotYetFiled == \A r \in unfiled : reply[r] = "none" /\ r[1] \in created \union {Account}
NoIdReused  == \A l \in LicenseIds \ created, k \in 1..Submissions : reply[<<l, k>>] = "none"
Answerable  ==
    \A a \in Admins :
       /\ \A b \in page[a] : b.request[1] = Account => reply[b.request] # "none"
       /\ job[a].step = "valid" => reply[job[a].request] # "none"
FilingInv == AccountJobs /\ NotYetFiled /\ NoIdReused /\ Answerable

\* With one submission a licence has one request, which goes with it.
UnfiledStored == \A r \in unfiled : r[1] \in licenses \union {Account}
DanglingInv == NoDanglingRequest /\ UnfiledStored

LEMMA AccountJobsStep ==
    ASSUME TypeOK, AccountJobs, [Next]_vars
    PROVE  AccountJobs'
<1> USE DEF TypeOK, AccountJobs
<1>1. ASSUME NEW a \in Admins, NEW b \in Buttons, UpdateLicenseRequest(a, b) PROVE AccountJobs'
  BY <1>1, LicenseJob
<1>2. ASSUME NEW a \in Admins, NEW b \in Buttons, UpdateAccountRequest(a, b) PROVE AccountJobs'
  BY <1>2 DEF UpdateAccountRequest
<1>3. ASSUME NEW a \in Admins, job' = [job EXCEPT ![a] = NoJob] PROVE AccountJobs'
  BY <1>3 DEF NoJob
<1>4. ASSUME NEW a \in Admins, CommitReply(a) PROVE AccountJobs'
  <2>1. job[a] \in [step : {"license", "valid", "committed"},
                    request : RequestIds, admin_reply : Verdicts]
    BY <1>4, JobType DEF CommitReply
  <2>2. job'[a].request = job[a].request /\ job[a].request[1] = Account
    BY <1>4, <2>1 DEF CommitReply
  <2>3. \A c \in Admins \ {a} : job'[c] = job[c]
    BY <1>4 DEF CommitReply
  <2> QED BY <2>2, <2>3
<1>5. CASE UNCHANGED job
  BY <1>5
<1>6. ASSUME NEW a \in Admins, FlagLicense(a) \/ NotifyBroker(a) \/ Killed(a) PROVE AccountJobs'
  BY <1>6, <1>3 DEF FlagLicense, NotifyBroker, Killed
<1>7. ASSUME NEW a \in Admins, Index(a) PROVE AccountJobs'
  BY <1>7, <1>5 DEF Index
<1>8. ASSUME NEW t \in LicenseTypes, CheckUpload(t) \/ StoreUpload(t) PROVE AccountJobs'
  BY <1>8, <1>5 DEF CheckUpload, StoreUpload
<1>9. ASSUME NEW l \in LicenseIds, RemoveLicense(l) PROVE AccountJobs'
  BY <1>9, <1>5 DEF RemoveLicense
<1>10. ASSUME NEW r \in RequestIds, FileRequest(r) \/ FilingCut(r) PROVE AccountJobs'
  BY <1>10, <1>5 DEF FileRequest, FilingCut
<1>11. CASE UNCHANGED vars
  BY <1>11, <1>5 DEF vars
<1> QED BY <1>1, <1>2, <1>4, <1>6, <1>7, <1>8, <1>9, <1>10, <1>11 DEF Next, Serve

\* Buttons for an account are on pages, and its request at a worker, only when it is stored.
LEMMA AnswerableStep ==
    ASSUME TypeOK, AccountJobs, NotYetFiled, Answerable, [Next]_vars
    PROVE  Answerable'
<1> USE DEF TypeOK
<1> DEFINE Page(a) == \A b \in page[a] : b.request[1] = Account => reply[b.request] # "none"
           Job(a)  == job[a].step = "valid" => reply[job[a].request] # "none"
<1>a. ASSUME NEW b \in Buttons PROVE b.request \in RequestIds /\ b.admin_reply \in Verdicts
  BY DEF Buttons
<1>b. ASSUME NEW a \in Admins, job[a].step = "valid"
      PROVE  /\ job[a].request \in RequestIds /\ job[a].request[1] = Account
             /\ job[a].admin_reply \in Verdicts
  BY <1>b, JobType DEF AccountJobs
<1>c. NoJob.step # "valid" /\ "none" \notin Verdicts
  BY DEF NoJob, Verdicts
<1>d. \A b \in PendingApplication : b.request[1] = Account => reply[b.request] # "none"
  <2> SUFFICES ASSUME NEW b \in PendingApplication, b.request[1] = Account
               PROVE  reply[b.request] # "none"
    OBVIOUS
  <2>1. b.request \in Listed
    BY DEF PendingApplication
  <2>2. ~complement(b.request)
    BY Ids DEF complement
  <2> QED BY <2>1, <2>2 DEF Listed, Pending
<1>1. \A r \in RequestIds : r[1] = Account /\ reply[r] # "none" => reply'[r] # "none"
  <2>1. ASSUME NEW a \in Admins, CommitReply(a), NEW r \in RequestIds, reply[r] # "none"
        PROVE  reply'[r] # "none"
    BY <1>b, <1>c, <2>1 DEF CommitReply
  <2>2. ASSUME NEW a \in Admins, NEW b \in Buttons, UpdateLicenseRequest(a, b),
               NEW r \in RequestIds, reply[r] # "none"
        PROVE  reply'[r] # "none"
    <3>1. reply' = [reply EXCEPT ![b.request] = b.admin_reply] \/ reply' = reply
      BY <2>2 DEF UpdateLicenseRequest
    <3> QED BY <1>a, <1>c, <2>2, <3>1
  <2>3. ASSUME NEW l \in LicenseIds, RemoveLicense(l), NEW r \in RequestIds, r[1] = Account,
               reply[r] # "none"
        PROVE  reply'[r] # "none"
    <3>1. PICK k \in 1..Submissions : reply' = [reply EXCEPT ![<<l, k>>] = "none"]
      BY <2>3 DEF RemoveLicense
    <3>2. r # <<l, k>>
      BY <2>3, LicenseRequest
    <3> QED BY <2>3, <3>1, <3>2
  <2>4. ASSUME NEW q \in RequestIds, FileRequest(q), NEW r \in RequestIds, reply[r] # "none"
        PROVE  reply'[r] # "none"
    BY <2>4 DEF FileRequest
  <2>5. ASSUME \/ \E a \in Admins : \/ Index(a) \/ FlagLicense(a) \/ NotifyBroker(a) \/ Killed(a)
                                   \/ \E b \in Buttons : UpdateAccountRequest(a, b)
               \/ \E t \in LicenseTypes : CheckUpload(t) \/ StoreUpload(t)
               \/ \E r \in RequestIds : FilingCut(r)
               \/ UNCHANGED vars
        PROVE  reply' = reply
    BY <2>5 DEF Index, FlagLicense, NotifyBroker, Killed, UpdateAccountRequest, CheckUpload,
                StoreUpload, FilingCut, vars
  <2> QED BY <2>1, <2>2, <2>3, <2>4, <2>5 DEF Next, Serve
<1>2. ASSUME NEW a \in Admins, page'[a] = page[a] \/ page'[a] = {} \/ page'[a] = PendingApplication
      PROVE  Page(a)'
  <2>1. page[a] \subseteq Buttons /\ PendingApplication \subseteq Buttons
    BY DEF PendingApplication
  <2>2. \A b \in page'[a] : b \in Buttons /\ (b.request[1] = Account => reply[b.request] # "none")
    BY <1>2, <1>d, <2>1 DEF Answerable
  <2> QED BY <1>1, <1>a, <2>2
<1>3. ASSUME NEW a \in Admins, job'[a] = job[a] \/ job'[a].step # "valid"
      PROVE  Job(a)'
  BY <1>1, <1>3, <1>b DEF Answerable
<1>4. ASSUME NEW a \in Admins, NEW b \in Buttons, UpdateAccountRequest(a, b)
      PROVE  Answerable'
  <2>1. \A c \in Admins : Page(c)'
    BY <1>2, <1>4 DEF UpdateAccountRequest, ShowsIndex, ShowsNothing
  <2>2. \A c \in Admins : c # a => Job(c)'
    BY <1>3, <1>4 DEF UpdateAccountRequest
  <2>3. reply[b.request] # "none" /\ reply' = reply
    BY <1>4 DEF UpdateAccountRequest, Answerable
  <2>4. job'[a] = job[a] \/ job'[a].request = b.request
    BY <1>4 DEF UpdateAccountRequest
  <2>5. Job(a)'
    BY <1>3, <2>3, <2>4
  <2> QED BY <2>1, <2>2, <2>5 DEF Answerable
<1>5. ASSUME \A c \in Admins : /\ page'[c] = page[c] \/ page'[c] = {} \/ page'[c] = PendingApplication
                               /\ job'[c] = job[c] \/ job'[c].step # "valid"
      PROVE  Answerable'
  BY <1>2, <1>3, <1>5 DEF Answerable
<1>6. ASSUME NEW a \in Admins, NEW b \in Buttons, UpdateLicenseRequest(a, b)
      PROVE  Answerable'
  <2>1. \A c \in Admins : page'[c] = page[c] \/ page'[c] = {}
    BY <1>6, LicenseJob DEF ShowsNothing
  <2> QED BY <1>5, <1>6, <2>1, LicenseJob
<1>7. ASSUME NEW a \in Admins, Index(a) \/ FlagLicense(a) \/ NotifyBroker(a) \/ Killed(a)
      PROVE  Answerable'
  <2>1. \A c \in Admins : job'[c] = job[c] \/ job'[c].step # "valid"
    BY <1>7, <1>c DEF Index, FlagLicense, NotifyBroker, Killed
  <2>2. ShowsIndex(a) \/ ShowsNothing(a)
    BY <1>7 DEF Index, FlagLicense, NotifyBroker, Killed
  <2>3. \A c \in Admins : page'[c] = page[c] \/ page'[c] = {} \/ page'[c] = PendingApplication
    BY <2>2 DEF ShowsIndex, ShowsNothing
  <2> QED BY <1>5, <2>1, <2>3
<1>8. ASSUME NEW a \in Admins, CommitReply(a) PROVE Answerable'
  <2>1. job'[a].step = "committed" /\ \A c \in Admins : c # a => job'[c] = job[c]
    BY <1>8, JobType DEF CommitReply
  <2> QED BY <1>5, <1>8, <2>1 DEF CommitReply
<1>9. CASE UNCHANGED <<page, job>>
  BY <1>5, <1>9
<1>10. CASE \/ \E t \in LicenseTypes : CheckUpload(t) \/ StoreUpload(t)
            \/ \E l \in LicenseIds : RemoveLicense(l)
            \/ \E r \in RequestIds : FileRequest(r) \/ FilingCut(r)
            \/ UNCHANGED vars
  BY <1>9, <1>10 DEF CheckUpload, StoreUpload, RemoveLicense, FileRequest, FilingCut, vars
<1> QED BY <1>4, <1>6, <1>7, <1>8, <1>10 DEF Next, Serve

LEMMA FilingStep ==
    ASSUME TypeOK, FilingInv, [Next]_vars
    PROVE  FilingInv'
<1> USE DEF TypeOK
<1>0. AccountJobs' /\ Answerable'
  BY AccountJobsStep, AnswerableStep DEF FilingInv
<1>a. NotYetFiled /\ NoIdReused /\ Answerable /\ AccountJobs
  BY DEF FilingInv
<1> DEFINE Goal == NotYetFiled' /\ NoIdReused'
<1>1. ASSUME UNCHANGED created, unfiled' \subseteq unfiled,
             \A r \in RequestIds : reply[r] = "none" => r \in unfiled \ unfiled' \/ reply'[r] = "none",
             \A r \in unfiled \ unfiled' : r[1] \in created \union {Account}
      PROVE  Goal
  <2>1. NotYetFiled'
    BY <1>1, <1>a DEF NotYetFiled
  <2>2. NoIdReused'
    <3> SUFFICES ASSUME NEW l \in LicenseIds \ created, NEW k \in 1..Submissions
                 PROVE  reply'[<<l, k>>] = "none"
      BY <1>1 DEF NoIdReused
    <3>1. <<l, k>> \in RequestIds /\ <<l, k>>[1] = l /\ l # Account
      BY LicenseRequest
    <3>2. reply[<<l, k>>] = "none"
      BY <1>a DEF NoIdReused
    <3> QED BY <1>1, <3>1, <3>2
  <2> QED BY <2>1, <2>2
<1>2. ASSUME UNCHANGED <<reply, created, unfiled>> PROVE Goal
  BY <1>1, <1>2
<1>3. ASSUME NEW a \in Admins, NEW b \in Buttons, UpdateLicenseRequest(a, b) PROVE Goal
  <2>1. \A r \in RequestIds : reply[r] = "none" => reply'[r] = "none"
    BY <1>3 DEF UpdateLicenseRequest, exists
  <2> QED BY <1>1, <1>3, <2>1 DEF UpdateLicenseRequest
<1>4. ASSUME NEW a \in Admins, CommitReply(a) PROVE Goal
  <2>1. reply[job[a].request] # "none" /\ job[a].request \in RequestIds
    BY <1>4, <1>a, JobType DEF CommitReply, Answerable
  <2>2. \A r \in RequestIds : reply[r] = "none" => reply'[r] = "none"
    BY <1>4, <2>1 DEF CommitReply
  <2> QED BY <1>1, <1>4, <2>2 DEF CommitReply
<1>5. ASSUME NEW t \in LicenseTypes, StoreUpload(t) PROVE Goal
  <2>1. PICK l \in LicenseIds \ created :
           created' = created \union {l} /\ unfiled' = unfiled \union {<<l, 1>>}
    BY <1>5 DEF StoreUpload
  <2>2. reply[<<l, 1>>] = "none" /\ <<l, 1>>[1] = l
    BY <1>a, UploadId, ReviewAssumption DEF NoIdReused
  <2>3. UNCHANGED reply
    BY <1>5 DEF StoreUpload
  <2> QED BY <1>a, <2>1, <2>2, <2>3 DEF NotYetFiled, NoIdReused
<1>6. ASSUME NEW l \in LicenseIds, RemoveLicense(l) PROVE Goal
  <2>1. \A r \in RequestIds : reply[r] = "none" => reply'[r] = "none"
    BY <1>6 DEF RemoveLicense
  <2> QED BY <1>1, <1>6, <2>1 DEF RemoveLicense
<1>7. ASSUME NEW r \in RequestIds, FileRequest(r) \/ FilingCut(r) PROVE Goal
  <2>1. UNCHANGED created /\ unfiled' \subseteq unfiled
    BY <1>7 DEF FileRequest, FilingCut
  <2>2. \A q \in RequestIds : reply[q] = "none" => q \in unfiled \ unfiled' \/ reply'[q] = "none"
    BY <1>7 DEF FileRequest, FilingCut
  <2> QED BY <1>1, <1>a, <2>1, <2>2 DEF NotYetFiled
<1>8. ASSUME \/ \E a \in Admins : \/ Index(a) \/ FlagLicense(a) \/ NotifyBroker(a) \/ Killed(a)
                                \/ \E b \in Buttons : UpdateAccountRequest(a, b)
             \/ \E t \in LicenseTypes : CheckUpload(t)
             \/ UNCHANGED vars
      PROVE  Goal
  <2>1. UNCHANGED <<reply, created, unfiled>>
    BY <1>8 DEF Index, FlagLicense, NotifyBroker, Killed, UpdateAccountRequest, CheckUpload, vars
  <2> QED BY <1>2, <2>1
<1> QED BY <1>0, <1>3, <1>4, <1>5, <1>6, <1>7, <1>8 DEF Next, Serve, FilingInv

LEMMA FilingInit == Init => FilingInv
<1> SUFFICES ASSUME Init PROVE FilingInv
  OBVIOUS
<1>1. AccountJobs /\ Answerable
  BY DEF Init, AccountJobs, Answerable, NoJob
<1>2. NotYetFiled
  BY DEF Init, NotYetFiled, submission, complement
<1>3. NoIdReused
  <2> SUFFICES ASSUME NEW l \in LicenseIds \ Registered, NEW k \in 1..Submissions
               PROVE  reply[<<l, k>>] = "none"
    BY DEF Init, NoIdReused
  <2>1. <<l, k>> \in RequestIds /\ <<l, k>>[1] = l /\ l # Account
    BY LicenseRequest
  <2> QED BY <2>1 DEF Init, submission, complement
<1> QED BY <1>1, <1>2, <1>3 DEF FilingInv

LEMMA UnfiledStoredStep ==
    ASSUME Submissions = 1, TypeOK, FilingInv, DanglingInv, [Next]_vars
    PROVE  UnfiledStored'
<1> USE DEF TypeOK, DanglingInv, UnfiledStored
<1>1. ASSUME NEW t \in LicenseTypes, StoreUpload(t) PROVE UnfiledStored'
  <2>1. PICK l \in LicenseIds :
           licenses' = licenses \union {l} /\ unfiled' = unfiled \union {<<l, 1>>}
    BY <1>1 DEF StoreUpload
  <2> QED BY <2>1, UploadId
<1>2. ASSUME NEW l \in LicenseIds, RemoveLicense(l) PROVE UnfiledStored'
  <2>1. reply[<<l, 1>>] # "none" /\ licenses' = licenses \ {l} /\ unfiled' = unfiled
    BY <1>2 DEF RemoveLicense, exists
  <2>2. ASSUME NEW r \in unfiled PROVE r[1] # l
    <3>1. r = <<r[1], r[2]>> /\ r[2] = 1 /\ reply[r] = "none"
      BY RequestParts DEF FilingInv, NotYetFiled
    <3> QED BY <2>1, <3>1
  <2> QED BY <2>1, <2>2
<1>3. ASSUME NEW r \in RequestIds, FileRequest(r) \/ FilingCut(r) PROVE UnfiledStored'
  BY <1>3 DEF FileRequest, FilingCut
<1>4. CASE \/ \E a \in Admins : \/ Index(a) \/ Serve(a) \/ Killed(a)
                              \/ \E b \in Buttons : UpdateAccountRequest(a, b) \/ UpdateLicenseRequest(a, b)
           \/ \E t \in LicenseTypes : CheckUpload(t)
           \/ UNCHANGED vars
  <2>1. UNCHANGED <<licenses, unfiled>>
    BY <1>4 DEF Index, Serve, FlagLicense, CommitReply, NotifyBroker, Killed, UpdateAccountRequest,
                UpdateLicenseRequest, CheckUpload, vars
  <2> QED BY <2>1
<1> QED BY <1>1, <1>2, <1>3, <1>4 DEF Next

LEMMA DanglingStep ==
    ASSUME Submissions = 1, TypeOK, AccountJobs, DanglingInv, [Next]_vars
    PROVE  NoDanglingRequest'
<1> USE DEF TypeOK, DanglingInv, NoDanglingRequest, exists
<1>1. ASSUME NEW a \in Admins, NEW b \in Buttons, UpdateLicenseRequest(a, b)
      PROVE  NoDanglingRequest'
  <2>1. b.request \in RequestIds
    BY DEF Buttons
  <2>2. \A r \in RequestIds : reply'[r] # "none" => reply[r] # "none"
    BY <1>1, <2>1 DEF UpdateLicenseRequest
  <2> QED BY <1>1, <2>2 DEF UpdateLicenseRequest
<1>2. ASSUME NEW a \in Admins, CommitReply(a) PROVE NoDanglingRequest'
  <2>1. job[a] \in [step : {"license", "valid", "committed"},
                    request : RequestIds, admin_reply : Verdicts]
    BY <1>2, JobType DEF CommitReply
  <2>2. job[a].request[1] = Account
    BY <1>2 DEF CommitReply, AccountJobs
  <2>3. \A r \in RequestIds : r # job[a].request => reply'[r] = reply[r]
    BY <1>2, <2>1 DEF CommitReply
  <2> QED BY <1>2, <2>2, <2>3 DEF CommitReply
<1>3. ASSUME NEW t \in LicenseTypes, StoreUpload(t) PROVE NoDanglingRequest'
  BY <1>3 DEF StoreUpload
<1>4. ASSUME NEW l \in LicenseIds, RemoveLicense(l) PROVE NoDanglingRequest'
  <2>1. PICK k \in 1..Submissions : reply' = [reply EXCEPT ![<<l, k>>] = "none"]
    BY <1>4 DEF RemoveLicense
  <2>2. SUFFICES ASSUME NEW r \in RequestIds, reply'[r] # "none"
                 PROVE  r[1] \in licenses' \union {Account}
    OBVIOUS
  <2>3. r # <<l, k>> /\ reply[r] # "none"
    BY <2>1, <2>2
  <2>4. k = 1 /\ r[2] = 1 /\ r = <<r[1], r[2]>>
    BY RequestParts
  <2>5. r[1] # l
    BY <2>3, <2>4
  <2> QED BY <1>4, <2>3, <2>5 DEF RemoveLicense
<1>5. CASE UNCHANGED <<licenses, reply>>
  BY <1>5
<1>6. ASSUME NEW a \in Admins, FlagLicense(a) \/ NotifyBroker(a) \/ Killed(a) \/ Index(a)
      PROVE  NoDanglingRequest'
  BY <1>6, <1>5 DEF FlagLicense, NotifyBroker, Killed, Index
<1>7. ASSUME NEW a \in Admins, NEW b \in Buttons, UpdateAccountRequest(a, b)
      PROVE  NoDanglingRequest'
  BY <1>7, <1>5 DEF UpdateAccountRequest
<1>8. ASSUME NEW t \in LicenseTypes, CheckUpload(t) PROVE NoDanglingRequest'
  BY <1>8, <1>5 DEF CheckUpload
<1>9. CASE UNCHANGED vars
  BY <1>9, <1>5 DEF vars
<1>10. ASSUME NEW r \in RequestIds, FileRequest(r) PROVE NoDanglingRequest'
  <2>1. r[1] \in licenses \union {Account}
    BY <1>10 DEF FileRequest, UnfiledStored
  <2> QED BY <1>10, <2>1 DEF FileRequest
<1>11. ASSUME NEW r \in RequestIds, FilingCut(r) PROVE NoDanglingRequest'
  BY <1>11, <1>5 DEF FilingCut
<1> QED BY <1>1, <1>2, <1>3, <1>4, <1>6, <1>7, <1>8, <1>9, <1>10, <1>11 DEF Next, Serve

LEMMA DanglingInit == Init => DanglingInv
<1> SUFFICES ASSUME Init PROVE DanglingInv
  OBVIOUS
<1>1. UnfiledStored
  BY DEF Init, UnfiledStored, submission, complement
<1>2. NoDanglingRequest
  BY DEF Init, NoDanglingRequest, exists, submission, complement
<1> QED BY <1>1, <1>2 DEF DanglingInv

LEMMA DanglingAlways ==
    ASSUME Submissions = 1
    PROVE  Spec => [](TypeOK /\ FilingInv /\ DanglingInv)
<1>1. TypeOK /\ FilingInv /\ DanglingInv /\ [Next]_vars => (TypeOK /\ FilingInv /\ DanglingInv)'
  <2> SUFFICES ASSUME TypeOK, FilingInv, DanglingInv, [Next]_vars
               PROVE  (TypeOK /\ FilingInv /\ DanglingInv)'
    OBVIOUS
  <2>1. AccountJobs
    BY DEF FilingInv
  <2> QED BY <2>1, TypeStep, FilingStep, UnfiledStoredStep, DanglingStep DEF DanglingInv
<1> QED BY <1>1, TypeInit, FilingInit, DanglingInit, PTL DEF Spec

\* Of a registration submitted once no request is left without its licence, however many
\* administrators, uploads and killed workers there are, also while the submission still
\* files its requests: License.find in page, validation and mail finds it.
THEOREM NothingDangles ==
    ASSUME Submissions = 1
    PROVE  Spec => []NoDanglingRequest
<1>1. DanglingInv => NoDanglingRequest
  BY DEF DanglingInv
<1> QED BY <1>1, DanglingAlways, PTL

-----------------------------------------------------------------------------
(***************************************************************************)
(* One administrator at work                                               *)
(***************************************************************************)
OneAdmin == \A a, b \in Admins : a = b

\* The page of the only administrator is up to date on the account: nobody else answers
\* its request, and while a worker serves him he has no page.
PagesFresh ==
    \A a \in Admins :
       /\ job[a] # NoJob => page[a] = {}
       /\ \A b \in page[a] : b.request[1] = Account => reply[b.request] = "nil"
       /\ job[a].step = "valid" => reply[job[a].request] = "nil"

\* The replies to account requests change in CommitReply only, and when they are filed.
LEMMA AccountReplies ==
    ASSUME TypeOK, FilingInv, [Next]_vars, ~ \E a \in Admins : CommitReply(a),
           NEW r \in RequestIds, r[1] = Account
    PROVE  reply'[r] = reply[r] \/ (reply[r] = "none" /\ reply'[r] = "nil")
<1> USE DEF TypeOK
<1>1. ASSUME NEW a \in Admins, NEW b \in Buttons, UpdateLicenseRequest(a, b)
      PROVE  reply'[r] = reply[r]
  <2>1. r # b.request
    BY <1>1 DEF UpdateLicenseRequest
  <2> QED BY <1>1, <2>1 DEF UpdateLicenseRequest
<1>2. ASSUME NEW t \in LicenseTypes, CheckUpload(t) \/ StoreUpload(t) PROVE reply'[r] = reply[r]
  BY <1>2 DEF CheckUpload, StoreUpload
<1>3. ASSUME NEW l \in LicenseIds, RemoveLicense(l) PROVE reply'[r] = reply[r]
  <2>1. PICK k \in 1..Submissions : reply' = [reply EXCEPT ![<<l, k>>] = "none"]
    BY <1>3 DEF RemoveLicense
  <2>2. r # <<l, k>>
    BY LicenseRequest
  <2> QED BY <2>1, <2>2
<1>4. ASSUME NEW a \in Admins, FlagLicense(a) \/ NotifyBroker(a) \/ Killed(a) \/ Index(a)
      PROVE  reply'[r] = reply[r]
  BY <1>4 DEF FlagLicense, NotifyBroker, Killed, Index
<1>5. ASSUME NEW a \in Admins, NEW b \in Buttons, UpdateAccountRequest(a, b)
      PROVE  reply'[r] = reply[r]
  BY <1>5 DEF UpdateAccountRequest
<1>6. ASSUME NEW q \in RequestIds, FileRequest(q)
      PROVE  reply'[r] = reply[r] \/ (reply[r] = "none" /\ reply'[r] = "nil")
  <2>1. reply[q] = "none" /\ reply' = [reply EXCEPT ![q] = "nil"]
    BY <1>6 DEF FileRequest, FilingInv, NotYetFiled
  <2> QED BY <2>1
<1>7. ASSUME NEW q \in RequestIds, FilingCut(q) PROVE reply'[r] = reply[r]
  BY <1>7 DEF FilingCut
<1>8. CASE UNCHANGED vars
  BY <1>8 DEF vars
<1> QED BY <1>1, <1>2, <1>3, <1>4, <1>5, <1>6, <1>7, <1>8 DEF Next, Serve

\* An account request is on the pending page only while it has no reply.
LEMMA AccountListed ==
    ASSUME NEW b \in PendingApplication, b.request[1] = Account
    PROVE  reply[b.request] = "nil"
<1>1. b.request \in Listed
  BY DEF PendingApplication
<1>2. ~complement(b.request)
  BY Ids DEF complement
<1> QED BY <1>1, <1>2 DEF Listed, Pending

LEMMA PagesFreshStep ==
    ASSUME OneAdmin, TypeOK, FilingInv, PagesFresh, [Next]_vars
    PROVE  PagesFresh'
<1> USE DEF TypeOK, PagesFresh
<1> DEFINE Fresh(a) ==
             /\ job[a] # NoJob => page[a] = {}
             /\ \A b \in page[a] : b.request[1] = Account => reply[b.request] = "nil"
             /\ job[a].step = "valid" => reply[job[a].request] = "nil"
<1>a. ASSUME NEW b \in Buttons PROVE b.request \in RequestIds
  BY DEF Buttons
<1>b. ASSUME NEW a \in Admins, job[a].step = "valid"
      PROVE  job[a].request \in RequestIds /\ job[a].request[1] = Account
  BY <1>b, JobType DEF FilingInv, AccountJobs
<1>c. NoJob.step # "valid"
  BY DEF NoJob
<1>1. ASSUME NEW a \in Admins, CommitReply(a) PROVE Fresh(a)'
  <2>1. page'[a] = {} /\ job'[a].step = "committed"
    BY <1>1, JobType DEF CommitReply
  <2> QED BY <2>1
<1>2. ASSUME NEW a \in Admins, ShowsIndex(a), UNCHANGED reply, job'[a] = NoJob PROVE Fresh(a)'
  <2>1. page'[a] = PendingApplication
    BY <1>2 DEF ShowsIndex
  <2> QED BY <1>2, <1>c, <2>1, AccountListed
<1>3. ASSUME NEW a \in Admins, ShowsNothing(a), job'[a].step # "valid" PROVE Fresh(a)'
  BY <1>3 DEF ShowsNothing
<1>4. ASSUME NEW a \in Admins, UNCHANGED <<page, job>>, ~ \E c \in Admins : CommitReply(c)
      PROVE  Fresh(a)'
  <2>1. \A r \in RequestIds : r[1] = Account /\ reply[r] = "nil" => reply'[r] = "nil"
    BY <1>4, AccountReplies
  <2>2. \A b \in page[a] : b.request[1] = Account => reply'[b.request] = "nil"
    BY <2>1, <1>a
  <2>3. job[a].step = "valid" => reply'[job[a].request] = "nil"
    BY <2>1, <1>b
  <2> QED BY <1>4, <2>2, <2>3
<1>5. ASSUME NEW a \in Admins, NEW b \in Buttons, UpdateLicenseRequest(a, b) PROVE Fresh(a)'
  <2>1. ShowsNothing(a) /\ job'[a].step # "valid"
    BY <1>5, LicenseJob
  <2> QED BY <2>1, <1>3
<1>6. ASSUME NEW a \in Admins, NEW b \in Buttons, UpdateAccountRequest(a, b) PROVE Fresh(a)'
  <2>1. b.request[1] = Account /\ b \in page[a] /\ job[a] = NoJob /\ UNCHANGED reply
    BY <1>6 DEF UpdateAccountRequest
  <2>2. reply'[b.request] = "nil"
    BY <2>1
  <2>3. CASE job' = job
    <3>1. ShowsIndex(a) \/ ShowsNothing(a)
      BY <1>6 DEF UpdateAccountRequest
    <3> QED BY <1>2, <1>3, <1>c, <2>1, <2>3, <3>1
  <2>4. CASE job' # job
    <3>1. ShowsNothing(a) /\ job'[a].request = b.request
      BY <1>6, <2>4 DEF UpdateAccountRequest
    <3> QED BY <2>2, <3>1 DEF ShowsNothing
  <2> QED BY <2>3, <2>4
<1>7. ASSUME NEW a \in Admins, FlagLicense(a) \/ NotifyBroker(a) \/ Killed(a) \/ Index(a)
      PROVE  Fresh(a)'
  <2>1. job'[a] = NoJob /\ UNCHANGED reply
    BY <1>7 DEF FlagLicense, NotifyBroker, Killed, Index
  <2>2. ShowsIndex(a) \/ ShowsNothing(a)
    BY <1>7 DEF FlagLicense, NotifyBroker, Killed, Index
  <2> QED BY <1>2, <1>3, <1>c, <2>1, <2>2
<1>8. CASE UNCHANGED <<page, job>> /\ ~ \E c \in Admins : CommitReply(c)
  BY <1>8, <1>4
<1>9. CASE \E t \in LicenseTypes : CheckUpload(t) \/ StoreUpload(t)
  BY <1>8, <1>9, <1>1, JobType DEF CheckUpload, StoreUpload, CommitReply
<1>10. CASE \E l \in LicenseIds : RemoveLicense(l)
  BY <1>8, <1>10 DEF RemoveLicense, CommitReply
<1>11. CASE UNCHANGED vars \/ \E r \in RequestIds : FileRequest(r) \/ FilingCut(r)
  BY <1>8, <1>11, JobType DEF vars, CommitReply, FileRequest, FilingCut
<1>12. CASE \E a \in Admins : Fresh(a)'
  BY <1>12 DEF OneAdmin
<1> QED BY <1>1, <1>5, <1>6, <1>7, <1>9, <1>10, <1>11, <1>12 DEF Next, Serve

\* The verdict on the account, given by the only administrator, is never changed or taken
\* back, neither by his later buttons nor by what the broker does to the licences.
THEOREM VerdictStays ==
    ASSUME OneAdmin
    PROVE  Spec => VerdictFinal
<1> DEFINE Inv == TypeOK /\ FilingInv /\ PagesFresh
           Kept == \A r \in RequestIds :
                      r[1] = Account /\ reply[r] \in Verdicts => reply'[r] = reply[r]
<1>1. Init => Inv
  <2>1. Init => PagesFresh
    BY DEF Init, PagesFresh, NoJob
  <2> QED BY <2>1, TypeInit, FilingInit
<1>2. Inv /\ [Next]_vars => Inv'
  BY TypeStep, FilingStep, PagesFreshStep
<1>3. Inv /\ [Next]_vars => [Kept]_vars
  <2> SUFFICES ASSUME Inv, [Next]_vars, NEW r \in RequestIds, r[1] = Account,
                      reply[r] \in Verdicts
               PROVE  reply'[r] = reply[r]
    OBVIOUS
  <2>1. ASSUME NEW a \in Admins, CommitReply(a) PROVE reply'[r] = reply[r]
    <3>1. reply[job[a].request] = "nil"
      BY <2>1 DEF CommitReply, PagesFresh
    <3>2. r # job[a].request
      BY <3>1 DEF Verdicts
    <3> QED BY <2>1, <3>2 DEF CommitReply, TypeOK
  <2> QED BY <2>1, AccountReplies DEF Verdicts
<1> HIDE DEF Inv
<1> QED BY <1>1, <1>2, <1>3, PTL DEF Spec, VerdictFinal

-----------------------------------------------------------------------------
(***************************************************************************)
(* One administrator, and a registration submitted once, whose requests    *)
(* were filed before                                                       *)
(***************************************************************************)

\* Then only uploads still file requests.
UploadsOnly == \A r \in unfiled : r[1] \in LicenseIds \ Registered

LEMMA UploadsOnlyStep ==
    ASSUME TypeOK, UploadsOnly, [Next]_vars
    PROVE  UploadsOnly'
<1>1. ASSUME NEW t \in LicenseTypes, StoreUpload(t) PROVE UploadsOnly'
  <2>1. PICK l \in LicenseIds \ Registered : unfiled' = unfiled \union {<<l, 1>>}
    BY <1>1 DEF StoreUpload
  <2> QED BY <2>1, UploadId DEF UploadsOnly
<1>2. ASSUME unfiled' \subseteq unfiled PROVE UploadsOnly'
  BY <1>2 DEF UploadsOnly
<1>3. ASSUME \/ \E a \in Admins : \/ Index(a) \/ Serve(a) \/ Killed(a)
                                \/ \E b \in Buttons : UpdateAccountRequest(a, b) \/ UpdateLicenseRequest(a, b)
             \/ \E t \in LicenseTypes : CheckUpload(t)
             \/ \E l \in LicenseIds : RemoveLicense(l)
             \/ \E r \in RequestIds : FileRequest(r) \/ FilingCut(r)
             \/ UNCHANGED vars
      PROVE  unfiled' \subseteq unfiled
  BY <1>3 DEF Index, Serve, FlagLicense, CommitReply, NotifyBroker, Killed, UpdateAccountRequest,
              UpdateLicenseRequest, CheckUpload, RemoveLicense, FileRequest, FilingCut, vars
<1> QED BY <1>1, <1>2, <1>3 DEF Next

LEMMA UploadsOnlyInit == ASSUME ~Filing PROVE Init => UploadsOnly
  BY DEF Init, UploadsOnly

AccountApproved == \E r \in RequestIds : r[1] = Account /\ reply[r] = "approve"

\* The licences stay approved from the validation of the account's approval on: first
\* there is no page, then a page without their buttons.
LicensesFirst ==
    /\ \A a \in Admins :
         /\ job[a].step = "valid" /\ job[a].admin_reply = "approve"
               => check_all_complement_approved
         /\ AccountApproved => \A b \in page[a] : ~complement(b.request)
    /\ AccountApproved => check_all_complement_approved

\* The pending page lists the licences of the registration with the account only.
LEMMA ComplementsListed ==
    ASSUME Submissions = 1, AccountApproved, NEW b \in PendingApplication
    PROVE  ~complement(b.request)
<1> SUFFICES ASSUME complement(b.request) PROVE FALSE
  OBVIOUS
<1>1. b.request \in Listed \ Pending
  BY DEF PendingApplication, Pending
<1>2. PICK q \in Pending : q[1] = Account
  BY <1>1 DEF Listed
<1>3. PICK r \in RequestIds : r[1] = Account /\ reply[r] = "approve"
  BY DEF AccountApproved
<1>4. q = <<q[1], q[2]>> /\ q[2] = 1 /\ r = <<r[1], r[2]>> /\ r[2] = 1 /\ reply[q] = "nil"
  BY RequestParts DEF Pending
<1> QED BY <1>2, <1>3, <1>4

\* Replies to complementary requests change in UpdateLicenseRequest, or to none at all.
LEMMA ComplementReplies ==
    ASSUME TypeOK, AccountJobs, UploadsOnly, [Next]_vars,
           ~ \E a \in Admins, b \in Buttons : UpdateLicenseRequest(a, b) /\ complement(b.request),
           check_all_complement_approved
    PROVE  check_all_complement_approved'
<1> USE DEF TypeOK, check_all_complement_approved, Complements, exists
<1>1. SUFFICES ASSUME NEW r \in RequestIds, complement(r)
               PROVE  reply'[r] = reply[r] \/ reply'[r] = "none"
  BY DEF complement
<1>2. r[1] \in Registered /\ r[1] # Account
  BY <1>1, Ids DEF complement
<1>3. ASSUME NEW a \in Admins, NEW b \in Buttons, UpdateLicenseRequest(a, b)
      PROVE  reply'[r] = reply[r]
  <2>1. r # b.request
    BY <1>1, <1>3
  <2> QED BY <1>3, <2>1 DEF UpdateLicenseRequest
<1>4. ASSUME NEW a \in Admins, CommitReply(a) PROVE reply'[r] = reply[r]
  <2>1. job[a].request[1] = Account
    BY <1>4 DEF CommitReply, AccountJobs
  <2> QED BY <1>2, <1>4, <2>1 DEF CommitReply
<1>5. ASSUME NEW q \in RequestIds, FileRequest(q) \/ FilingCut(q) PROVE reply'[r] = reply[r]
  <2>1. q # r
    BY <1>2, <1>5 DEF FileRequest, FilingCut, UploadsOnly
  <2> QED BY <1>5, <2>1 DEF FileRequest, FilingCut
<1>6. ASSUME NEW l \in LicenseIds, RemoveLicense(l)
      PROVE  reply'[r] = reply[r] \/ reply'[r] = "none"
  BY <1>6 DEF RemoveLicense
<1>7. ASSUME NEW a \in Admins, FlagLicense(a) \/ NotifyBroker(a) \/ Killed(a) \/ Index(a)
      PROVE  reply'[r] = reply[r]
  BY <1>7 DEF FlagLicense, NotifyBroker, Killed, Index
<1>8. ASSUME NEW a \in Admins, NEW b \in Buttons, UpdateAccountRequest(a, b)
      PROVE  reply'[r] = reply[r]
  BY <1>8 DEF UpdateAccountRequest
<1>9. ASSUME NEW t \in LicenseTypes, CheckUpload(t) \/ StoreUpload(t) PROVE reply'[r] = reply[r]
  BY <1>9 DEF CheckUpload, StoreUpload
<1>10. CASE UNCHANGED vars
  BY <1>10 DEF vars
<1> QED BY <1>3, <1>4, <1>5, <1>6, <1>7, <1>8, <1>9, <1>10 DEF Next, Serve

LEMMA LicensesFirstStep ==
    ASSUME OneAdmin, Submissions = 1, TypeOK, FilingInv, UploadsOnly, PagesFresh, LicensesFirst,
           [Next]_vars
    PROVE  LicensesFirst'
<1> USE DEF LicensesFirst, FilingInv
<1> DEFINE Valid(a) == job[a].step = "valid" /\ job[a].admin_reply = "approve"
                          => check_all_complement_approved
           Bare(a)  == AccountApproved => \A b \in page[a] : ~complement(b.request)
<1>a. AccountApproved => check_all_complement_approved'
  <2> SUFFICES ASSUME AccountApproved PROVE check_all_complement_approved'
    OBVIOUS
  <2>1. ~ \E a \in Admins, b \in Buttons : UpdateLicenseRequest(a, b) /\ complement(b.request)
    BY DEF UpdateLicenseRequest
  <2> QED BY <2>1, ComplementReplies
<1>b. ASSUME ~ \E a \in Admins : CommitReply(a), AccountApproved' PROVE AccountApproved
  <2>1. PICK r \in RequestIds : r[1] = Account /\ reply'[r] = "approve"
    BY <1>b DEF AccountApproved
  <2>2. reply'[r] = reply[r]
    BY <1>b, <2>1, AccountReplies
  <2> QED BY <2>1, <2>2 DEF AccountApproved
<1>c. NoJob.step # "valid"
  BY DEF NoJob
<1>1. ASSUME NEW a \in Admins, CommitReply(a) PROVE LicensesFirst'
  <2>1. page'[a] = {} /\ job'[a].step = "committed"
    BY <1>1, JobType DEF CommitReply, PagesFresh, TypeOK
  <2>2. ~ \E c \in Admins, b \in Buttons : UpdateLicenseRequest(c, b) /\ complement(b.request)
    BY <1>1, <1>c DEF CommitReply, UpdateLicenseRequest, OneAdmin
  <2>3. ASSUME AccountApproved' PROVE check_all_complement_approved'
    <3>1. PICK r \in RequestIds : r[1] = Account /\ reply'[r] = "approve"
      BY <2>3 DEF AccountApproved
    <3>2. CASE r = job[a].request
      <4>1. job[a].step = "valid" /\ job[a].admin_reply = "approve"
        BY <1>1, <3>1, <3>2 DEF CommitReply, TypeOK
      <4> QED BY <4>1, <2>2, ComplementReplies
    <3>3. CASE r # job[a].request
      <4>1. reply[r] = "approve"
        BY <1>1, <3>1, <3>3 DEF CommitReply, TypeOK
      <4> QED BY <4>1, <3>1, <1>a DEF AccountApproved
    <3> QED BY <3>2, <3>3
  <2>4. \A c \in Admins : c = a
    BY DEF OneAdmin
  <2> QED BY <2>1, <2>3, <2>4
<1>2. ASSUME NEW a \in Admins, Valid(a)', Bare(a)', ~ \E c \in Admins : CommitReply(c)
      PROVE  LicensesFirst'
  <2>1. \A c \in Admins : c = a
    BY DEF OneAdmin
  <2> QED BY <1>2, <1>a, <1>b, <2>1
<1>3. ASSUME NEW a \in Admins, NEW b \in Buttons, UpdateLicenseRequest(a, b)
      PROVE  LicensesFirst'
  <2>1. page'[a] = {} /\ job'[a].step # "valid"
    BY <1>3, LicenseJob DEF ShowsNothing, TypeOK
  <2>2. ~ \E c \in Admins : CommitReply(c)
    BY <1>3, <1>c DEF UpdateLicenseRequest, CommitReply, OneAdmin
  <2> QED BY <1>2, <2>1, <2>2
<1>4. ASSUME NEW a \in Admins, UNCHANGED reply, ShowsIndex(a) \/ ShowsNothing(a) PROVE Bare(a)'
  <2>1. AccountApproved' = AccountApproved
    BY <1>4 DEF AccountApproved
  <2>2. page'[a] = PendingApplication \/ page'[a] = {}
    BY <1>4 DEF ShowsIndex, ShowsNothing, TypeOK
  <2> QED BY <2>1, <2>2, ComplementsListed
<1>5. ASSUME NEW a \in Admins, NEW b \in Buttons, UpdateAccountRequest(a, b)
      PROVE  LicensesFirst'
  <2>1. Bare(a)'
    BY <1>5, <1>4 DEF UpdateAccountRequest
  <2>2. UNCHANGED reply /\ job[a] = NoJob
    BY <1>5 DEF UpdateAccountRequest
  <2>3. check_all_complement_approved' = check_all_complement_approved
    BY <2>2 DEF check_all_complement_approved, Complements, exists, complement
  <2>4. Valid(a)'
    <3>1. CASE job' = job
      BY <2>2, <3>1, <1>c
    <3>2. CASE job' # job
      <4>1. job'[a].admin_reply = b.admin_reply
        BY <1>5, <3>2 DEF UpdateAccountRequest, TypeOK
      <4>2. b.admin_reply = "approve" => check_all_complement_approved
        BY <1>5, <3>2 DEF UpdateAccountRequest
      <4> QED BY <2>3, <4>1, <4>2
    <3> QED BY <3>1, <3>2
  <2>5. ~ \E c \in Admins : CommitReply(c)
    BY <2>2, <1>c DEF CommitReply, OneAdmin
  <2> QED BY <1>2, <2>1, <2>4, <2>5
<1>6. ASSUME NEW a \in Admins, FlagLicense(a) \/ NotifyBroker(a) \/ Killed(a) \/ Index(a)
      PROVE  LicensesFirst'
  <2>1. job'[a] = NoJob /\ UNCHANGED reply /\ (ShowsIndex(a) \/ ShowsNothing(a))
    BY <1>6 DEF FlagLicense, NotifyBroker, Killed, Index, TypeOK
  <2>2. ~ \E c \in Admins : CommitReply(c)
    BY <2>1 DEF CommitReply, OneAdmin, NoJob, TypeOK, Jobs
  <2> QED BY <1>2, <1>4, <1>c, <2>1, <2>2
<1>7. CASE UNCHANGED <<page, job>>
  <2>1. ~ \E c \in Admins : CommitReply(c)
    BY <1>7, JobType DEF CommitReply, TypeOK
  <2>2. ~ \E a \in Admins, b \in Buttons : UpdateLicenseRequest(a, b) /\ complement(b.request)
    BY <1>7 DEF UpdateLicenseRequest, ShowsNothing, TypeOK
  <2>3. check_all_complement_approved => check_all_complement_approved'
    BY <2>2, ComplementReplies
  <2> QED BY <1>7, <1>a, <1>b, <2>1, <2>3
<1>8. CASE \E t \in LicenseTypes : CheckUpload(t) \/ StoreUpload(t)
  BY <1>7, <1>8 DEF CheckUpload, StoreUpload
<1>9. CASE \E l \in LicenseIds : RemoveLicense(l)
  BY <1>7, <1>9 DEF RemoveLicense
<1>10. CASE UNCHANGED vars \/ \E r \in RequestIds : FileRequest(r) \/ FilingCut(r)
  BY <1>7, <1>10 DEF vars, FileRequest, FilingCut
<1> QED BY <1>1, <1>3, <1>5, <1>6, <1>8, <1>9, <1>10 DEF Next, Serve

\* With one administrator the account of a registration submitted once is never approved
\* while a licence of it is not (BrokerRequest#check_all_complement_approved), whatever the
\* broker uploads or removes and whichever worker is killed, once the submission has filed
\* its requests: before that it may be, as ReviewRace shows.
THEOREM LicensesComeFirst ==
    ASSUME OneAdmin, Submissions = 1, ~Filing
    PROVE  Spec => []AccountNeedsLicenses
<1> DEFINE Inv == TypeOK /\ FilingInv /\ UploadsOnly /\ PagesFresh /\ LicensesFirst
<1>1. Init => Inv
  <2>1. Init => PagesFresh
    BY DEF Init, PagesFresh, NoJob
  <2>2. Init => LicensesFirst
    BY DEF Init, LicensesFirst, AccountApproved, NoJob
  <2> QED BY <2>1, <2>2, TypeInit, FilingInit, UploadsOnlyInit
<1>2. Inv /\ [Next]_vars => Inv'
  BY TypeStep, FilingStep, UploadsOnlyStep, PagesFreshStep, LicensesFirstStep
<1>3. Inv => AccountNeedsLicenses
  BY DEF LicensesFirst, AccountApproved, AccountNeedsLicenses, check_all_complement_approved
<1> HIDE DEF Inv
<1> QED BY <1>1, <1>2, <1>3, PTL DEF Spec

-----------------------------------------------------------------------------
(***************************************************************************)
(* The review implements Application                                       *)
(***************************************************************************)
Verdict == <<Account, 1>>

\* Once there is a verdict no page offers to assess a licence of the registration.
PagesBare ==
    reply[Verdict] # "nil" => \A a \in Admins : \A b \in page[a] : ~complement(b.request)

LEMMA OneSubmission ==
    ASSUME Submissions = 1
    PROVE  /\ Verdict \in RequestIds /\ Verdict[1] = Account
           /\ \A r \in RequestIds : r = <<r[1], 1>> /\ (r[1] = Account => r = Verdict)
           /\ \A l \in Registered : <<l, 1>> \in RequestIds /\ complement(<<l, 1>>)
           /\ ~complement(Verdict)
<1>1. \A r \in RequestIds : r = <<r[1], 1>>
  BY RequestParts
<1>2. \A l \in Registered : <<l, 1>> \in RequestIds /\ <<l, 1>>[1] = l
  BY Ids, UploadId
<1> QED BY <1>1, <1>2, Ids DEF Verdict, RequestIds, complement

LEMMA BareListed ==
    ASSUME Submissions = 1, reply[Verdict] # "nil", NEW b \in PendingApplication
    PROVE  ~complement(b.request)
<1>1. b.request \in Listed
  BY DEF PendingApplication
<1>2. ~ \E q \in Pending : q[1] = Account
  BY OneSubmission DEF Pending
<1> QED BY <1>1, <1>2 DEF Listed, Pending

LEMMA PagesBareStep ==
    ASSUME OneAdmin, Submissions = 1, TypeOK, FilingInv, PagesFresh, PagesBare, [Next]_vars
    PROVE  PagesBare'
<1> USE DEF TypeOK, PagesBare
<1>1. ASSUME NEW a \in Admins, page'[a] = {} PROVE PagesBare'
  BY <1>1 DEF OneAdmin
<1>2. ASSUME NEW a \in Admins, UNCHANGED reply, ShowsIndex(a) \/ ShowsNothing(a) PROVE PagesBare'
  <2>1. page'[a] = PendingApplication \/ page'[a] = {}
    BY <1>2 DEF ShowsIndex, ShowsNothing
  <2> QED BY <1>2, <2>1, BareListed DEF OneAdmin
<1>3. ASSUME ~ \E a \in Admins : CommitReply(a), UNCHANGED page PROVE PagesBare'
  BY <1>3, AccountReplies, OneSubmission
<1>4. ASSUME NEW a \in Admins, CommitReply(a) PROVE PagesBare'
  <2>1. page'[a] = {}
    BY <1>4, JobType DEF CommitReply, PagesFresh
  <2> QED BY <2>1, <1>1
<1>5. ASSUME NEW a \in Admins, NEW b \in Buttons, UpdateLicenseRequest(a, b) PROVE PagesBare'
  BY <1>5, <1>1 DEF UpdateLicenseRequest, ShowsNothing
<1>6. ASSUME NEW a \in Admins,
             \/ Index(a) \/ FlagLicense(a) \/ NotifyBroker(a) \/ Killed(a)
             \/ \E b \in Buttons : UpdateAccountRequest(a, b)
      PROVE  PagesBare'
  BY <1>6, <1>2 DEF Index, FlagLicense, NotifyBroker, Killed, UpdateAccountRequest
<1>7. CASE UNCHANGED <<page, job>>
  BY <1>7, <1>3, JobType DEF CommitReply
<1>8. CASE \E t \in LicenseTypes : CheckUpload(t) \/ StoreUpload(t)
  BY <1>7, <1>8 DEF CheckUpload, StoreUpload
<1>9. CASE \E l \in LicenseIds : RemoveLicense(l)
  BY <1>7, <1>9 DEF RemoveLicense
<1>10. CASE UNCHANGED vars \/ \E r \in RequestIds : FileRequest(r) \/ FilingCut(r)
  BY <1>7, <1>10 DEF vars, FileRequest, FilingCut
<1> QED BY <1>4, <1>5, <1>6, <1>8, <1>9, <1>10 DEF Next, Serve

\* What is filed and accepted depends on the replies to the registration's licences.
LEMMA FiledByReplies ==
    ASSUME Submissions = 1
    PROVE  /\ FiledLicenses = {l \in Registered : reply[<<l, 1>>] # "none"}
           /\ FiledLicenses' = {l \in Registered : reply'[<<l, 1>>] # "none"}
           /\ AcceptedLicenses = {l \in Registered : reply[<<l, 1>>] = "approve"}
           /\ AcceptedLicenses' = {l \in Registered : reply'[<<l, 1>>] = "approve"}
<1>1. FiledLicenses = {l \in Registered : reply[<<l, 1>>] # "none"}
  BY OneSubmission DEF FiledLicenses, Complements, exists, complement
<1>2. FiledLicenses' = {l \in Registered : reply'[<<l, 1>>] # "none"}
  BY OneSubmission DEF FiledLicenses, Complements, exists, complement
<1> QED BY <1>1, <1>2 DEF AcceptedLicenses

LEMMA MemberByReplies ==
    ASSUME Submissions = 1
    PROVE  \A l : /\ l \in FiledLicenses <=> l \in Registered /\ reply[<<l, 1>>] # "none"
                  /\ l \in FiledLicenses' <=> l \in Registered /\ reply'[<<l, 1>>] # "none"
                  /\ l \in AcceptedLicenses <=> l \in Registered /\ reply[<<l, 1>>] = "approve"
                  /\ l \in AcceptedLicenses' <=> l \in Registered /\ reply'[<<l, 1>>] = "approve"
BY FiledByReplies

LEMMA SameApplication ==
    ASSUME Submissions = 1, reply'[Verdict] = reply[Verdict],
           \A l \in Registered : reply'[<<l, 1>>] = reply[<<l, 1>>]
    PROVE  UNCHANGED Under!vars
<1>1. UNCHANGED <<FiledLicenses, AcceptedLicenses>>
  BY FiledByReplies
<1>2. UNCHANGED Stage
  BY DEF Stage, Verdict
<1> QED BY <1>1, <1>2 DEF Under!vars

\* A reply to a licence of the registration is an assessment, while the application
\* is not decided.
LEMMA AssessStep ==
    ASSUME Submissions = 1, TypeOK, PagesBare,
           NEW a \in Admins, NEW b \in Buttons, UpdateLicenseRequest(a, b)
    PROVE  [Under!Next]_(Under!vars)
<1> USE DEF TypeOK
<1>1. CASE ~exists(b.request) \/ ~complement(b.request)
  <2>1. reply'[Verdict] = reply[Verdict]
    BY <1>1, OneSubmission DEF UpdateLicenseRequest, Buttons
  <2>2. \A r \in RequestIds : complement(r) => reply'[r] = reply[r]
    <3>1. CASE ~exists(b.request)
      BY <3>1 DEF UpdateLicenseRequest
    <3>2. CASE ~complement(b.request)
      BY <3>2 DEF UpdateLicenseRequest
    <3> QED BY <1>1, <3>1, <3>2
  <2>3. \A l \in Registered : reply'[<<l, 1>>] = reply[<<l, 1>>]
    BY <2>2, OneSubmission
  <2> QED BY <2>1, <2>3, SameApplication
<1>2. CASE exists(b.request) /\ complement(b.request)
  <2> DEFINE d == b.request[1]
  <2>1. d \in Registered /\ b.request = <<d, 1>> /\ b.request \in RequestIds
        /\ b.admin_reply \in Verdicts
    BY <1>2, OneSubmission DEF complement, Buttons
  <2>2. reply' = [reply EXCEPT ![b.request] = b.admin_reply] /\ b \in page[a]
    BY <1>2 DEF UpdateLicenseRequest
  <2>3. reply[Verdict] = "nil" /\ reply'[Verdict] = "nil"
    <3>1. reply[Verdict] = "nil"
      BY <1>2, <2>2 DEF PagesBare
    <3>2. Verdict # b.request
      BY <2>1, OneSubmission, Ids
    <3> QED BY <3>1, <3>2, <2>1, <2>2
  <2>4. \A l \in Registered : /\ l # d => reply'[<<l, 1>>] = reply[<<l, 1>>]
                              /\ l = d => reply'[<<l, 1>>] = b.admin_reply
    BY <2>1, <2>2, OneSubmission
  <2>5. reply[<<d, 1>>] # "none"
    BY <1>2, <2>1 DEF exists
  <2>6. d \in FiledLicenses /\ FiledLicenses' = FiledLicenses
    <3>1. b.admin_reply # "none"
      BY <2>1 DEF Verdicts
    <3>2. \A l : l \in FiledLicenses' <=> l \in FiledLicenses
      BY <3>1, <2>4, <2>5, MemberByReplies
    <3> QED BY <3>2, <2>1, <2>5, MemberByReplies
  <2>7. AcceptedLicenses' \in {AcceptedLicenses \union {d}, AcceptedLicenses \ {d}}
    <3>1. CASE b.admin_reply = "approve"
      <4>1. \A l : l \in AcceptedLicenses' <=> l \in AcceptedLicenses \/ l = d
        BY <3>1, <2>1, <2>4, MemberByReplies
      <4>2. AcceptedLicenses' = AcceptedLicenses \union {d}
        BY <4>1
      <4> QED BY <4>2
    <3>2. CASE b.admin_reply = "disapprove"
      <4>1. \A l : l \in AcceptedLicenses' <=> l \in AcceptedLicenses /\ l # d
        BY <3>2, <2>1, <2>4, MemberByReplies
      <4>2. AcceptedLicenses' = AcceptedLicenses \ {d}
        BY <4>1
      <4> QED BY <4>2
    <3> QED BY <3>1, <3>2, <2>1 DEF Verdicts
  <2>8. Stage = "filed" /\ Stage' = "filed"
    BY <2>3 DEF Stage, Verdict
  <2>9. Under!Assess(d)
    BY <2>6, <2>7, <2>8 DEF Under!Assess
  <2> QED BY <2>1, <2>9 DEF Under!Next
<1> QED BY <1>1, <1>2

\* The commit of a verdict is the decision.
LEMMA DecideStep ==
    ASSUME Submissions = 1, TypeOK, AccountJobs, PagesFresh, LicensesFirst,
           NEW a \in Admins, CommitReply(a)
    PROVE  [Under!Next]_(Under!vars)
<1> USE DEF TypeOK
<1>1. /\ job[a].request = Verdict
      /\ job[a].admin_reply \in Verdicts
      /\ reply[Verdict] = "nil"
      /\ reply' = [reply EXCEPT ![Verdict] = job[a].admin_reply]
  <2>1. job[a].step = "valid" /\ reply' = [reply EXCEPT ![job[a].request] = job[a].admin_reply]
    BY DEF CommitReply
  <2>2. job[a].request \in RequestIds /\ job[a].request[1] = Account
        /\ job[a].admin_reply \in Verdicts
    BY <2>1, JobType DEF AccountJobs
  <2> QED BY <2>1, <2>2, OneSubmission DEF PagesFresh
<1>2. reply'[Verdict] = job[a].admin_reply
  BY <1>1, OneSubmission
<1>3. \A l \in Registered : reply'[<<l, 1>>] = reply[<<l, 1>>]
  <2>1. \A l \in Registered : <<l, 1>> # Verdict /\ <<l, 1>> \in RequestIds
    BY OneSubmission
  <2> QED BY <2>1, <1>1
<1>4. UNCHANGED <<FiledLicenses, AcceptedLicenses>>
  BY <1>3, FiledByReplies
<1>5. Stage = "filed" /\ Stage' = IF job[a].admin_reply = "approve" THEN "approved" ELSE "rejected"
  BY <1>1, <1>2 DEF Stage, Verdict, Verdicts
<1>6. job[a].admin_reply = "approve" => FiledLicenses \subseteq AcceptedLicenses
  <2>1. job[a].admin_reply = "approve" => check_all_complement_approved
    BY DEF LicensesFirst, CommitReply
  <2>2. check_all_complement_approved => \A l \in FiledLicenses : reply[<<l, 1>>] = "approve"
    BY OneSubmission, FiledByReplies DEF check_all_complement_approved, Complements, exists
  <2> QED BY <2>1, <2>2 DEF AcceptedLicenses
<1>7. Under!Decide
  BY <1>4, <1>5, <1>6 DEF Under!Decide
<1> QED BY <1>7 DEF Under!Next

\* Removing a licence of the registration withdraws it; later uploads are no part of
\* the application.
LEMMA WithdrawStep ==
    ASSUME Submissions = 1, TypeOK, NEW l \in LicenseIds, RemoveLicense(l)
    PROVE  [Under!Next]_(Under!vars)
<1> USE DEF TypeOK
<1>1. <<l, 1>> \in RequestIds /\ <<l, 1>> # Verdict
  BY UploadId, OneSubmission
<1>2. reply' = [reply EXCEPT ![<<l, 1>>] = "none"]
  BY DEF RemoveLicense
<1>3. reply'[Verdict] = reply[Verdict]
  BY <1>1, <1>2, OneSubmission
<1>4. \A m \in Registered : /\ m # l => reply'[<<m, 1>>] = reply[<<m, 1>>]
                            /\ m = l => reply'[<<m, 1>>] = "none"
  BY <1>1, <1>2, OneSubmission
<1>5. CASE l \notin Registered
  <2>1. \A m \in Registered : reply'[<<m, 1>>] = reply[<<m, 1>>]
    BY <1>4, <1>5
  <2>2. UNCHANGED Under!vars
    BY <1>3, <2>1, SameApplication
  <2> QED BY <2>2
<1>6. CASE l \in Registered
  <2>1. FiledLicenses' = FiledLicenses \ {l} /\ AcceptedLicenses' = AcceptedLicenses \ {l}
    <3>1. \A m : /\ m \in FiledLicenses' <=> m \in FiledLicenses /\ m # l
                 /\ m \in AcceptedLicenses' <=> m \in AcceptedLicenses /\ m # l
      BY <1>4, MemberByReplies
    <3> QED BY <3>1
  <2>2. Stage # "open" /\ Stage' = Stage
    BY <1>3 DEF Stage, Verdict
  <2>3. Under!Withdraw(l)
    BY <2>1, <2>2 DEF Under!Withdraw
  <2> QED BY <1>6, <2>3 DEF Under!Next
<1> QED BY <1>5, <1>6

LEMMA UploadStep ==
    ASSUME Submissions = 1, TypeOK, UploadsOnly, NEW r \in RequestIds, FileRequest(r)
    PROVE  UNCHANGED Under!vars
<1> USE DEF TypeOK
<1>1. r[1] \in LicenseIds \ Registered /\ reply' = [reply EXCEPT ![r] = "nil"]
  BY DEF FileRequest, UploadsOnly
<1>2. r # Verdict /\ \A m \in Registered : <<m, 1>> # r /\ <<m, 1>> \in RequestIds
  BY <1>1, OneSubmission, Ids
<1>3. reply'[Verdict] = reply[Verdict]
  BY <1>1, <1>2, OneSubmission
<1>4. \A m \in Registered : reply'[<<m, 1>>] = reply[<<m, 1>>]
  BY <1>1, <1>2
<1> QED BY <1>3, <1>4, SameApplication

\* One administrator's review of a registration submitted once implements Application:
\* however the broker uploads and removes licences and workers are killed, licences are
\* assessed until the one decision, which approves only what is accepted.
THEOREM ReviewImplementsApplication ==
    ASSUME OneAdmin, Submissions = 1, ~Filing
    PROVE  Spec => ImplementsApplication
<1> DEFINE Inv == /\ TypeOK /\ FilingInv /\ UploadsOnly /\ PagesFresh /\ LicensesFirst /\ PagesBare
<1>1. Init => Inv
  <2>1. Init => PagesBare
    BY DEF Init, PagesBare
  <2>2. Init => PagesFresh /\ LicensesFirst
    BY DEF Init, PagesFresh, LicensesFirst, AccountApproved, NoJob
  <2> QED BY <2>1, <2>2, TypeInit, FilingInit, UploadsOnlyInit
<1>2. Inv /\ [Next]_vars => Inv'
  BY TypeStep, FilingStep, UploadsOnlyStep, PagesFreshStep, LicensesFirstStep, PagesBareStep
<1>3. Init => Under!FiledInit
  <2> SUFFICES ASSUME Init PROVE Under!FiledInit
    OBVIOUS
  <2>1. reply[Verdict] = "nil" /\ \A l \in Registered : reply[<<l, 1>>] = "nil"
    BY OneSubmission DEF Init, submission
  <2>2. Stage = "filed"
    BY <2>1 DEF Stage, Verdict
  <2>3. FiledLicenses \in SUBSET Registered /\ AcceptedLicenses = {}
    BY <2>1, FiledByReplies
  <2> QED BY <2>2, <2>3 DEF Under!FiledInit
<1>4. Inv /\ [Next]_vars => [Under!Next]_(Under!vars)
  <2> SUFFICES ASSUME Inv, [Next]_vars PROVE [Under!Next]_(Under!vars)
    OBVIOUS
  <2>1. CASE UNCHANGED reply
    BY <2>1, SameApplication
  <2>2. ASSUME NEW a \in Admins, \/ Index(a) \/ FlagLicense(a) \/ NotifyBroker(a) \/ Killed(a)
                                 \/ \E b \in Buttons : UpdateAccountRequest(a, b)
        PROVE  UNCHANGED reply
    BY <2>2 DEF Index, FlagLicense, NotifyBroker, Killed, UpdateAccountRequest
  <2>3. CASE \E t \in LicenseTypes : CheckUpload(t) \/ StoreUpload(t)
    BY <2>1, <2>3 DEF CheckUpload, StoreUpload
  <2>4. CASE UNCHANGED vars \/ \E r \in RequestIds : FilingCut(r)
    BY <2>1, <2>4 DEF vars, FilingCut
  <2>5. AccountJobs
    BY DEF FilingInv
  <2> QED BY <2>1, <2>2, <2>3, <2>4, <2>5, AssessStep, DecideStep, WithdrawStep, UploadStep
          DEF Next, Serve
<1> HIDE DEF Inv
<1> QED BY <1>1, <1>2, <1>3, <1>4, PTL DEF Spec, ImplementsApplication, Under!ReviewSpec

-----------------------------------------------------------------------------
(***************************************************************************)
(* Any number of administrators, no request cut short                      *)
(***************************************************************************)

\* A verdict that has not had its effect is one that a worker still serves.
Serving(r, step) ==
    \E a \in Admins : job[a].step = step /\ job[a].request = r /\ job[a].admin_reply = reply[r]

AccountTold ==
    \A r \in RequestIds : r[1] = Account /\ reply[r] \in Verdicts =>
       \/ Serving(r, "committed")
       \/ reply[r] \in broker.mails /\ (reply[r] = "approve" => broker.approved)

LicenseFlagged ==
    \A r \in RequestIds : r[1] # Account /\ reply[r] = "approve" =>
       Serving(r, "license") \/ r[1] \in approved

\* The worker of an administrator who presses a button had nothing left to do.
LEMMA ButtonJobs ==
    ASSUME TypeOK, NEW a \in Admins, NEW b \in Buttons,
           UpdateLicenseRequest(a, b) \/ UpdateAccountRequest(a, b)
    PROVE  \A c \in Admins : job[c].step # "none" => job'[c] = job[c]
<1>1. job[a].step = "none"
  <2>1. job[a] = NoJob
    BY DEF UpdateLicenseRequest, UpdateAccountRequest
  <2> QED BY <2>1 DEF NoJob
<1>2. \A c \in Admins : c # a => job'[c] = job[c]
  BY DEF UpdateLicenseRequest, UpdateAccountRequest, TypeOK
<1> QED BY <1>1, <1>2

LEMMA ToldFrame ==
    ASSUME TypeOK, FilingInv, AccountTold, [Next]_vars, ~ \E a \in Admins : CommitReply(a),
           UNCHANGED broker, \A c \in Admins : job[c].step = "committed" => job'[c] = job[c]
    PROVE  AccountTold'
<1>1. \A r \in RequestIds : r[1] = Account /\ reply'[r] \in Verdicts => reply'[r] = reply[r]
  BY AccountReplies DEF Verdicts
<1>2. ASSUME NEW r \in RequestIds, reply'[r] = reply[r], Serving(r, "committed")
      PROVE  Serving(r, "committed")'
  BY <1>2 DEF Serving
<1> QED BY <1>1, <1>2 DEF AccountTold

LEMMA ToldStep ==
    ASSUME ~Faults, TypeOK, NoDanglingRequest, FilingInv, AccountTold, [Next]_vars
    PROVE  AccountTold'
<1>1. ASSUME NEW a \in Admins, CommitReply(a) PROVE AccountTold'
  <2>1. /\ job[a].request \in RequestIds /\ job[a].admin_reply \in Verdicts
        /\ job[a].step = "valid"
    BY <1>1, JobType DEF CommitReply, TypeOK
  <2>2. /\ job'[a].step = "committed" /\ job'[a].request = job[a].request
        /\ job'[a].admin_reply = job[a].admin_reply
    BY <1>1, JobType DEF CommitReply, TypeOK
  <2>3. \A c \in Admins : c # a => job'[c] = job[c]
    BY <1>1 DEF CommitReply, TypeOK
  <2>4. /\ reply'[job[a].request] = job[a].admin_reply
        /\ \A r \in RequestIds : r # job[a].request => reply'[r] = reply[r]
    BY <1>1, <2>1 DEF CommitReply, TypeOK
  <2>5. ASSUME NEW r \in RequestIds, r[1] = Account, reply'[r] \in Verdicts
        PROVE  \/ Serving(r, "committed")'
               \/ reply'[r] \in broker'.mails /\ (reply'[r] = "approve" => broker'.approved)
    <3>1. CASE r = job[a].request
      BY <2>2, <2>4, <3>1 DEF Serving
    <3>2. CASE r # job[a].request
      <4>1. reply'[r] = reply[r] /\ broker' = broker
        BY <1>1, <2>4, <3>2 DEF CommitReply
      <4>2. Serving(r, "committed") => Serving(r, "committed")'
        BY <2>1, <2>3, <4>1 DEF Serving
      <4> QED BY <2>5, <4>1, <4>2 DEF AccountTold
    <3> QED BY <3>1, <3>2
  <2> QED BY <2>5 DEF AccountTold
<1>2. ASSUME NEW a \in Admins, NotifyBroker(a) PROVE AccountTold'
  <2>1. reply' = reply /\ \A c \in Admins : c # a => job'[c] = job[c]
    BY <1>2 DEF NotifyBroker, TypeOK
  <2>2. CanMail(job[a].admin_reply)
    <3>1. LicensesFound
      BY Ids DEF LicensesFound, Complements, complement, NoDanglingRequest
    <3> QED BY <3>1 DEF CanMail
  <2>3. broker \in [approved : BOOLEAN, mails : SUBSET Verdicts]
    BY DEF TypeOK
  <2> DEFINE flagged == [broker EXCEPT !.approved = broker.approved \/ job[a].admin_reply = "approve"]
  <2>4. broker' = [flagged EXCEPT !.mails = flagged.mails \union {job[a].admin_reply}]
    BY <1>2, <2>2 DEF NotifyBroker
  <2>5. /\ flagged \in [approved : BOOLEAN, mails : SUBSET Verdicts]
        /\ flagged.mails = broker.mails
        /\ flagged.approved = (broker.approved \/ job[a].admin_reply = "approve")
    BY <2>3
  <2> HIDE DEF flagged
  <2>6. /\ broker'.mails = broker.mails \union {job[a].admin_reply}
        /\ broker'.approved = (broker.approved \/ job[a].admin_reply = "approve")
    BY <2>4, <2>5
  <2>7. ASSUME NEW r \in RequestIds, r[1] = Account, reply[r] \in Verdicts
        PROVE  \/ Serving(r, "committed")'
               \/ reply[r] \in broker'.mails /\ (reply[r] = "approve" => broker'.approved)
    <3>1. CASE \E c \in Admins \ {a} : /\ job[c].step = "committed" /\ job[c].request = r
                                       /\ job[c].admin_reply = reply[r]
      BY <2>1, <3>1 DEF Serving
    <3>2. CASE job[a].admin_reply = reply[r]
      BY <2>6, <3>2
    <3>3. CASE reply[r] \in broker.mails /\ (reply[r] = "approve" => broker.approved)
      BY <2>6, <3>3
    <3> QED BY <2>7, <3>1, <3>2, <3>3 DEF AccountTold, Serving
  <2> QED BY <2>1, <2>7 DEF AccountTold
<1>3. ASSUME NEW a \in Admins, NEW b \in Buttons,
             UpdateLicenseRequest(a, b) \/ UpdateAccountRequest(a, b), ~ \E c \in Admins : CommitReply(c)
      PROVE  AccountTold'
  <2>1. \A c \in Admins : job[c].step = "committed" => job'[c] = job[c]
    BY <1>3, ButtonJobs
  <2>2. UNCHANGED broker
    BY <1>3 DEF UpdateLicenseRequest, UpdateAccountRequest
  <2> QED BY <1>3, <2>1, <2>2, ToldFrame
<1>4. ASSUME NEW a \in Admins, FlagLicense(a), ~ \E c \in Admins : CommitReply(c)
      PROVE  AccountTold'
  <2>1. \A c \in Admins : job[c].step = "committed" => job'[c] = job[c]
    BY <1>4 DEF FlagLicense, TypeOK
  <2> QED BY <1>4, <2>1, ToldFrame DEF FlagLicense
<1>5. ASSUME UNCHANGED <<broker, job>>, ~ \E c \in Admins : CommitReply(c)
      PROVE  AccountTold'
  BY <1>5, ToldFrame
<1>6. ASSUME NEW a \in Admins, Index(a), ~ \E c \in Admins : CommitReply(c) PROVE AccountTold'
  BY <1>5, <1>6 DEF Index
<1>7. ASSUME \/ \E t \in LicenseTypes : CheckUpload(t) \/ StoreUpload(t)
             \/ \E l \in LicenseIds : RemoveLicense(l)
             \/ \E r \in RequestIds : FileRequest(r) \/ FilingCut(r)
             \/ UNCHANGED vars,
             ~ \E c \in Admins : CommitReply(c)
      PROVE  AccountTold'
  <2>1. UNCHANGED <<broker, job>>
    BY <1>7 DEF CheckUpload, StoreUpload, RemoveLicense, FileRequest, FilingCut, vars
  <2> QED BY <1>5, <1>7, <2>1
<1> QED BY <1>1, <1>2, <1>3, <1>4, <1>6, <1>7 DEF Next, Serve, Killed

LEMMA FlaggedFrame ==
    ASSUME LicenseFlagged,
           \A r \in RequestIds : r[1] # Account /\ reply'[r] = "approve" =>
              reply[r] = "approve" /\ (r[1] \in approved => r[1] \in approved'),
           \A c \in Admins : job[c].step = "license" => job'[c] = job[c]
    PROVE  LicenseFlagged'
<1> SUFFICES ASSUME NEW r \in RequestIds, r[1] # Account, reply'[r] = "approve"
             PROVE  Serving(r, "license")' \/ r[1] \in approved'
  BY DEF LicenseFlagged
<1>1. reply[r] = "approve" /\ (r[1] \in approved => r[1] \in approved')
  OBVIOUS
<1>2. Serving(r, "license") => Serving(r, "license")'
  BY <1>1 DEF Serving
<1> QED BY <1>1, <1>2 DEF LicenseFlagged

LEMMA FlaggedStep ==
    ASSUME ~Faults, Submissions = 1, TypeOK, NoDanglingRequest, AccountJobs, LicenseFlagged,
           [Next]_vars
    PROVE  LicenseFlagged'
<1>1. ASSUME NEW a \in Admins, NEW b \in Buttons, UpdateLicenseRequest(a, b)
      PROVE  LicenseFlagged'
  <2>0. b.request \in RequestIds
    BY DEF Buttons
  <2>1. \A c \in Admins : job[c].step = "license" => job'[c] = job[c]
    BY <1>1, ButtonJobs
  <2>2. CASE ~exists(b.request)
    BY <1>1, <2>1, <2>2, FlaggedFrame DEF UpdateLicenseRequest
  <2>3. CASE exists(b.request)
    <3> DEFINE new == [step |-> "license", request |-> b.request, admin_reply |-> b.admin_reply]
    <3>1. /\ reply' = [reply EXCEPT ![b.request] = b.admin_reply]
          /\ job' = [job EXCEPT ![a] = new] /\ approved' = approved
      BY <1>1, <2>3 DEF UpdateLicenseRequest
    <3>2. new.step = "license" /\ new.request = b.request /\ new.admin_reply = b.admin_reply
      OBVIOUS
    <3> HIDE DEF new
    <3>3. job'[a] = new
      BY <3>1 DEF TypeOK
    <3>4. /\ reply'[b.request] = b.admin_reply
          /\ \A r \in RequestIds : r # b.request => reply'[r] = reply[r]
      BY <2>0, <3>1 DEF TypeOK
    <3>5. ASSUME NEW r \in RequestIds, r[1] # Account, reply'[r] = "approve"
          PROVE  Serving(r, "license")' \/ r[1] \in approved'
      <4>1. CASE r = b.request
        BY <3>2, <3>3, <3>4, <4>1 DEF Serving
      <4>2. CASE r # b.request
        <5>1. reply'[r] = reply[r]
          BY <3>4, <4>2
        <5>2. Serving(r, "license") => Serving(r, "license")'
          BY <2>1, <5>1 DEF Serving
        <5> QED BY <3>1, <3>5, <5>1, <5>2 DEF LicenseFlagged
      <4> QED BY <4>1, <4>2
    <3> QED BY <3>5 DEF LicenseFlagged
  <2> QED BY <2>2, <2>3
<1>2. ASSUME NEW a \in Admins, FlagLicense(a) PROVE LicenseFlagged'
  <2>1. reply' = reply /\ \A c \in Admins : c # a => job'[c] = job[c]
    BY <1>2 DEF FlagLicense, TypeOK
  <2>2. approved \subseteq approved'
    BY <1>2 DEF FlagLicense
  <2>3. ASSUME NEW r \in RequestIds, r[1] # Account, reply[r] = "approve"
        PROVE  Serving(r, "license")' \/ r[1] \in approved'
    <3>1. CASE \E c \in Admins \ {a} : /\ job[c].step = "license" /\ job[c].request = r
                                       /\ job[c].admin_reply = reply[r]
      BY <2>1, <3>1 DEF Serving
    <3>2. CASE job[a].request = r /\ job[a].admin_reply = reply[r]
      <4>1. r[1] \in licenses
        BY <2>3 DEF NoDanglingRequest, exists
      <4> QED BY <1>2, <2>3, <3>2, <4>1 DEF FlagLicense
    <3>3. CASE r[1] \in approved
      BY <2>2, <3>3
    <3> QED BY <2>3, <3>1, <3>2, <3>3 DEF LicenseFlagged, Serving
  <2> QED BY <2>1, <2>3 DEF LicenseFlagged
<1>3. ASSUME NEW a \in Admins, CommitReply(a) PROVE LicenseFlagged'
  <2>1. job[a].request \in RequestIds /\ job[a].request[1] = Account
    BY <1>3, JobType DEF CommitReply, AccountJobs, TypeOK
  <2>2. \A r \in RequestIds : r[1] # Account => reply'[r] = reply[r]
    BY <1>3, <2>1 DEF CommitReply, TypeOK
  <2>3. \A c \in Admins : job[c].step = "license" => job'[c] = job[c]
    BY <1>3 DEF CommitReply, TypeOK
  <2> QED BY <1>3, <2>2, <2>3, FlaggedFrame DEF CommitReply
<1>4. ASSUME NEW q \in RequestIds, FileRequest(q) PROVE LicenseFlagged'
  <2>1. reply' = [reply EXCEPT ![q] = "nil"]
    BY <1>4 DEF FileRequest
  <2>2. \A r \in RequestIds : reply'[r] = "approve" => reply[r] = "approve"
    BY <2>1 DEF TypeOK
  <2> QED BY <1>4, <2>2, FlaggedFrame DEF FileRequest
<1>5. ASSUME NEW l \in LicenseIds, RemoveLicense(l) PROVE LicenseFlagged'
  <2>1. PICK k \in 1..Submissions : reply' = [reply EXCEPT ![<<l, k>>] = "none"]
    BY <1>5 DEF RemoveLicense
  <2>2. approved' = approved \ {l} /\ job' = job
    BY <1>5 DEF RemoveLicense
  <2>3. ASSUME NEW r \in RequestIds, reply'[r] = "approve"
        PROVE  reply[r] = "approve" /\ r[1] # l
    <3>1. r # <<l, k>> /\ reply[r] = "approve"
      BY <2>1, <2>3 DEF TypeOK
    <3>2. k = 1 /\ r[2] = 1 /\ r = <<r[1], r[2]>>
      BY RequestParts
    <3> QED BY <3>1, <3>2
  <2> QED BY <2>2, <2>3, FlaggedFrame
<1>6. ASSUME UNCHANGED <<approved, reply>>,
             \A c \in Admins : job[c].step = "license" => job'[c] = job[c]
      PROVE  LicenseFlagged'
  BY <1>6, FlaggedFrame
<1>7. ASSUME NEW a \in Admins, NEW b \in Buttons, UpdateAccountRequest(a, b)
      PROVE  LicenseFlagged'
  <2>1. \A c \in Admins : job[c].step = "license" => job'[c] = job[c]
    BY <1>7, ButtonJobs
  <2> QED BY <1>6, <1>7, <2>1 DEF UpdateAccountRequest
<1>8. ASSUME NEW a \in Admins, NotifyBroker(a) PROVE LicenseFlagged'
  <2>1. \A c \in Admins : job[c].step = "license" => job'[c] = job[c]
    BY <1>8 DEF NotifyBroker, TypeOK
  <2> QED BY <1>6, <1>8, <2>1 DEF NotifyBroker
<1>9. ASSUME NEW a \in Admins, Index(a) PROVE LicenseFlagged'
  BY <1>6, <1>9 DEF Index
<1>10. ASSUME NEW t \in LicenseTypes, CheckUpload(t) \/ StoreUpload(t) PROVE LicenseFlagged'
  BY <1>6, <1>10 DEF CheckUpload, StoreUpload
<1>11. CASE UNCHANGED vars \/ \E r \in RequestIds : FilingCut(r)
  BY <1>6, <1>11 DEF vars, FilingCut
<1> QED BY <1>1, <1>2, <1>3, <1>4, <1>5, <1>7, <1>8, <1>9, <1>10, <1>11 DEF Next, Serve, Killed

\* With nothing left to serve every verdict has had its effect
\* (BrokerRequestsController#update), although several administrators answer the same
\* requests and the broker removes licences meanwhile: an approved licence is flagged, the
\* verdict on the account is mailed, and an approved broker is flagged.
THEOREM VerdictsTakeEffect ==
    ASSUME ~Faults, Submissions = 1
    PROVE  Spec => []ApprovalTakesEffect
<1>1. Init => AccountTold /\ LicenseFlagged
  <2> SUFFICES ASSUME Init PROVE \A r \in RequestIds : reply[r] \notin Verdicts
    BY DEF AccountTold, LicenseFlagged, Verdicts
  <2> QED BY DEF Init, Verdicts
<1>2. TypeOK /\ FilingInv /\ DanglingInv /\ AccountTold /\ LicenseFlagged /\ [Next]_vars
        => AccountTold' /\ LicenseFlagged'
  BY ToldStep, FlaggedStep DEF DanglingInv, FilingInv
<1>3. AccountTold /\ LicenseFlagged => ApprovalTakesEffect
  <2> SUFFICES ASSUME AccountTold, LicenseFlagged, \A a \in Admins : job[a] = NoJob,
                      NEW r \in RequestIds, reply[r] \in Verdicts
               PROVE  IF r[1] = Account
                      THEN /\ reply[r] \in broker.mails
                           /\ reply[r] = "approve" => broker.approved
                      ELSE reply[r] = "approve" => r[1] \in approved
    BY DEF ApprovalTakesEffect
  <2>1. \A a \in Admins : job[a].step = "none"
    BY DEF NoJob
  <2>2. ~Serving(r, "committed") /\ ~Serving(r, "license")
    BY <2>1 DEF Serving
  <2> QED BY <2>2 DEF AccountTold, LicenseFlagged
<1> QED BY <1>1, <1>2, <1>3, DanglingAlways, PTL DEF Spec
=============================================================================
