---------------------------- MODULE BrokerReview ----------------------------
(***************************************************************************)
(* The review of one submitted registration: BrokerRequestsController of   *)
(* the administration with the validation of BrokerRequest, and what the   *)
(* broker does to the licences meanwhile, from the profile settings        *)
(* (LicensesController).                                                   *)
(*                                                                         *)
(* A handler that commits more than once is one action per commit: `job'   *)
(* is what the worker that serves an administrator still has to do.  An    *)
(* administrator presses buttons of the page shown; another one may have   *)
(* pressed others since that page was rendered.                            *)
(*                                                                         *)
(* The page of pending applications links l.picture for every licence it   *)
(* lists.  Licences have no such attribute (license_image took its place), *)
(* so that as the code stands the page is an error as soon as it lists a   *)
(* licence.  PictureLinks = TRUE is the page with the link repaired.       *)
(***************************************************************************)
EXTENDS Naturals

CONSTANTS
    LicenseTypes,   \* Order::LICENSE_TYPES
    Submitted,      \* the licence types of the registration
    Admins,         \* the administrators at work
    Submissions,    \* how often "Submit" of the registration was processed
    Filing,         \* does the review begin while the submissions still file requests?
    PictureLinks,   \* does a licence have what the pending page links?  FALSE in the code
    Faults,         \* may a request be cut short: mail refused, worker killed?
    MaxUploads,     \* bound: license rows ever created of one type
    MaxPending      \* bound: uploads of one type being served at once

ASSUME ReviewAssumption ==
    /\ Submitted \subseteq LicenseTypes
    /\ Submissions \in {1, 2}
    /\ Filing \in BOOLEAN /\ PictureLinks \in BOOLEAN /\ Faults \in BOOLEAN
    /\ MaxUploads \in Nat \ {0}
    /\ MaxPending \in Nat

VARIABLES
    broker,     \* the row of the broker, and the verdicts mailed to him
    licenses,   \* the rows of the licenses table
    created,    \* the license ids used so far
    approved,   \* the licences with the flag `approved'
    reply,      \* admin_reply of the rows of broker_requests; "none" where there is no row
    unfiled,    \* the requests that a worker is about to create
    page,       \* for each administrator, the buttons of the page shown
    job,        \* for each administrator, the rest of the request being served
    pending     \* for each type, the uploads found valid and not yet stored

vars == <<broker, licenses, created, approved, reply, unfiled, page, job, pending>>

-----------------------------------------------------------------------------
(***************************************************************************)
(* A license is identified by its type and a number that is not used       *)
(* again, a request by its license and the submission that filed it; the   *)
(* account request has no license.  Those of the registration's licences   *)
(* are complementary to the account request, later ones are not.           *)
(***************************************************************************)
LicenseIds == LicenseTypes \X (1..MaxUploads)
Registered == Submitted \X {1}
Account    == <<"account", 0>>
RequestIds == (LicenseIds \union {Account}) \X (1..Submissions)

complement(r) == r[1] \in Registered
submission(r) == r[1] = Account \/ complement(r)

Verdicts == {"approve", "disapprove"}
Buttons  == [request : RequestIds, admin_reply : Verdicts]
NoJob    == [step |-> "none"]
Jobs     == {NoJob} \union [step : {"license", "valid", "committed"},
                            request : RequestIds, admin_reply : Verdicts]

TypeOK ==
    /\ broker \in [approved : BOOLEAN, mails : SUBSET Verdicts]
    /\ created \in SUBSET LicenseIds
    /\ licenses \in SUBSET created
    /\ approved \in SUBSET licenses
    /\ reply \in [RequestIds -> Verdicts \union {"nil", "none"}]
    /\ unfiled \in SUBSET RequestIds
    /\ page \in [Admins -> SUBSET Buttons]
    /\ job \in [Admins -> Jobs]
    /\ pending \in [LicenseTypes -> 0..MaxPending]

\* The flag setup_completed? is stored.  The submission has filed its requests and
\* answered the broker, or still files them.
Init ==
    /\ broker = [approved |-> FALSE, mails |-> {}]
    /\ created = Registered
    /\ licenses = Registered
    /\ approved = {}
    /\ reply = [r \in RequestIds |-> IF submission(r) /\ ~Filing THEN "nil" ELSE "none"]
    /\ unfiled = {r \in RequestIds : submission(r) /\ Filing}
    /\ page = [a \in Admins |-> {}]
    /\ job = [a \in Admins |-> NoJob]
    /\ pending = [t \in LicenseTypes |-> 0]

-----------------------------------------------------------------------------
(***************************************************************************)
(* Requests are rows created one by one: those of a submission the account *)
(* first, that of an upload when its licence is stored.                    *)
(***************************************************************************)
FileRequest(r) ==
    /\ r \in unfiled
    /\ complement(r) => <<Account, r[2]>> \notin unfiled
    /\ reply' = [reply EXCEPT ![r] = "nil"]
    /\ unfiled' = unfiled \ {r}
    /\ UNCHANGED <<broker, licenses, created, approved, page, job, pending>>

\* The worker is killed before it created r, and all it had to create after it.
FilingCut(r) ==
    /\ Faults
    /\ r \in unfiled
    /\ unfiled' = {q \in unfiled : q # r /\ ~(submission(r) /\ submission(q) /\ q[2] = r[2])}
    /\ UNCHANGED <<broker, licenses, created, approved, reply, page, job, pending>>

-----------------------------------------------------------------------------
(***************************************************************************)
(* The page of pending applications.  It lists the requests that are not   *)
(* complementary and not answered; with an account request the             *)
(* complementary ones, each with the buttons for the verdicts it does not  *)
(* have.  It cannot be rendered when the license of a listed request is    *)
(* gone, nor, as the code stands, when a licence is listed at all.  The    *)
(* other two pages have no buttons.                                        *)
(***************************************************************************)
exists(r) == reply[r] # "none"

PendingAll == {r \in RequestIds : exists(r) /\ ~complement(r)}     \* mutant

Pending == {r \in RequestIds : reply[r] = "nil" /\ ~complement(r)}

ListedAlways == Pending \union {r \in RequestIds : exists(r) /\ complement(r)}     \* mutant

Listed == Pending \union {r \in RequestIds : /\ exists(r) /\ complement(r)
                                             /\ \E q \in Pending : q[1] = Account}

Renders == \A r \in Listed : r[1] = Account \/ (PictureLinks /\ r[1] \in licenses)

PendingApplication ==
    IF ~Renders THEN {}
    ELSE {b \in Buttons : b.request \in Listed /\ b.admin_reply # reply[b.request]}

\* The administrator a is sent to the index; or sees the error page, or nothing yet.
ShowsIndex(a)   == page' = [page EXCEPT ![a] = PendingApplication]
ShowsNothing(a) == page' = [page EXCEPT ![a] = {}]

\* GET index.
Index(a) ==
    /\ job[a] = NoJob
    /\ ShowsIndex(a)
    /\ UNCHANGED <<broker, licenses, created, approved, reply, unfiled, job, pending>>

(***************************************************************************)
(* PATCH update of a license request: the reply is committed, then the     *)
(* license is looked up and, for "approve", flagged.                       *)
(***************************************************************************)
UpdateLicenseRequest(a, b) ==
    /\ job[a] = NoJob
    /\ b \in page[a]
    /\ b.request[1] # Account
    /\ IF exists(b.request)
       THEN /\ reply' = [reply EXCEPT ![b.request] = b.admin_reply]
            /\ job' = [job EXCEPT ![a] = [step |-> "license", request |-> b.request,
                                          admin_reply |-> b.admin_reply]]
            /\ ShowsNothing(a)
       ELSE /\ ShowsNothing(a)
            /\ UNCHANGED <<reply, job>>
    /\ UNCHANGED <<broker, licenses, created, approved, unfiled, pending>>

FlagLicenseUnchecked(a) ==      \* mutant
    /\ job[a].step = "license"
    /\ approved' = IF job[a].admin_reply = "approve"
                   THEN approved \union {job[a].request[1]} ELSE approved
    /\ ShowsIndex(a)
    /\ job' = [job EXCEPT ![a] = NoJob]
    /\ UNCHANGED <<broker, licenses, created, unfiled, reply, pending>>

FlagLicenseNever(a) ==          \* mutant
    /\ job[a].step = "license"
    /\ ShowsIndex(a)
    /\ job' = [job EXCEPT ![a] = NoJob]
    /\ UNCHANGED <<broker, licenses, created, approved, reply, unfiled, pending>>

FlagLicense(a) ==
    /\ job[a].step = "license"
    /\ IF job[a].request[1] \in licenses
       THEN /\ approved' = IF job[a].admin_reply = "approve"
                           THEN approved \union {job[a].request[1]} ELSE approved
            /\ ShowsIndex(a)
       ELSE /\ ShowsNothing(a)
            /\ UNCHANGED approved
    /\ job' = [job EXCEPT ![a] = NoJob]
    /\ UNCHANGED <<broker, licenses, created, unfiled, reply, pending>>

(***************************************************************************)
(* PATCH update of an account request.  Only "approve" is validated: every *)
(* complementary request must be approved, and its license found.          *)
(***************************************************************************)
Complements == {r \in RequestIds : exists(r) /\ complement(r)}

LicensesFound == \A r \in Complements : r[1] \in licenses

check_no_complement_disapproved ==      \* mutant
    \A r \in Complements : reply[r] # "disapprove"

check_all_complement_approved == \A r \in Complements : reply[r] = "approve"

UpdateAccountRequest(a, b) ==
    /\ job[a] = NoJob
    /\ b \in page[a]
    /\ b.request[1] = Account
    /\ IF b.admin_reply = "approve" => LicensesFound /\ check_all_complement_approved
       THEN /\ job' = [job EXCEPT ![a] = [step |-> "valid", request |-> b.request,
                                          admin_reply |-> b.admin_reply]]
            /\ ShowsNothing(a)
       ELSE /\ IF LicensesFound THEN ShowsIndex(a) ELSE ShowsNothing(a)
            /\ UNCHANGED job
    /\ UNCHANGED <<broker, licenses, created, approved, reply, unfiled, pending>>

CommitReply(a) ==
    /\ job[a].step = "valid"
    /\ reply' = [reply EXCEPT ![job[a].request] = job[a].admin_reply]
    /\ job' = [job EXCEPT ![a].step = "committed"]
    /\ UNCHANGED <<broker, licenses, created, approved, unfiled, page, pending>>

\* The row of the broker, then the mail.  The text of a rejection lists the licences,
\* and cannot be rendered when one of them is gone.
CanMail(verdict) == verdict = "disapprove" => LicensesFound

NotifyBrokerSilently(a) ==      \* mutant
    /\ job[a].step = "committed"
    /\ broker' = [broker EXCEPT !.approved = @ \/ job[a].admin_reply = "approve"]
    /\ ShowsIndex(a)
    /\ job' = [job EXCEPT ![a] = NoJob]
    /\ UNCHANGED <<licenses, created, approved, reply, unfiled, pending>>

NotifyBroker(a) ==
    LET verdict == job[a].admin_reply
        flagged == [broker EXCEPT !.approved = @ \/ verdict = "approve"]
    IN
    /\ job[a].step = "committed"
    /\ \/ /\ CanMail(verdict)
          /\ broker' = [flagged EXCEPT !.mails = @ \union {verdict}]
          /\ ShowsIndex(a)
       \/ /\ Faults \/ ~CanMail(verdict)
          /\ broker' = flagged
          /\ ShowsNothing(a)
    /\ job' = [job EXCEPT ![a] = NoJob]
    /\ UNCHANGED <<licenses, created, approved, reply, unfiled, pending>>

\* The worker is killed between two commits (unicorn's timeout).
Killed(a) ==
    /\ Faults
    /\ job[a] # NoJob
    /\ job' = [job EXCEPT ![a] = NoJob]
    /\ ShowsNothing(a)
    /\ UNCHANGED <<broker, licenses, created, approved, reply, unfiled, pending>>

-----------------------------------------------------------------------------
(***************************************************************************)
(* The broker's licence settings.  POST licenses validates that there is   *)
(* no license of the type, stores one, and then files a request for it     *)
(* (FileRequest).  DELETE licenses destroys the license with one request   *)
(* of it; it is offered where a request is found.                          *)
(***************************************************************************)
StoredTypes == {l[1] : l \in licenses}

CheckUpload(t) ==
    /\ t \notin StoredTypes
    /\ pending[t] < MaxPending
    /\ pending' = [pending EXCEPT ![t] = @ + 1]
    /\ UNCHANGED <<broker, licenses, created, approved, reply, unfiled, page, job>>

StoreUpload(t) ==
    /\ pending[t] > 0
    /\ pending' = [pending EXCEPT ![t] = @ - 1]
    /\ \E l \in LicenseIds \ (created \union Registered) :
         /\ l[1] = t
         /\ created' = created \union {l}
         /\ licenses' = licenses \union {l}
         /\ unfiled' = unfiled \union {<<l, 1>>}
    /\ UNCHANGED <<broker, approved, reply, page, job>>

RemoveLicenseOnly(l) ==         \* mutant
    /\ l \in licenses
    /\ licenses' = licenses \ {l}
    /\ approved' = approved \ {l}
    /\ \E k \in 1..Submissions : exists(<<l, k>>)
    /\ UNCHANGED <<broker, created, unfiled, reply, page, job, pending>>

RemoveLicense(l) ==
    /\ l \in licenses
    /\ licenses' = licenses \ {l}
    /\ approved' = approved \ {l}
    /\ \E k \in 1..Submissions :
         /\ exists(<<l, k>>)
         /\ reply' = [reply EXCEPT ![<<l, k>>] = "none"]
    /\ UNCHANGED <<broker, created, unfiled, page, job, pending>>

-----------------------------------------------------------------------------
Serve(a) == FlagLicense(a) \/ CommitReply(a) \/ NotifyBroker(a)

Next ==
    \/ \E a \in Admins :
         \/ Index(a)
         \/ \E b \in Buttons : UpdateLicenseRequest(a, b) \/ UpdateAccountRequest(a, b)
         \/ Serve(a)
         \/ Killed(a)
    \/ \E t \in LicenseTypes : CheckUpload(t) \/ StoreUpload(t)
    \/ \E l \in LicenseIds : RemoveLicense(l)
    \/ \E r \in RequestIds : FileRequest(r) \/ FilingCut(r)

Spec == Init /\ [][Next]_vars

\* A worker that is not killed finishes the request it serves.
FairSpec == Spec /\ \A a \in Admins : WF_vars(Serve(a))

-----------------------------------------------------------------------------
(***************************************************************************)
(* Properties                                                              *)
(***************************************************************************)

\* The account of a broker is not approved while one of the licences of the
\* registration is not (BrokerRequest#check_all_complement_approved).
AccountNeedsLicenses ==
    (\E r \in RequestIds : r[1] = Account /\ reply[r] = "approve")
       => \A c \in Complements : reply[c] = "approve"

\* A verdict that was given has its effect once the request is served: an approved
\* license is flagged, the broker of an approved account is flagged, and whoever
\* gets a verdict on the account is mailed it.
ApprovalTakesEffect ==
    \A r \in RequestIds :
       /\ reply[r] \in Verdicts
       /\ \A a \in Admins : job[a] = NoJob
       => IF r[1] = Account
          THEN /\ reply[r] \in broker.mails
               /\ reply[r] = "approve" => broker.approved
          ELSE reply[r] = "approve" => r[1] \in approved

\* No request refers to a license that is gone: License.find in the pending page, in the
\* validation and in the mail of a rejection finds it (License, dependent: :destroy).
NoDanglingRequest ==
    \A r \in RequestIds : exists(r) => r[1] \in licenses \union {Account}

\* The verdict on the account is final: no later button changes or takes it back.
VerdictFinal ==
    [][\A r \in RequestIds :
         r[1] = Account /\ reply[r] \in Verdicts => reply'[r] = reply[r]]_vars

(***************************************************************************)
(* The review as one of an application (module Application), for a         *)
(* registration submitted once: its stage is the reply to the account      *)
(* request, its licences are those with a complementary request, and the   *)
(* accepted ones those with an approved one.                               *)
(***************************************************************************)
Stage == CASE reply[<<Account, 1>>] = "approve" -> "approved"
           [] reply[<<Account, 1>>] = "disapprove" -> "rejected"
           [] OTHER -> "filed"

FiledLicenses    == {r[1] : r \in Complements}
AcceptedLicenses == {l \in FiledLicenses : reply[<<l, 1>>] = "approve"}

Under == INSTANCE Application WITH Documents <- Registered, stage <- Stage,
                                   filed <- FiledLicenses, accepted <- AcceptedLicenses

\* One administrator's review of a registration keeps the promise of Application,
\* although the validation of a verdict and its commit are two steps and the broker
\* removes licences in between (BrokerRequestsController#update).
ImplementsApplication == Under!ReviewSpec

\* An approved account comes to its broker: flagged, and mailed.
ApprovalReachesBroker ==
    (\E r \in RequestIds : r[1] = Account /\ reply[r] = "approve")
       ~> (broker.approved /\ "approve" \in broker.mails)

-----------------------------------------------------------------------------
(***************************************************************************)
(* Statements about the review that the code does not keep (see README).   *)
(***************************************************************************)

\* Every stored license has a request through which it is reviewed, and without which
\* the broker could not remove it either (LicensesController#create).
LicensesReviewable ==
    \A l \in licenses :
        \E k \in 1..Submissions : exists(<<l, k>>) \/ <<l, k>> \in unfiled

\* "You have upload this type of license already" (License): one license of a type.
OneLicensePerType == \A l, m \in licenses : l[1] = m[1] => l = m

\* A broker is approved on the strength of a license: "RichRly will only approve
\* registration from a financial representative if [...] the license/CRD number you
\* provided is a valid license number".
ApprovedWithLicense == [][broker'.approved /\ ~broker.approved => approved # {}]_vars

\* The flag of a license says what the reply to its request says ("RichRly will only
\* display your license information only if your license check is approved").
FlagAgreesWithReply ==
    \A l \in approved : \E k \in 1..Submissions : reply[<<l, k>>] = "approve"
=============================================================================
