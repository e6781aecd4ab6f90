------------------------------ MODULE Pictures ------------------------------
(***************************************************************************)
(* The picture of a broker.  The browser posts the file to the store (S3), *)
(* which sends it back to the profile with the key of the file; the        *)
(* profile then processes it.  "Crop" leaves the work to a sidekiq job,    *)
(* which downloads the file and saves it again; "Delete Picture" removes   *)
(* the files and clears the row.                                           *)
(*                                                                         *)
(* A request or job loads the row, works for a while and then writes the   *)
(* columns it changed.  The uploader looks up the picture it replaces      *)
(* before the row is locked, and removes its files when the row is written.*)
(***************************************************************************)
EXTENDS Naturals, FiniteSets

CONSTANTS
    Keys,       \* bound: the keys of the files ever posted
    Tabs,       \* the tabs the broker works with
    MaxCrops,   \* bound: jobs ever queued
    MaxFaults   \* bound: requests and jobs cut short

ASSUME PicturesAssumption ==
    /\ MaxCrops \in Nat
    /\ MaxFaults \in Nat

VARIABLES
    row,        \* the row of the broker
    files,      \* for each key, what the store holds under it
    posted,     \* the keys used so far
    page,       \* for each tab, the dialog of the page shown and the key in its address
    request,    \* for each tab, the rest of the request under way
    jobs,       \* the jobs, in the order they were queued
    faults,     \* how many requests and jobs were cut short
    halfway,    \* history: the keys of those, and of deletions that were refused
    late        \* history: did a job save a picture the row did not name any more?

vars == <<row, files, posted, page, request, jobs, faults, halfway, late>>

-----------------------------------------------------------------------------
Nil   == "nil"
Crops == 1..MaxCrops

\* image_cropped: "false" while the picture is being processed.
Cropped == {Nil, "false", "true"}
Rows == [image : Keys \union {Nil}, image_cropped : Cropped, email_authen : BOOLEAN]

\* Under a key there is nothing; the file as posted; the file with thumbnails of the
\* whole picture, or with those of a crop.
Nothing  == 0
Posted   == MaxCrops + 1
Whole    == MaxCrops + 2
Contents == {Nothing, Posted, Whole} \union Crops

\* What was loaded: the picture and image_cropped, and whether the address was
\* validated; and the picture found to be replaced.
NoWork == [step |-> "none"]
Steps  == {"save", "write", "flag", "enqueue", "remove", "clear", "drop"}
Requests == [step : Steps, key : Keys \union {Nil}, was : Cropped,
             email_authen : BOOLEAN, previous : Keys \union {Nil}]
Jobs == [step : {"queued", "save", "write", "done"}, key : Keys \union {Nil},
         was : Cropped, previous : Keys \union {Nil}]

TypeOK ==
    /\ row \in Rows
    /\ files \in [Keys -> Contents]
    /\ posted \in SUBSET Keys
    /\ page \in [Tabs -> [dialog : {"upload", "change", "none"}, key : Keys \union {Nil}]]
    /\ request \in [Tabs -> Requests \union {NoWork}]
    /\ jobs \in [Crops -> Jobs \union {NoWork}]
    /\ faults \in 0..MaxFaults
    /\ late \in BOOLEAN
    /\ halfway \in SUBSET (Keys \union {Nil})

Init ==
    /\ row = [image |-> Nil, image_cropped |-> Nil, email_authen |-> TRUE]
    /\ files = [k \in Keys |-> Nothing]
    /\ posted = {}
    /\ page = [t \in Tabs |-> [dialog |-> "upload", key |-> Nil]]
    /\ request = [t \in Tabs |-> NoWork]
    /\ jobs = [n \in Crops |-> NoWork]
    /\ faults = 0
    /\ late = FALSE
    /\ halfway = {}

stored(k) == k \in Keys /\ files[k] # Nothing
Idle(t)   == request[t] = NoWork

(***************************************************************************)
(* The profile offers to upload a picture, or to change the one there is.  *)
(* It opens the file of that one, and cannot be rendered without it.       *)
(***************************************************************************)
Shows(t, image, contents, key) ==
    page' = [page EXCEPT ![t] =
               [dialog |-> IF image = Nil THEN "upload"
                           ELSE IF contents[image] # Nothing THEN "change" ELSE "none",
                key |-> key]]

Fails(t) == page' = [page EXCEPT ![t].dialog = "none"]
Ends(t)  == request' = [request EXCEPT ![t] = NoWork]

\* The request of tab t loads the row.
Begins(t, step, key) ==
    /\ Idle(t)
    /\ request' = [request EXCEPT ![t] =
                     [step |-> step, key |-> key, was |-> row.image_cropped,
                      email_authen |-> row.email_authen, previous |-> Nil]]

(***************************************************************************)
(* The uploader stores what was saved and removes what it replaced, unless *)
(* both have one path.                                                     *)
(***************************************************************************)
Without(k) == [i \in Keys |-> IF i = k THEN Nothing ELSE files[i]]

Replaced(key, content, previous) ==
    [i \in Keys |-> IF i = key THEN content
                    ELSE IF i = previous THEN Nothing ELSE files[i]]

-----------------------------------------------------------------------------
\* The file is posted to the store, which redirects the tab to the profile.
PostPicture(t, k) ==
    /\ Idle(t)
    /\ page[t].dialog = "upload"
    /\ k \notin posted
    /\ posted' = posted \union {k}
    /\ files' = [files EXCEPT ![k] = Posted]
    /\ page' = [page EXCEPT ![t] = [dialog |-> "none", key |-> k]]
    /\ UNCHANGED <<row, request, jobs, halfway, faults, late>>

\* GET show.
Show(t) ==
    /\ Idle(t)
    /\ Shows(t, row.image, files, Nil)
    /\ UNCHANGED <<row, files, posted, request, jobs, halfway, faults, late>>

\* GET show with the key of a file, after a post or when that page is loaded again:
\* the file is downloaded.  A file that is gone is not saved.
ShowKey(t) ==
    /\ page[t].key # Nil
    /\ IF stored(page[t].key)
       THEN Begins(t, "save", page[t].key) /\ UNCHANGED page
       ELSE Idle(t) /\ Fails(t) /\ UNCHANGED request
    /\ UNCHANGED <<row, files, posted, jobs, halfway, faults, late>>

\* save_and_process_image.
FindPrevious(t) ==
    /\ request[t].step = "save"
    /\ request' = [request EXCEPT ![t].previous = row.image, ![t].step = "write"]
    /\ UNCHANGED <<row, files, posted, page, jobs, halfway, faults, late>>

SavePicture(t) ==
    LET r == request[t]
        contents == Replaced(r.key, Whole, r.previous)
    IN
    /\ r.step = "write"
    /\ row' = [row EXCEPT !.image = r.key]
    /\ files' = contents
    /\ Shows(t, r.key, contents, r.key)
    /\ Ends(t)
    /\ UNCHANGED <<posted, jobs, halfway, faults, late>>

(***************************************************************************)
(* PATCH update of the crop form, refused while the address is not         *)
(* validated: image_cropped is set to false, then the job is queued.       *)
(***************************************************************************)
Queued(n) == jobs[n] # NoWork

\* The bound on the jobs.
RoomForJob == Cardinality({n \in Crops : Queued(n)})
                 + Cardinality({t \in Tabs : request[t].step \in {"flag", "enqueue"}}) < MaxCrops

Crop(t) ==
    /\ page[t].dialog = "change"
    /\ row.email_authen
    /\ RoomForJob
    /\ Begins(t, "flag", row.image)
    /\ UNCHANGED <<row, files, posted, page, jobs, halfway, faults, late>>

FlagCropped(t) ==
    LET r == request[t] IN
    /\ r.step = "flag"
    /\ row' = [row EXCEPT !.image_cropped = IF r.was # "false" THEN "false" ELSE @]
    /\ request' = [request EXCEPT ![t].step = "enqueue"]
    /\ UNCHANGED <<files, posted, page, jobs, halfway, faults, late>>

crop_image(t) ==
    /\ request[t].step = "enqueue"
    /\ \E n \in Crops :
         /\ ~Queued(n)
         /\ \A m \in Crops : m < n => Queued(m)
         /\ jobs' = [jobs EXCEPT ![n] = [step |-> "queued", key |-> request[t].key,
                                         was |-> Nil, previous |-> Nil]]
    /\ Shows(t, row.image, files, Nil)
    /\ Ends(t)
    /\ UNCHANGED <<row, files, posted, halfway, faults, late>>

(***************************************************************************)
(* "Delete Picture": the files of the loaded picture are removed at once,  *)
(* the row is saved if valid.  Like any save it removes what it replaces.  *)
(***************************************************************************)
DeletePicture(t) ==
    /\ page[t].dialog = "change"
    /\ Begins(t, "remove", row.image)
    /\ UNCHANGED <<row, files, posted, page, jobs, halfway, faults, late>>

RemoveImage(t) ==
    /\ request[t].step = "remove"
    /\ files' = Without(request[t].key)
    /\ request' = [request EXCEPT ![t].step = "clear"]
    /\ UNCHANGED <<row, posted, page, jobs, halfway, faults, late>>

ValidateDeletion(t) ==
    LET r == request[t] IN
    /\ r.step = "clear"
    /\ \/ /\ r.email_authen
          /\ request' = [request EXCEPT ![t].previous = row.image, ![t].step = "drop"]
          /\ UNCHANGED <<page, halfway>>
       \/ /\ ~r.email_authen
          /\ halfway' = halfway \union {r.key}
          /\ Fails(t)
          /\ Ends(t)
    /\ UNCHANGED <<row, files, posted, jobs, faults, late>>

ClearPictureOnly(t) ==              \* mutant
    LET r == request[t] IN
    /\ r.step = "drop"
    /\ row' = [row EXCEPT !.image = Nil]
    /\ files' = Without(r.previous)
    /\ Shows(t, Nil, files, Nil)
    /\ Ends(t)
    /\ UNCHANGED <<posted, jobs, halfway, faults, late>>

ClearPictureEmpty(t) ==             \* mutant
    LET r == request[t] IN
    /\ r.step = "drop"
    /\ row' = [row EXCEPT !.image = "", !.image_cropped = IF r.was # Nil THEN Nil ELSE @]
    /\ files' = Without(r.previous)
    /\ Shows(t, Nil, files, Nil)
    /\ Ends(t)
    /\ UNCHANGED <<posted, jobs, halfway, faults, late>>

ClearPicture(t) ==
    LET r == request[t] IN
    /\ r.step = "drop"
    /\ row' = [row EXCEPT !.image = Nil, !.image_cropped = IF r.was # Nil THEN Nil ELSE @]
    /\ files' = Without(r.previous)
    /\ Shows(t, Nil, files, Nil)
    /\ Ends(t)
    /\ UNCHANGED <<posted, jobs, halfway, faults, late>>

\* The address of the broker is changed, or validated (module BrokerRegistration).
ChangeEmail ==
    /\ row' = [row EXCEPT !.email_authen = ~@]
    /\ UNCHANGED <<files, posted, page, request, jobs, halfway, faults, late>>

\* The worker is killed (unicorn's timeout); while it saves, perhaps after the files
\* were changed and before the row was committed.
Killed(t) ==
    LET r == request[t] IN
    /\ faults < MaxFaults
    /\ faults' = faults + 1
    /\ ~Idle(t)
    /\ \/ UNCHANGED files
       \/ r.step = "write" /\ files' = Replaced(r.key, Whole, r.previous)
       \/ r.step = "drop" /\ files' = Without(r.previous)
    /\ halfway' = halfway \union {k \in {r.key} : r.step \in {"enqueue", "clear", "drop"}}
                          \union {k \in {r.previous} : files' # files}
    /\ Fails(t)
    /\ Ends(t)
    /\ UNCHANGED <<row, posted, jobs, late>>

-----------------------------------------------------------------------------
(***************************************************************************)
(* ImageWorker#perform: the row is loaded and the file of the key it was   *)
(* queued with downloaded and cropped.  Without a file save! raises, and   *)
(* sidekiq tries again some times.                                         *)
(***************************************************************************)
\* Of a job that is done only the picture it was about matters.
Done(j) == [j EXCEPT !.step = "done", !.was = Nil, !.previous = Nil]

LoadJobUnchecked(n) ==              \* mutant
    LET j == jobs[n] IN
    /\ j.step = "queued"
    /\ j.key # Nil
    /\ jobs' = [jobs EXCEPT ![n].step = IF stored(j.key) THEN "save" ELSE "done",
                            ![n].was = row.image_cropped]
    /\ row' = [row EXCEPT !.image = j.key]
    /\ UNCHANGED <<files, posted, page, request, halfway, faults, late>>

LoadJob(n) ==
    /\ jobs[n].step = "queued"
    /\ stored(jobs[n].key)
    /\ jobs' = [jobs EXCEPT ![n].step = "save", ![n].was = row.image_cropped]
    /\ UNCHANGED <<row, files, posted, page, request, halfway, faults, late>>

FindPreviousOfJob(n) ==
    /\ jobs[n].step = "save"
    /\ jobs' = [jobs EXCEPT ![n].step = "write", ![n].previous = row.image]
    /\ UNCHANGED <<row, files, posted, page, request, halfway, faults, late>>

SaveJob(n) ==
    LET j == jobs[n] IN
    /\ j.step = "write"
    /\ row' = [row EXCEPT !.image = j.key,
                          !.image_cropped = IF j.was # "true" THEN "true" ELSE @]
    /\ files' = Replaced(j.key, n, j.previous)
    /\ jobs' = [jobs EXCEPT ![n] = Done(@)]
    /\ late' = (late \/ row.image # j.key)
    /\ UNCHANGED <<posted, page, request, halfway, faults>>

GiveUp(n) ==
    /\ jobs[n].step = "queued"
    /\ ~stored(jobs[n].key)
    /\ jobs' = [jobs EXCEPT ![n] = Done(@)]
    /\ UNCHANGED <<row, files, posted, page, request, halfway, faults, late>>

\* The worker process is stopped and puts the job back.
RequeueJob(n) ==
    LET j == jobs[n] IN
    /\ faults < MaxFaults
    /\ faults' = faults + 1
    /\ j.step \in {"save", "write"}
    /\ \/ UNCHANGED files
       \/ j.step = "write" /\ files' = Replaced(j.key, n, j.previous)
    /\ halfway' = halfway \union {k \in {j.previous} : files' # files}
    /\ jobs' = [jobs EXCEPT ![n] = [j EXCEPT !.step = "queued", !.was = Nil, !.previous = Nil]]
    /\ UNCHANGED <<row, posted, page, request, late>>

-----------------------------------------------------------------------------
Serve(t) ==
    \/ FindPrevious(t) \/ SavePicture(t)
    \/ FlagCropped(t)  \/ crop_image(t)
    \/ RemoveImage(t)  \/ ValidateDeletion(t) \/ ClearPicture(t)

Perform(n) == LoadJob(n) \/ FindPreviousOfJob(n) \/ SaveJob(n)

Next ==
    \/ \E t \in Tabs :
         \/ \E k \in Keys : PostPicture(t, k)
         \/ Show(t) \/ ShowKey(t) \/ Crop(t) \/ DeletePicture(t)
         \/ Serve(t) \/ Killed(t)
    \/ \E n \in Crops : Perform(n) \/ GiveUp(n) \/ RequeueJob(n)
    \/ ChangeEmail

Spec == Init /\ [][Next]_vars

\* A worker that is not killed finishes its request, and sidekiq a job whose file
\* it finds.
Fairness ==
    /\ \A t \in Tabs : WF_vars(Serve(t))
    /\ \A n \in Crops : WF_vars(Perform(n))

FairSpec == Spec /\ Fairness

-----------------------------------------------------------------------------
(***************************************************************************)
(* Properties                                                              *)
(***************************************************************************)

\* The profile can be rendered: the picture the row names is in the store, whatever
\* jobs and requests overtake each other, unless it is being deleted or that was
\* refused or cut short half-way (image.get_geometry in image/_change_dialog_form).
PictureStored ==
    \/ row.image = Nil
    \/ stored(row.image)
    \/ row.image \in halfway
    \/ \E t \in Tabs : request[t].step \in {"clear", "drop"} /\ row.image = request[t].key

\* "Processing Image..." ends for a broker who uses one tab, although jobs queued
\* for pictures deleted since fail, and late ones write the row of the next picture;
\* unless a request was refused or cut short half-way.
ProcessingEnds ==
    row.image_cropped = "false"
       ~> (row.image_cropped # "false" \/ halfway # {} \/ late)

-----------------------------------------------------------------------------
(***************************************************************************)
(* Statements about pictures that the code does not keep (see README).     *)
(***************************************************************************)

\* A deleted picture does not come back: what the row gets is not what was cleared.
DeletedStaysDeleted ==
    [][row.image = Nil /\ row'.image # Nil
         => \E t \in Tabs : SavePicture(t)]_vars

\* The thumbnails are those of the last crop, once no job is left.
LastCropShown ==
    \A n \in Crops :
       /\ \A m \in Crops : jobs[m].step \in {"none", "done"}
       /\ jobs[n].step = "done" /\ jobs[n].key = row.image
       /\ \A m \in Crops : m > n => jobs[m] = NoWork
       => files[row.image] = n

\* What is not the picture is gone from the store, once nothing is under way.
OnlyPictureStored ==
    /\ halfway = {}
    /\ \A t \in Tabs : Idle(t)
    /\ \A n \in Crops : jobs[n].step \in {"none", "done"}
    => \A k \in Keys : files[k] \notin {Nothing, Posted} => k = row.image
=============================================================================
