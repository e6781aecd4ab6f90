--------------------------- MODULE Pictures_proofs ---------------------------
(***************************************************************************)
(* Proofs about Pictures, for any keys and number of tabs, jobs and        *)
(* faults.                                                                 *)
(***************************************************************************)
EXTENDS Pictures, TLAPS

\* The inductive invariant.
PicturesInv == TypeOK /\ PictureStored

-----------------------------------------------------------------------------
\* The request of a tab that has one, the job of a number that was queued.
LEMMA RequestType ==
    ASSUME TypeOK, NEW t \in Tabs, request[t] # NoWork
    PROVE  request[t] \in Requests
  BY DEF TypeOK

LEMMA StepOfRequest ==
    ASSUME TypeOK, NEW t \in Tabs, request[t].step \in Steps
    PROVE  request[t] \in Requests
  BY DEF TypeOK, NoWork, Steps

LEMMA StepOfJob ==
    ASSUME TypeOK, NEW n \in Crops, jobs[n].step \in {"queued", "save", "write", "done"}
    PROVE  jobs[n] \in Jobs
  BY DEF TypeOK, NoWork

\* A tab's page after a handler, and its request.
LEMMA ShowsType ==
    ASSUME TypeOK, NEW t \in Tabs, NEW image, NEW contents, NEW key \in Keys \union {Nil},
           Shows(t, image, contents, key)
    PROVE  page' \in [Tabs -> [dialog : {"upload", "change", "none"}, key : Keys \union {Nil}]]
  BY DEF TypeOK, Shows

LEMMA FailsType ==
    ASSUME TypeOK, NEW t \in Tabs, Fails(t)
    PROVE  page' \in [Tabs -> [dialog : {"upload", "change", "none"}, key : Keys \union {Nil}]]
<1>1. page[t] \in [dialog : {"upload", "change", "none"}, key : Keys \union {Nil}]
  BY DEF TypeOK
<1>2. [page[t] EXCEPT !.dialog = "none"]
         \in [dialog : {"upload", "change", "none"}, key : Keys \union {Nil}]
  BY <1>1
<1> QED BY <1>2 DEF TypeOK, Fails

LEMMA BeginsType ==
    ASSUME TypeOK, NEW t \in Tabs, NEW step \in Steps, NEW key \in Keys \union {Nil},
           Begins(t, step, key)
    PROVE  request' \in [Tabs -> Requests \union {NoWork}]
<1>1. [step |-> step, key |-> key, was |-> row.image_cropped,
       email_authen |-> row.email_authen, previous |-> Nil] \in Requests
  BY DEF TypeOK, Rows, Requests
<1> QED BY <1>1 DEF TypeOK, Begins

LEMMA EndsType ==
    ASSUME TypeOK, NEW t \in Tabs, Ends(t)
    PROVE  /\ request' \in [Tabs -> Requests \union {NoWork}]
           /\ request'[t] = NoWork
           /\ \A s \in Tabs : s # t => request'[s] = request[s]
  BY DEF TypeOK, Ends

LEMMA FilesType ==
    ASSUME TypeOK, NEW key, NEW previous, NEW content \in Contents
    PROVE  /\ Replaced(key, content, previous) \in [Keys -> Contents]
           /\ Without(key) \in [Keys -> Contents]
  BY DEF TypeOK, Replaced, Without, Contents

\* What a save stores is not nothing.
LEMMA SomeContent ==
    /\ Whole \in Contents /\ Whole # Nothing /\ Posted \in Contents /\ Posted # Nothing
    /\ \A n \in Crops : n \in Contents /\ n # Nothing
  BY PicturesAssumption DEF Contents, Whole, Posted, Nothing, Crops

-----------------------------------------------------------------------------
\* Being deleted: what the deletion that tab t is at has removed already.
Deleting(t, k) == request[t].step \in {"clear", "drop"} /\ k = request[t].key

\* The row still names the picture it named, no file of it is gone, and whoever was
\* deleting it is still at it or left it half-way.
LEMMA KeepsPicture ==
    ASSUME PicturesInv, row'.image = row.image,
           stored(row.image) => stored(row.image)' \/ row.image \in halfway',
           halfway \subseteq halfway',
           \A t \in Tabs : Deleting(t, row.image)
                              => Deleting(t, row.image)' \/ row.image \in halfway'
    PROVE  PictureStored'
<1>1. PictureStored
  BY DEF PicturesInv
<1>2. CASE row.image = Nil \/ row.image \in halfway
  BY <1>2 DEF PictureStored
<1>3. CASE stored(row.image)
  BY <1>3 DEF PictureStored
<1>4. ASSUME NEW t \in Tabs, Deleting(t, row.image)
      PROVE  PictureStored'
  <2>1. Deleting(t, row.image)' \/ row.image \in halfway'
    BY <1>4
  <2> QED BY <2>1 DEF PictureStored, Deleting
<1> QED BY <1>1, <1>2, <1>3, <1>4 DEF PictureStored, Deleting

LEMMA InitPictures == Init => PicturesInv
<1> SUFFICES ASSUME Init PROVE PicturesInv
  OBVIOUS
<1>1. row \in Rows
  BY DEF Init, Rows, Cropped, Nil
<1>2. Nothing \in Contents /\ 0 \in 0..MaxFaults
  BY PicturesAssumption DEF Contents
<1>3. TypeOK
  BY <1>1, <1>2 DEF Init, TypeOK
<1>4. PictureStored
  BY DEF Init, PictureStored
<1> QED BY <1>3, <1>4 DEF PicturesInv

LEMMA PostPictureStep ==
    ASSUME PicturesInv, NEW t \in Tabs, NEW k \in Keys, PostPicture(t, k)
    PROVE  PicturesInv'
<1>1. TypeOK
  BY DEF PicturesInv
<1>2. files' \in [Keys -> Contents] /\ \A i \in Keys : files[i] # Nothing => files'[i] # Nothing
  BY <1>1, SomeContent DEF PostPicture, TypeOK
<1>3. TypeOK'
  BY <1>1, <1>2 DEF PostPicture, TypeOK
<1>4. PictureStored'
  <2>1. stored(row.image) => stored(row.image)'
    BY <1>2 DEF PostPicture, stored
  <2> QED BY <2>1, KeepsPicture DEF PostPicture, Deleting
<1> QED BY <1>3, <1>4 DEF PicturesInv

LEMMA ShowStep ==
    ASSUME PicturesInv, NEW t \in Tabs, Show(t)
    PROVE  PicturesInv'
<1>1. TypeOK
  BY DEF PicturesInv
<1>2. TypeOK'
  <2>1. page' \in [Tabs -> [dialog : {"upload", "change", "none"}, key : Keys \union {Nil}]]
    BY <1>1, ShowsType DEF Show
  <2> QED BY <1>1, <2>1 DEF Show, TypeOK
<1>3. PictureStored'
  BY KeepsPicture DEF Show, Deleting, stored
<1> QED BY <1>2, <1>3 DEF PicturesInv

\* A request that begins deletes nothing yet.
LEMMA BeginsStep ==
    ASSUME PicturesInv, NEW t \in Tabs, NEW step \in Steps, NEW key \in Keys \union {Nil},
           Begins(t, step, key), UNCHANGED <<row, files, posted, page, jobs, halfway, faults, late>>
    PROVE  PicturesInv'
<1>1. TypeOK
  BY DEF PicturesInv
<1>2. TypeOK'
  BY <1>1, BeginsType DEF TypeOK
<1>3. \A s \in Tabs : request'[s] = request[s] \/ request[s] = NoWork
  BY <1>1 DEF Begins, Idle, TypeOK
<1>4. PictureStored'
  <2>1. \A s \in Tabs : Deleting(s, row.image) => Deleting(s, row.image)'
    BY <1>3 DEF Deleting, NoWork
  <2> QED BY <2>1, KeepsPicture DEF stored
<1> QED BY <1>2, <1>4 DEF PicturesInv

LEMMA ShowKeyStep ==
    ASSUME PicturesInv, NEW t \in Tabs, ShowKey(t)
    PROVE  PicturesInv'
<1>1. TypeOK
  BY DEF PicturesInv
<1>2. CASE stored(page[t].key)
  BY <1>1, <1>2, BeginsStep DEF ShowKey, stored, Steps
<1>3. CASE ~stored(page[t].key)
  <2>1. TypeOK'
    BY <1>1, <1>3, FailsType DEF ShowKey, TypeOK
  <2>2. PictureStored'
    BY <1>3, KeepsPicture DEF ShowKey, Deleting, stored
  <2> QED BY <2>1, <2>2 DEF PicturesInv
<1> QED BY <1>2, <1>3

\* The row's picture, as a key to work on.
LEMMA RowImage ==
    ASSUME TypeOK
    PROVE  row.image \in Keys \union {Nil} /\ row.image_cropped \in Cropped
  BY DEF TypeOK, Rows

LEMMA CropStep ==
    ASSUME PicturesInv, NEW t \in Tabs, Crop(t)
    PROVE  PicturesInv'
<1>1. row.image \in Keys \union {Nil}
  BY RowImage DEF PicturesInv
<1> QED BY <1>1, BeginsStep DEF Crop, Steps

LEMMA DeletePictureStep ==
    ASSUME PicturesInv, NEW t \in Tabs, DeletePicture(t)
    PROVE  PicturesInv'
<1>1. row.image \in Keys \union {Nil}
  BY RowImage DEF PicturesInv
<1> QED BY <1>1, BeginsStep DEF DeletePicture, Steps

-----------------------------------------------------------------------------
\* The request of tab t goes on with another step.
LEMMA GoesOn ==
    ASSUME TypeOK, NEW t \in Tabs, request[t] \in Requests, NEW r \in Requests,
           request' = [request EXCEPT ![t] = r]
    PROVE  /\ request' \in [Tabs -> Requests \union {NoWork}]
           /\ request'[t] = r
           /\ \A s \in Tabs : s # t => request'[s] = request[s]
  BY DEF TypeOK

LEMMA FindPreviousStep ==
    ASSUME PicturesInv, NEW t \in Tabs, FindPrevious(t)
    PROVE  PicturesInv'
<1>1. TypeOK /\ request[t] \in Requests /\ row.image \in Keys \union {Nil}
  BY StepOfRequest, RowImage DEF PicturesInv, FindPrevious, Steps
<1> DEFINE r == [request[t] EXCEPT !.previous = row.image, !.step = "write"]
<1>2. r \in Requests
  BY <1>1 DEF Requests, Steps
<1>3. request' = [request EXCEPT ![t] = r]
  BY DEF FindPrevious
<1>4. /\ request' \in [Tabs -> Requests \union {NoWork}]
      /\ \A s \in Tabs : s # t => request'[s] = request[s]
  BY <1>1, <1>2, <1>3, GoesOn
<1>5. TypeOK'
  BY <1>1, <1>4 DEF FindPrevious, TypeOK
<1>6. PictureStored'
  <2>1. \A s \in Tabs : Deleting(s, row.image) => Deleting(s, row.image)'
    BY <1>4 DEF FindPrevious, Deleting
  <2> QED BY <2>1, KeepsPicture DEF FindPrevious, stored
<1> QED BY <1>5, <1>6 DEF PicturesInv

LEMMA SavePictureStep ==
    ASSUME PicturesInv, NEW t \in Tabs, SavePicture(t)
    PROVE  PicturesInv'
<1>1. TypeOK /\ request[t] \in Requests
  BY StepOfRequest DEF PicturesInv, SavePicture, Steps
<1>2. request[t].key \in Keys \union {Nil}
  BY <1>1 DEF Requests
<1>3. row' \in Rows /\ row'.image = request[t].key
  BY <1>1, <1>2 DEF SavePicture, TypeOK, Rows
<1>4. files' \in [Keys -> Contents] /\ files' = Replaced(request[t].key, Whole, request[t].previous)
  BY <1>1, FilesType, SomeContent DEF SavePicture
<1>5. page' \in [Tabs -> [dialog : {"upload", "change", "none"}, key : Keys \union {Nil}]]
  BY <1>1, <1>2, ShowsType DEF SavePicture
<1>6. TypeOK'
  BY <1>1, <1>3, <1>4, <1>5, EndsType DEF SavePicture, TypeOK
<1>7. PictureStored'
  <2>1. row'.image \in Keys => files'[row'.image] = Whole
    BY <1>3, <1>4 DEF Replaced
  <2> QED BY <1>2, <1>3, <2>1, SomeContent DEF PictureStored, stored
<1> QED BY <1>6, <1>7 DEF PicturesInv

LEMMA FlagCroppedStep ==
    ASSUME PicturesInv, NEW t \in Tabs, FlagCropped(t)
    PROVE  PicturesInv'
<1>1. TypeOK /\ request[t] \in Requests /\ row.image_cropped \in Cropped
  BY StepOfRequest, RowImage DEF PicturesInv, FlagCropped, Steps
<1> DEFINE r == [request[t] EXCEPT !.step = "enqueue"]
<1>2. r \in Requests
  BY <1>1 DEF Requests, Steps
<1>3. request' = [request EXCEPT ![t] = r]
  BY DEF FlagCropped
<1>4. /\ request' \in [Tabs -> Requests \union {NoWork}]
      /\ \A s \in Tabs : s # t => request'[s] = request[s]
  BY <1>1, <1>2, <1>3, GoesOn
<1>5. row' \in Rows /\ row'.image = row.image
  BY <1>1 DEF FlagCropped, TypeOK, Rows, Cropped
<1>6. TypeOK'
  BY <1>1, <1>4, <1>5 DEF FlagCropped, TypeOK
<1>7. PictureStored'
  <2>1. \A s \in Tabs : Deleting(s, row.image) => Deleting(s, row.image)'
    BY <1>4, <1>5 DEF FlagCropped, Deleting
  <2> QED BY <1>5, <2>1, KeepsPicture DEF FlagCropped, stored
<1> QED BY <1>6, <1>7 DEF PicturesInv

LEMMA crop_imageStep ==
    ASSUME PicturesInv, NEW t \in Tabs, crop_image(t)
    PROVE  PicturesInv'
<1>1. TypeOK /\ request[t] \in Requests
  BY StepOfRequest DEF PicturesInv, crop_image, Steps
<1>2. jobs' \in [Crops -> Jobs \union {NoWork}]
  <2>1. PICK n \in Crops : jobs' = [jobs EXCEPT ![n] = [step |-> "queued", key |-> request[t].key,
                                                        was |-> Nil, previous |-> Nil]]
    BY DEF crop_image
  <2>2. [step |-> "queued", key |-> request[t].key, was |-> Nil, previous |-> Nil] \in Jobs
    BY <1>1 DEF Requests, Jobs, Cropped
  <2> QED BY <1>1, <2>1, <2>2 DEF TypeOK
<1>3. page' \in [Tabs -> [dialog : {"upload", "change", "none"}, key : Keys \union {Nil}]]
  BY <1>1, ShowsType DEF crop_image
<1>4. TypeOK'
  BY <1>1, <1>2, <1>3, EndsType DEF crop_image, TypeOK
<1>5. PictureStored'
  <2>1. \A s \in Tabs : Deleting(s, row.image) => Deleting(s, row.image)'
    BY <1>1, EndsType DEF crop_image, Deleting
  <2> QED BY <2>1, KeepsPicture DEF crop_image, stored
<1> QED BY <1>4, <1>5 DEF PicturesInv

LEMMA RemoveImageStep ==
    ASSUME PicturesInv, NEW t \in Tabs, RemoveImage(t)
    PROVE  PicturesInv'
<1>1. TypeOK /\ request[t] \in Requests /\ PictureStored
  BY StepOfRequest DEF PicturesInv, RemoveImage, Steps
<1> DEFINE r == [request[t] EXCEPT !.step = "clear"]
<1>2. r \in Requests /\ r.step = "clear" /\ r.key = request[t].key
  BY <1>1 DEF Requests, Steps
<1>3. request' = [request EXCEPT ![t] = r]
  BY DEF RemoveImage
<1>4. /\ request' \in [Tabs -> Requests \union {NoWork}]
      /\ request'[t] = r
      /\ \A s \in Tabs : s # t => request'[s] = request[s]
  BY <1>1, <1>2, <1>3, GoesOn
<1>5. files' \in [Keys -> Contents] /\ files' = Without(request[t].key)
  BY <1>1, FilesType, SomeContent DEF RemoveImage
<1>6. TypeOK'
  BY <1>1, <1>4, <1>5 DEF RemoveImage, TypeOK
<1>7. PictureStored'
  <2>1. CASE row.image = request[t].key
    BY <1>2, <1>4, <2>1 DEF RemoveImage, PictureStored
  <2>2. CASE row.image # request[t].key
    <3>1. stored(row.image) => stored(row.image)'
      BY <1>5, <2>2 DEF RemoveImage, stored, Without
    <3>2. \A s \in Tabs : Deleting(s, row.image) => Deleting(s, row.image)'
      BY <1>4 DEF RemoveImage, Deleting
    <3> QED BY <3>1, <3>2, KeepsPicture DEF RemoveImage
  <2> QED BY <2>1, <2>2
<1> QED BY <1>6, <1>7 DEF PicturesInv

LEMMA ValidateDeletionStep ==
    ASSUME PicturesInv, NEW t \in Tabs, ValidateDeletion(t)
    PROVE  PicturesInv'
<1>1. TypeOK /\ request[t] \in Requests /\ row.image \in Keys \union {Nil}
  BY StepOfRequest, RowImage DEF PicturesInv, ValidateDeletion, Steps
<1>2. CASE request[t].email_authen
  <2> DEFINE r == [request[t] EXCEPT !.previous = row.image, !.step = "drop"]
  <2>1. r \in Requests /\ r.step = "drop" /\ r.key = request[t].key
    BY <1>1 DEF Requests, Steps
  <2>2. request' = [request EXCEPT ![t] = r]
        /\ UNCHANGED <<row, files, posted, page, jobs, halfway, faults, late>>
    BY <1>2 DEF ValidateDeletion
  <2>3. /\ request' \in [Tabs -> Requests \union {NoWork}]
        /\ request'[t] = r
        /\ \A s \in Tabs : s # t => request'[s] = request[s]
    BY <1>1, <2>1, <2>2, GoesOn
  <2>4. TypeOK'
    BY <1>1, <2>2, <2>3 DEF TypeOK
  <2>5. \A s \in Tabs : Deleting(s, row.image) => Deleting(s, row.image)'
    BY <2>1, <2>2, <2>3 DEF Deleting
  <2>6. PictureStored'
    BY <2>2, <2>5, KeepsPicture DEF stored
  <2> QED BY <2>4, <2>6 DEF PicturesInv
<1>3. CASE ~request[t].email_authen
  <2>1. /\ halfway' = halfway \union {request[t].key} /\ Fails(t) /\ Ends(t)
        /\ UNCHANGED <<row, files, posted, jobs, faults, late>>
    BY <1>3 DEF ValidateDeletion
  <2>2. request[t].key \in Keys \union {Nil}
    BY <1>1 DEF Requests
  <2>3. TypeOK'
    BY <1>1, <2>1, <2>2, FailsType, EndsType DEF TypeOK
  <2>4. \A s \in Tabs : Deleting(s, row.image)
                           => Deleting(s, row.image)' \/ row.image \in halfway'
    BY <1>1, <2>1, EndsType DEF Deleting
  <2>5. PictureStored'
    BY <2>1, <2>4, KeepsPicture DEF stored
  <2> QED BY <2>3, <2>5 DEF PicturesInv
<1> QED BY <1>2, <1>3

LEMMA ClearPictureStep ==
    ASSUME PicturesInv, NEW t \in Tabs, ClearPicture(t)
    PROVE  PicturesInv'
<1>1. TypeOK /\ row.image_cropped \in Cropped
  BY RowImage DEF PicturesInv
<1>2. row' \in Rows /\ row'.image = Nil
  BY <1>1 DEF ClearPicture, TypeOK, Rows, Cropped
<1>3. files' \in [Keys -> Contents]
  BY <1>1, FilesType, SomeContent DEF ClearPicture
<1>4. page' \in [Tabs -> [dialog : {"upload", "change", "none"}, key : Keys \union {Nil}]]
  BY <1>1, ShowsType DEF ClearPicture
<1>5. TypeOK'
  BY <1>1, <1>2, <1>3, <1>4, EndsType DEF ClearPicture, TypeOK
<1>6. PictureStored'
  BY <1>2 DEF PictureStored
<1> QED BY <1>5, <1>6 DEF PicturesInv

LEMMA ChangeEmailStep ==
    ASSUME PicturesInv, ChangeEmail
    PROVE  PicturesInv'
<1>1. TypeOK
  BY DEF PicturesInv
<1>2. row' \in Rows /\ row'.image = row.image
  BY <1>1 DEF ChangeEmail, TypeOK, Rows
<1>3. TypeOK'
  BY <1>1, <1>2 DEF ChangeEmail, TypeOK
<1>4. PictureStored'
  BY <1>2, KeepsPicture DEF ChangeEmail, Deleting, stored
<1> QED BY <1>3, <1>4 DEF PicturesInv

\* A save cut short may have removed the picture it was to replace, which then counts as
\* left half-way.
LEMMA CutShortFiles ==
    ASSUME TypeOK, NEW key, NEW previous, NEW content \in Contents, content # Nothing,
           \/ UNCHANGED files
           \/ files' = Replaced(key, content, previous)
           \/ files' = Without(previous),
           {k \in {previous} : files' # files} \subseteq halfway',
           row'.image = row.image
    PROVE  /\ files' \in [Keys -> Contents]
           /\ stored(row.image) => stored(row.image)' \/ row.image \in halfway'
<1>1. files' \in [Keys -> Contents]
  <2>1. files \in [Keys -> Contents]
    BY DEF TypeOK
  <2>2. Replaced(key, content, previous) \in [Keys -> Contents]
        /\ Without(previous) \in [Keys -> Contents]
    BY FilesType
  <2> QED BY <2>1, <2>2
<1>2. files' # files => previous \in halfway'
  OBVIOUS
<1>3. \A i \in Keys : files[i] # Nothing /\ i # previous => files'[i] # Nothing
  BY DEF Replaced, Without
<1> QED BY <1>1, <1>2, <1>3 DEF stored

LEMMA KilledStep ==
    ASSUME PicturesInv, NEW t \in Tabs, Killed(t)
    PROVE  PicturesInv'
<1>1. TypeOK /\ request[t] \in Requests
  BY RequestType DEF PicturesInv, Killed, Idle
<1>2. request[t].key \in Keys \union {Nil} /\ request[t].previous \in Keys \union {Nil}
  BY <1>1 DEF Requests
<1>3. /\ UNCHANGED <<row, posted, jobs, late>>
      /\ halfway' = halfway \union {k \in {request[t].key} : request[t].step \in {"enqueue", "clear", "drop"}}
                            \union {k \in {request[t].previous} : files' # files}
  BY DEF Killed
<1>4. /\ files' \in [Keys -> Contents]
      /\ stored(row.image) => stored(row.image)' \/ row.image \in halfway'
  BY <1>1, <1>3, CutShortFiles, SomeContent DEF Killed
<1>5. halfway' \in SUBSET (Keys \union {Nil})
  BY <1>1, <1>2, <1>3 DEF TypeOK
<1>6. faults' \in 0..MaxFaults
  BY <1>1, PicturesAssumption DEF Killed, TypeOK
<1>7. TypeOK'
  BY <1>1, <1>3, <1>4, <1>5, <1>6, FailsType, EndsType DEF Killed, TypeOK
<1>8. PictureStored'
  <2>1. \A s \in Tabs : Deleting(s, row.image)
                           => Deleting(s, row.image)' \/ row.image \in halfway'
    BY <1>1, <1>3, EndsType DEF Killed, Deleting
  <2> QED BY <1>3, <1>4, <2>1, KeepsPicture
<1> QED BY <1>7, <1>8 DEF PicturesInv

-----------------------------------------------------------------------------
\* A job moves to another step and leaves row, files and requests alone.
LEMMA JobMoves ==
    ASSUME PicturesInv, NEW n \in Crops, NEW j \in Jobs, jobs' = [jobs EXCEPT ![n] = j],
           UNCHANGED <<row, files, posted, page, request, halfway, faults, late>>
    PROVE  PicturesInv'
<1>1. TypeOK
  BY DEF PicturesInv
<1>2. TypeOK'
  BY <1>1 DEF TypeOK
<1>3. PictureStored'
  BY KeepsPicture DEF Deleting, stored
<1> QED BY <1>2, <1>3 DEF PicturesInv

LEMMA LoadJobStep ==
    ASSUME PicturesInv, NEW n \in Crops, LoadJob(n)
    PROVE  PicturesInv'
<1>1. jobs[n] \in Jobs /\ row.image_cropped \in Cropped
  BY StepOfJob, RowImage DEF PicturesInv, LoadJob
<1> DEFINE j == [jobs[n] EXCEPT !.step = "save", !.was = row.image_cropped]
<1>2. j \in Jobs
  BY <1>1 DEF Jobs
<1>3. jobs' = [jobs EXCEPT ![n] = j]
  BY DEF LoadJob
<1> HIDE DEF j
<1> QED BY <1>2, <1>3, JobMoves DEF LoadJob

LEMMA FindPreviousOfJobStep ==
    ASSUME PicturesInv, NEW n \in Crops, FindPreviousOfJob(n)
    PROVE  PicturesInv'
<1>1. jobs[n] \in Jobs /\ row.image \in Keys \union {Nil}
  BY StepOfJob, RowImage DEF PicturesInv, FindPreviousOfJob
<1> DEFINE j == [jobs[n] EXCEPT !.step = "write", !.previous = row.image]
<1>2. j \in Jobs
  BY <1>1 DEF Jobs
<1>3. jobs' = [jobs EXCEPT ![n] = j]
  BY DEF FindPreviousOfJob
<1> HIDE DEF j
<1> QED BY <1>2, <1>3, JobMoves DEF FindPreviousOfJob

LEMMA DoneType ==
    ASSUME NEW j \in Jobs
    PROVE  Done(j) \in Jobs
  BY DEF Jobs, Done, Cropped

LEMMA GiveUpStep ==
    ASSUME PicturesInv, NEW n \in Crops, GiveUp(n)
    PROVE  PicturesInv'
<1>1. jobs[n] \in Jobs
  BY StepOfJob DEF PicturesInv, GiveUp
<1> QED BY <1>1, DoneType, JobMoves DEF GiveUp

LEMMA SaveJobStep ==
    ASSUME PicturesInv, NEW n \in Crops, SaveJob(n)
    PROVE  PicturesInv'
<1>1. TypeOK /\ jobs[n] \in Jobs /\ row.image_cropped \in Cropped
  BY StepOfJob, RowImage DEF PicturesInv, SaveJob
<1>2. jobs[n].key \in Keys \union {Nil}
  BY <1>1 DEF Jobs
<1>3. row' \in Rows /\ row'.image = jobs[n].key
  BY <1>1, <1>2 DEF SaveJob, TypeOK, Rows, Cropped
<1>4. files' \in [Keys -> Contents] /\ files' = Replaced(jobs[n].key, n, jobs[n].previous)
  BY <1>1, FilesType, SomeContent DEF SaveJob
<1>5. jobs' \in [Crops -> Jobs \union {NoWork}]
  BY <1>1, DoneType DEF SaveJob, TypeOK
<1>6. late' \in BOOLEAN
  BY <1>1 DEF SaveJob, TypeOK
<1>7. TypeOK'
  BY <1>1, <1>3, <1>4, <1>5, <1>6 DEF SaveJob, TypeOK
<1>8. PictureStored'
  <2>1. row'.image \in Keys => files'[row'.image] = n
    BY <1>3, <1>4 DEF Replaced
  <2> QED BY <1>2, <1>3, <2>1, SomeContent DEF PictureStored, stored
<1> QED BY <1>7, <1>8 DEF PicturesInv

LEMMA RequeueJobStep ==
    ASSUME PicturesInv, NEW n \in Crops, RequeueJob(n)
    PROVE  PicturesInv'
<1>1. TypeOK /\ jobs[n] \in Jobs
  BY StepOfJob DEF PicturesInv, RequeueJob
<1> DEFINE j == [jobs[n] EXCEPT !.step = "queued", !.was = Nil, !.previous = Nil]
<1>2. j \in Jobs /\ jobs[n].previous \in Keys \union {Nil}
  BY <1>1 DEF Jobs, Cropped
<1>3. jobs' = [jobs EXCEPT ![n] = j]
  BY DEF RequeueJob
<1> HIDE DEF j
<1>4. jobs' \in [Crops -> Jobs \union {NoWork}]
  BY <1>1, <1>2, <1>3 DEF TypeOK
<1>5. /\ UNCHANGED <<row, posted, page, request, late>>
      /\ halfway' = halfway \union {k \in {jobs[n].previous} : files' # files}
  BY DEF RequeueJob
<1>6. /\ files' \in [Keys -> Contents]
      /\ stored(row.image) => stored(row.image)' \/ row.image \in halfway'
  BY <1>1, <1>5, CutShortFiles, SomeContent DEF RequeueJob
<1>7. faults' \in 0..MaxFaults /\ halfway' \in SUBSET (Keys \union {Nil})
  BY <1>1, <1>2, <1>5, PicturesAssumption DEF RequeueJob, TypeOK
<1>8. TypeOK'
  BY <1>1, <1>4, <1>5, <1>6, <1>7 DEF TypeOK
<1>9. PictureStored'
  BY <1>5, <1>6, KeepsPicture DEF Deleting
<1> QED BY <1>8, <1>9 DEF PicturesInv

LEMMA NextPictures == PicturesInv /\ [Next]_vars => PicturesInv'
<1> SUFFICES ASSUME PicturesInv, [Next]_vars PROVE PicturesInv'
  OBVIOUS
<1>1. ASSUME NEW t \in Tabs,
             \/ \E k \in Keys : PostPicture(t, k)
             \/ Show(t) \/ ShowKey(t) \/ Crop(t) \/ DeletePicture(t) \/ Killed(t)
      PROVE  PicturesInv'
  BY <1>1, PostPictureStep, ShowStep, ShowKeyStep, CropStep, DeletePictureStep, KilledStep
<1>2. ASSUME NEW t \in Tabs, Serve(t)
      PROVE  PicturesInv'
  BY <1>2, FindPreviousStep, SavePictureStep, FlagCroppedStep, crop_imageStep,
     RemoveImageStep, ValidateDeletionStep, ClearPictureStep DEF Serve
<1>3. ASSUME NEW n \in Crops, Perform(n) \/ GiveUp(n) \/ RequeueJob(n)
      PROVE  PicturesInv'
  BY <1>3, LoadJobStep, FindPreviousOfJobStep, SaveJobStep, GiveUpStep, RequeueJobStep DEF Perform
<1>4. CASE ChangeEmail
  BY <1>4, ChangeEmailStep
<1>5. CASE UNCHANGED vars
  BY <1>5 DEF vars, PicturesInv, TypeOK, PictureStored, stored
<1> QED BY <1>1, <1>2, <1>3, <1>4, <1>5 DEF Next

-----------------------------------------------------------------------------
LEMMA PicturesInvariant == Spec => []PicturesInv
  BY InitPictures, NextPictures, PTL DEF Spec

\* The broker's row, the store, requests and jobs are well typed.
THEOREM PicturesTypeCorrect == Spec => []TypeOK
<1>1. PicturesInv => TypeOK
  BY DEF PicturesInv
<1> QED BY <1>1, PicturesInvariant, PTL

\* Whatever tabs and jobs overtake each other, the picture the row names is in the store,
\* unless it is being deleted or that was left half-way: for any number of tabs.
THEOREM PicturesStored == Spec => []PictureStored
<1>1. PicturesInv => PictureStored
  BY DEF PicturesInv
<1> QED BY <1>1, PicturesInvariant, PTL
=============================================================================
