------------------------- MODULE Testimonies_proofs -------------------------
(***************************************************************************)
(* Proofs about Testimonies, for any members, posts, bounds and number of  *)
(* workers, with or without impatient members and killed workers.  The     *)
(* votes, the feed and the counters have an invariant each, and all rest   *)
(* on the type invariant.                                                  *)
(***************************************************************************)
EXTENDS Testimonies, FiniteSetTheorems, TLAPS

\* A request that is about to create an activity has a comment's id, or none.
NoticeRows ==
    \A w \in Workers : job[w].step \in {"announce", "notify"} => job[w].row \in 0..MaxComments

TypeInv == TypeOK /\ NoticeRows

Steps == VoteSteps \union WriteSteps

-----------------------------------------------------------------------------
(***************************************************************************)
(* Types.                                                                  *)
(***************************************************************************)

\* The request of a worker that serves one.
LEMMA JobType ==
    ASSUME TypeOK, NEW w \in Workers
    PROVE  /\ job[w] # Idle => job[w] \in Jobs /\ job[w].step \in Steps
           /\ job[w].step \in Steps => job[w] \in Jobs /\ job[w] # Idle
           /\ job[w] = Idle => job[w].step \notin Steps
  BY DEF TypeOK, Idle, Jobs, Steps, VoteSteps, WriteSteps

LEMMA TakesType ==
    ASSUME TypeOK, NEW w \in Workers, NEW step \in Steps, NEW m \in Members, NEW p \in Posts,
           Takes(w, step, m, p)
    PROVE  /\ job' \in [Workers -> Jobs \union {Idle}]
           /\ \A v \in Workers : v # w => job'[v] = job[v]
           /\ job'[w] \in Jobs /\ job'[w] # Idle
           /\ job'[w].step = step /\ job'[w].by = m /\ job'[w].on = p
           /\ job'[w].read = counter[p] /\ job'[w].row = 0
<1> DEFINE r == [step |-> step, by |-> m, on |-> p, read |-> counter[p], row |-> 0]
<1>1. counter[p] \in Int /\ job \in [Workers -> Jobs \union {Idle}]
  BY DEF TypeOK
<1>2. r \in Jobs
  BY <1>1 DEF Jobs, Steps
<1>3. r # Idle
  BY DEF Idle, Steps, VoteSteps, WriteSteps
<1>4. job' = [job EXCEPT ![w] = r]
  BY DEF Takes
<1>5. job'[w] = r /\ job' \in [Workers -> Jobs \union {Idle}]
      /\ \A v \in Workers : v # w => job'[v] = job[v]
  BY <1>1, <1>2, <1>4
<1> QED BY <1>2, <1>3, <1>5

LEMMA ContinuesType ==
    ASSUME TypeOK, NEW w \in Workers, job[w] \in Jobs, NEW step \in Steps, NEW row \in Nat,
           Continues(w, step, row)
    PROVE  /\ job' \in [Workers -> Jobs \union {Idle}]
           /\ \A v \in Workers : v # w => job'[v] = job[v]
           /\ job'[w] \in Jobs /\ job'[w] # Idle
           /\ job'[w].step = step /\ job'[w].by = job[w].by /\ job'[w].on = job[w].on
           /\ job'[w].read = job[w].read /\ job'[w].row = row
<1> DEFINE r == [job[w] EXCEPT !.step = step, !.row = row]
<1>1. /\ r \in Jobs /\ r.step = step /\ r.row = row /\ r.by = job[w].by /\ r.on = job[w].on
      /\ r.read = job[w].read
  BY DEF Jobs, Steps
<1>2. r # Idle
  BY <1>1 DEF Idle, Steps, VoteSteps, WriteSteps
<1>3. job' = [job EXCEPT ![w] = r]
  BY DEF Continues
<1> HIDE DEF r
<1>4. job'[w] = r /\ job' \in [Workers -> Jobs \union {Idle}]
      /\ \A v \in Workers : v # w => job'[v] = job[v]
  BY <1>1, <1>3 DEF TypeOK
<1> QED BY <1>1, <1>2, <1>4

LEMMA EndsType ==
    ASSUME TypeOK, NEW w \in Workers, Ends(w)
    PROVE  /\ job' \in [Workers -> Jobs \union {Idle}]
           /\ \A v \in Workers : v # w => job'[v] = job[v]
           /\ job'[w] = Idle /\ job'[w].step \notin Steps
  BY DEF TypeOK, Ends, Idle, Steps, VoteSteps, WriteSteps

LEMMA HeadingType ==
    ASSUME NEW m \in Members, NEW p \in Posts, links \in [Members -> SUBSET Links],
           links' = [links EXCEPT ![m] = @ \union {heading(m, p)}]
    PROVE  links' \in [Members -> SUBSET Links]
<1>1. heading(m, p) \in Links
  BY DEF heading, Links
<1> QED BY <1>1

\* Only the worker's own step changes what it will write.
LEMMA NoticeFrame ==
    ASSUME NoticeRows, NEW w \in Workers, \A v \in Workers : v # w => job'[v] = job[v],
           job'[w].step \in {"announce", "notify"} => job'[w].row \in 0..MaxComments
    PROVE  NoticeRows'
  BY DEF NoticeRows

LEMMA InitType == Init => TypeInv
<1> SUFFICES ASSUME Init PROVE TypeInv
  OBVIOUS
<1>1. \A w \in Workers : job[w].step = "idle"
  BY DEF Init, Idle
<1>2. TypeOK
  BY PostAssumption DEF Init, TypeOK
<1>3. NoticeRows
  BY <1>1 DEF NoticeRows
<1> QED BY <1>2, <1>3 DEF TypeInv

LEMMA ShowType ==
    ASSUME TypeInv, NEW w \in Workers, NEW m \in Members, NEW p \in Posts, Show(w, m, p)
    PROVE  TypeInv'
<1>1. TypeOK /\ NoticeRows
  BY DEF TypeInv
<1>2. links' \in [Members -> SUBSET Links]
  BY <1>1, HeadingType DEF Show, TypeOK
<1>3. TypeOK'
  BY <1>1, <1>2 DEF Show, TypeOK
<1>4. NoticeRows'
  BY <1>1 DEF Show, NoticeRows
<1> QED BY <1>3, <1>4 DEF TypeInv

\* A request of a member begins, all else unchanged.
LEMMA TakesStep ==
    ASSUME TypeInv, NEW w \in Workers, NEW step \in Steps, NEW m \in Members, NEW p \in Posts,
           Takes(w, step, m, p),
           disturbed' \in SUBSET Posts,
           UNCHANGED <<brokers, author, posts, counter, votes, drawn, comments, written,
                       activities, links, overtaken>>
    PROVE  TypeInv'
<1>1. TypeOK /\ NoticeRows
  BY DEF TypeInv
<1>2. TypeOK'
  BY <1>1, TakesType DEF TypeOK
<1>3. 0 \in 0..MaxComments
  BY PostAssumption
<1>4. NoticeRows'
  <2>1. /\ \A v \in Workers : v # w => job'[v] = job[v]
        /\ job'[w].row = 0
    BY <1>1, TakesType
  <2> QED BY <1>1, <1>3, <2>1, NoticeFrame
<1> QED BY <1>2, <1>4 DEF TypeInv

LEMMA UpdateType ==
    ASSUME TypeInv, NEW w \in Workers, NEW m \in Members, NEW p \in Posts, NEW link,
           Update(w, m, p, link)
    PROVE  TypeInv'
<1> DEFINE step == IF link = "upvote" THEN "validate" ELSE "find"
<1>1. step \in Steps
  BY DEF Steps, VoteSteps, WriteSteps
<1>2. Takes(w, step, m, p) /\ UNCHANGED <<brokers, author, posts, counter, votes, drawn,
                                          comments, written, activities, links, overtaken>>
  BY DEF Update
<1>3. disturbed' \in SUBSET Posts
  BY DEF Update, TypeInv, TypeOK
<1> HIDE DEF step
<1> QED BY <1>1, <1>2, <1>3, TakesStep

LEMMA CommentType ==
    ASSUME TypeInv, NEW w \in Workers, NEW m \in Members, NEW p \in Posts, Comment(w, m, p)
    PROVE  TypeInv'
<1>1. "comment" \in Steps /\ disturbed \in SUBSET Posts
  BY DEF Steps, VoteSteps, WriteSteps, TypeInv, TypeOK
<1> QED BY <1>1, TakesStep DEF Comment

LEMMA CreateType ==
    ASSUME TypeInv, NEW w \in Workers, NEW m \in Members, NEW p \in Posts, Create(w, m, p)
    PROVE  TypeInv'
<1>1. TypeOK /\ NoticeRows /\ m # Nil /\ "announce" \in Steps /\ 0 \in 0..MaxComments
  BY PostAssumption DEF TypeInv, Steps, VoteSteps, WriteSteps
<1>2. /\ job' \in [Workers -> Jobs \union {Idle}]
      /\ \A v \in Workers : v # w => job'[v] = job[v]
      /\ job'[w].row = 0
  BY <1>1, TakesType DEF Create
<1>3. author' \in [Posts -> Members \union {Nil}]
      /\ posts' \in SUBSET {q \in Posts : author'[q] # Nil}
  BY <1>1 DEF Create, TypeOK
<1>4. TypeOK'
  BY <1>1, <1>2, <1>3 DEF Create, TypeOK
<1>5. NoticeRows'
  BY <1>1, <1>2, NoticeFrame
<1> QED BY <1>4, <1>5 DEF TypeInv

\* The worker's request goes on, or ends, with all rows as they are.
LEMMA WorkerStep ==
    ASSUME TypeInv, NEW w \in Workers,
           \/ Ends(w)
           \/ \E step \in Steps \ {"announce", "notify"}, row \in Nat :
                 job[w] \in Jobs /\ Continues(w, step, row),
           links' \in [Members -> SUBSET Links], disturbed' \in SUBSET Posts,
           UNCHANGED <<brokers, author, posts, counter, votes, drawn, comments, written,
                       activities, overtaken>>
    PROVE  TypeInv'
<1>1. TypeOK /\ NoticeRows
  BY DEF TypeInv
<1>2. /\ job' \in [Workers -> Jobs \union {Idle}]
      /\ \A v \in Workers : v # w => job'[v] = job[v]
      /\ job'[w].step \notin {"announce", "notify"}
  <2>1. CASE Ends(w)
    BY <1>1, <2>1, EndsType DEF Steps, VoteSteps, WriteSteps
  <2>2. ASSUME NEW step \in Steps \ {"announce", "notify"}, NEW row \in Nat,
               job[w] \in Jobs, Continues(w, step, row)
        PROVE  /\ job' \in [Workers -> Jobs \union {Idle}]
               /\ \A v \in Workers : v # w => job'[v] = job[v]
               /\ job'[w].step \notin {"announce", "notify"}
    BY <1>1, <2>2, ContinuesType
  <2> QED BY <2>1, <2>2
<1>3. TypeOK'
  BY <1>1, <1>2 DEF TypeOK
<1>4. NoticeRows'
  BY <1>1, <1>2, NoticeFrame
<1> QED BY <1>3, <1>4 DEF TypeInv

LEMMA ValidateType ==
    ASSUME TypeInv, NEW w \in Workers, Validate(w)
    PROVE  TypeInv'
<1>1. TypeOK /\ job[w] \in Jobs /\ "insert" \in Steps \ {"announce", "notify"}
  BY JobType DEF TypeInv, Validate, Steps, VoteSteps, WriteSteps
<1>2. job[w].by \in Members /\ job[w].on \in Posts
  BY <1>1 DEF Jobs
<1>3. links' \in [Members -> SUBSET Links]
  BY <1>1, <1>2, HeadingType DEF Validate, TypeOK
<1>4. Ends(w) \/ Continues(w, "insert", 0)
  BY DEF Validate
<1>5. disturbed' \in SUBSET Posts
  BY <1>1 DEF Validate, TypeOK
<1> QED BY <1>1, <1>3, <1>4, <1>5, WorkerStep DEF Validate

LEMMA FindType ==
    ASSUME TypeInv, NEW w \in Workers, Find(w)
    PROVE  TypeInv'
<1>1. TypeOK /\ job[w] \in Jobs /\ "destroy" \in Steps \ {"announce", "notify"}
  BY JobType DEF TypeInv, Find, Steps, VoteSteps, WriteSteps
<1>2. \A v \in votes : v.id \in Nat
  BY <1>1, PostAssumption DEF TypeOK, Votes
<1>3. Ends(w) \/ \E row \in Nat : Continues(w, "destroy", row)
  BY <1>2 DEF Find, votes_of
<1>4. disturbed' \in SUBSET Posts /\ links' \in [Members -> SUBSET Links]
  BY <1>1 DEF Find, TypeOK
<1> QED BY <1>1, <1>3, <1>4, WorkerStep DEF Find

LEMMA KillType ==
    ASSUME TypeInv, NEW w \in Workers, Kill(w)
    PROVE  TypeInv'
<1>1. TypeOK /\ job[w] \in Jobs
  BY JobType DEF TypeInv, Kill
<1>2. job[w].on \in Posts
  BY <1>1 DEF Jobs
<1>3. disturbed' \in SUBSET Posts /\ links' \in [Members -> SUBSET Links]
  BY <1>1, <1>2 DEF Kill, TypeOK
<1> QED BY <1>3, WorkerStep DEF Kill

LEMMA InsertType ==
    ASSUME TypeInv, NEW w \in Workers, Insert(w)
    PROVE  TypeInv'
<1>1. TypeOK /\ NoticeRows /\ job[w] \in Jobs /\ "count_up" \in Steps
  BY JobType DEF TypeInv, Insert, Steps, VoteSteps, WriteSteps
<1>2. job[w].by \in Members /\ job[w].on \in Posts
  BY <1>1 DEF Jobs
<1>3. drawn' = drawn + 1 /\ drawn' \in 0..MaxVotes /\ drawn' \in 1..MaxVotes /\ drawn \in Nat
      /\ drawn' \in Nat
  BY <1>1, PostAssumption DEF Insert, TypeOK
<1>4. votes' \in SUBSET {v \in Votes : v.id <= drawn'}
  <2>1. [id |-> drawn', by |-> job[w].by, on |-> job[w].on] \in {v \in Votes : v.id <= drawn'}
    BY <1>2, <1>3 DEF Votes
  <2>2. \A v \in votes : v \in Votes /\ v.id <= drawn
    BY <1>1 DEF TypeOK
  <2>3. \A v \in votes : v.id <= drawn'
    <3>1. \A v \in votes : v.id \in Nat
      BY <2>2, PostAssumption DEF Votes
    <3> QED BY <1>3, <2>2, <3>1
  <2> QED BY <2>1, <2>2, <2>3 DEF Insert
<1>5. /\ job' \in [Workers -> Jobs \union {Idle}]
      /\ \A v \in Workers : v # w => job'[v] = job[v]
      /\ job'[w].step = "count_up"
  BY <1>1, <1>3, ContinuesType DEF Insert
<1>6. TypeOK'
  BY <1>1, <1>3, <1>4, <1>5 DEF Insert, TypeOK
<1>7. NoticeRows'
  BY <1>1, <1>5, NoticeFrame
<1> QED BY <1>6, <1>7 DEF TypeInv

LEMMA DestroyType ==
    ASSUME TypeInv, NEW w \in Workers, Destroy(w)
    PROVE  TypeInv'
<1>1. TypeOK /\ NoticeRows /\ job[w] \in Jobs /\ "count_down" \in Steps
  BY JobType DEF TypeInv, Destroy, Steps, VoteSteps, WriteSteps
<1>2. job[w].row \in Nat
  BY <1>1 DEF Jobs
<1>3. /\ job' \in [Workers -> Jobs \union {Idle}]
      /\ \A v \in Workers : v # w => job'[v] = job[v]
      /\ job'[w].step = "count_down"
  BY <1>1, <1>2, ContinuesType DEF Destroy
<1>4. TypeOK'
  BY <1>1, <1>3 DEF Destroy, TypeOK
<1>5. NoticeRows'
  BY <1>1, <1>3, NoticeFrame
<1> QED BY <1>4, <1>5 DEF TypeInv

LEMMA CountType ==
    ASSUME TypeInv, NEW w \in Workers, Count(w)
    PROVE  TypeInv'
<1>1. TypeOK /\ NoticeRows /\ job[w] \in Jobs
  BY JobType DEF TypeInv, Count, Steps, VoteSteps, WriteSteps
<1>2. job[w].by \in Members /\ job[w].on \in Posts /\ job[w].read \in Int
  BY <1>1 DEF Jobs
<1>3. links' \in [Members -> SUBSET Links]
  BY <1>1, <1>2, HeadingType DEF Count, TypeOK
<1>4. counter' \in [Posts -> Int]
  BY <1>1, <1>2 DEF Count, TypeOK
<1>5. /\ job' \in [Workers -> Jobs \union {Idle}]
      /\ \A v \in Workers : v # w => job'[v] = job[v]
      /\ job'[w].step \notin Steps
  BY <1>1, EndsType DEF Count
<1>6. TypeOK'
  BY <1>1, <1>3, <1>4, <1>5 DEF Count, TypeOK
<1>7. NoticeRows'
  BY <1>1, <1>5, NoticeFrame DEF Steps, VoteSteps, WriteSteps
<1> QED BY <1>6, <1>7 DEF TypeInv

LEMMA SaveCommentType ==
    ASSUME TypeInv, NEW w \in Workers, SaveComment(w)
    PROVE  TypeInv'
<1>1. TypeOK /\ NoticeRows /\ job[w] \in Jobs /\ "notify" \in Steps
  BY JobType DEF TypeInv, SaveComment, Steps, VoteSteps, WriteSteps
<1>2. job[w].by \in Members /\ job[w].on \in Posts
  BY <1>1 DEF Jobs
<1>3. written' = written + 1 /\ written' \in 0..MaxComments /\ written' \in 1..MaxComments
      /\ written \in Nat /\ written' \in Nat
  BY <1>1, PostAssumption DEF SaveComment, TypeOK
<1>4. comments' \in SUBSET {c \in Comments : c.id <= written'}
  <2>1. [id |-> written', by |-> job[w].by, on |-> job[w].on]
            \in {c \in Comments : c.id <= written'}
    BY <1>2, <1>3 DEF Comments
  <2>2. \A c \in comments : c \in Comments /\ c.id <= written
    BY <1>1 DEF TypeOK
  <2>3. \A c \in comments : c.id <= written'
    <3>1. \A c \in comments : c.id \in Nat
      BY <2>2, PostAssumption DEF Comments
    <3> QED BY <1>3, <2>2, <3>1
  <2> QED BY <2>1, <2>2, <2>3 DEF SaveComment
<1>5. /\ job' \in [Workers -> Jobs \union {Idle}]
      /\ \A v \in Workers : v # w => job'[v] = job[v]
      /\ job'[w].row = written'
  BY <1>1, <1>3, ContinuesType DEF SaveComment
<1>6. TypeOK'
  BY <1>1, <1>3, <1>4, <1>5 DEF SaveComment, TypeOK
<1>7. NoticeRows'
  BY <1>1, <1>3, <1>5, NoticeFrame
<1> QED BY <1>6, <1>7 DEF TypeInv

LEMMA TrackType ==
    ASSUME TypeInv, NEW w \in Workers, Track(w)
    PROVE  TypeInv'
<1>1. TypeOK /\ NoticeRows /\ job[w] \in Jobs
  BY JobType DEF TypeInv, Track, Steps, VoteSteps, WriteSteps
<1>2. job[w].by \in Members /\ job[w].on \in Posts /\ job[w].row \in 0..MaxComments
  BY <1>1 DEF Jobs, NoticeRows, Track
<1>3. author[job[w].on] \in Members \union {Nil}
  BY <1>1, <1>2 DEF TypeOK
<1>4. activities' \in SUBSET Activities
  BY <1>1, <1>2, <1>3 DEF Track, Activities, TypeOK
<1>5. /\ job' \in [Workers -> Jobs \union {Idle}]
      /\ \A v \in Workers : v # w => job'[v] = job[v]
      /\ job'[w].step \notin Steps
  BY <1>1, EndsType DEF Track
<1>6. TypeOK'
  BY <1>1, <1>4, <1>5 DEF Track, TypeOK
<1>7. NoticeRows'
  BY <1>1, <1>5, NoticeFrame DEF Steps, VoteSteps, WriteSteps
<1> QED BY <1>6, <1>7 DEF TypeInv

LEMMA RemovalType ==
    ASSUME TypeInv, NEW w \in Workers,
           \/ \E c \in comments : DestroyComment(w, c)
           \/ \E gone \in SUBSET posts : DestroyPosts(w, gone)
           \/ \E k \in Brokers : RemoveBroker(w, k)
    PROVE  TypeInv'
<1>1. TypeOK /\ NoticeRows
  BY DEF TypeInv
<1>2. /\ brokers' \subseteq brokers /\ posts' \subseteq posts /\ votes' \subseteq votes
      /\ comments' \subseteq comments /\ activities' \subseteq activities
      /\ UNCHANGED <<author, counter, drawn, written, links, job>>
  BY DEF DestroyComment, DestroyPosts, RemoveBroker, Destroyed
<1>3. disturbed' \in SUBSET Posts
  <2>1. \A v \in votes : v.on \in Posts
    BY <1>1 DEF TypeOK, Votes
  <2>2. disturbed \in SUBSET Posts
    BY <1>1 DEF TypeOK
  <2>3. ASSUME NEW k \in Brokers, RemoveBroker(w, k) PROVE disturbed' \in SUBSET Posts
    <3>1. disturbed' = disturbed \union {v.on : v \in {u \in votes : u.by = k}}
      BY <2>3 DEF RemoveBroker
    <3> QED BY <2>1, <2>2, <3>1
  <2>4. (\E k \in Brokers : RemoveBroker(w, k)) \/ disturbed' = disturbed
    BY DEF DestroyComment, DestroyPosts
  <2> QED BY <2>2, <2>3, <2>4
<1>6. overtaken' \in SUBSET Posts
  <2>1. /\ written_on \in SUBSET Posts /\ \A k : written_by(k) \in SUBSET Posts
        /\ overtaken \in SUBSET Posts
    BY <1>1, JobType DEF written_on, written_by, Steps, Jobs, TypeOK
  <2>2. \/ \E S : overtaken' = overtaken \union (S \cap written_on)
        \/ \E k, S : overtaken' = overtaken \union (S \cap written_on) \union written_by(k)
    BY DEF DestroyComment, DestroyPosts, RemoveBroker
  <2> QED BY <2>1, <2>2
<1>4. TypeOK'
  BY <1>1, <1>2, <1>3, <1>6 DEF TypeOK
<1>5. NoticeRows'
  BY <1>1, <1>2 DEF NoticeRows
<1> QED BY <1>4, <1>5 DEF TypeInv

LEMMA NextType == TypeInv /\ [Next]_vars => TypeInv'
<1> SUFFICES ASSUME TypeInv, [Next]_vars PROVE TypeInv'
  OBVIOUS
<1>1. ASSUME NEW w \in Workers, NEW m \in Members, NEW p \in Posts,
             \/ Show(w, m, p) \/ Update(w, m, p, "upvote") \/ Update(w, m, p, "cancel_upvote")
             \/ Create(w, m, p) \/ Comment(w, m, p)
      PROVE  TypeInv'
  BY <1>1, ShowType, UpdateType, CreateType, CommentType
<1>2. ASSUME NEW w \in Workers,
             \/ Validate(w) \/ Insert(w) \/ Find(w) \/ Destroy(w) \/ Count(w)
             \/ SaveComment(w) \/ Track(w) \/ Kill(w)
      PROVE  TypeInv'
  BY <1>2, ValidateType, InsertType, FindType, DestroyType, CountType, SaveCommentType,
     TrackType, KillType
<1>3. ASSUME NEW w \in Workers,
             \/ \E c \in comments : DestroyComment(w, c)
             \/ \E gone \in SUBSET posts : DestroyPosts(w, gone)
             \/ \E k \in Brokers : RemoveBroker(w, k)
      PROVE  TypeInv'
  BY <1>3, RemovalType
<1>4. CASE UNCHANGED vars
  BY <1>4 DEF vars, TypeInv, TypeOK, NoticeRows
<1> QED BY <1>1, <1>2, <1>3, <1>4 DEF Next

\* Rows, pages and requests are well typed with any number of workers; no vote or comment
\* has an id that was not drawn.
THEOREM TestimoniesTypeCorrect == Spec => []TypeOK
<1>1. TypeInv => TypeOK
  BY DEF TypeInv
<1> QED BY <1>1, InitType, NextType, PTL DEF Spec

-----------------------------------------------------------------------------
(***************************************************************************)
(* What one worker does, and what it leaves to the others.                 *)
(***************************************************************************)
Act(w) ==
    \/ \E m \in Members, p \in Posts :
          \/ Show(w, m, p) \/ Update(w, m, p, "upvote") \/ Update(w, m, p, "cancel_upvote")
          \/ Create(w, m, p) \/ Comment(w, m, p)
    \/ Validate(w) \/ Insert(w) \/ Find(w) \/ Destroy(w) \/ Count(w)
    \/ SaveComment(w) \/ Track(w)
    \/ \E c \in comments : DestroyComment(w, c)
    \/ \E gone \in SUBSET posts : DestroyPosts(w, gone)
    \/ \E k \in Brokers : RemoveBroker(w, k)
    \/ Kill(w)

\* The worker's request is the same one, is over, begins, or is at another step.
Moved(w) ==
    /\ \A v \in Workers : v # w => job'[v] = job[v]
    /\ \/ job'[w] = job[w]
       \/ job'[w] = Idle
       \/ /\ job[w] = Idle /\ Sends(job'[w].by)
          /\ job'[w].step \in {"validate", "find", "comment", "announce"}
       \/ /\ job[w] # Idle /\ job'[w].by = job[w].by /\ job'[w].on = job[w].on
          /\ job'[w].step = "insert" => Validate(w)

LEMMA MovedByRequest ==
    ASSUME TypeOK, NEW w \in Workers, NEW m \in Members, NEW p \in Posts,
           \/ Update(w, m, p, "upvote") \/ Update(w, m, p, "cancel_upvote")
           \/ Create(w, m, p) \/ Comment(w, m, p)
    PROVE  Moved(w)
<1>1. PICK step \in {"validate", "find", "comment", "announce"} :
         Takes(w, step, m, p) /\ job[w] = Idle /\ Sends(m)
  BY DEF Update, Create, Comment
<1>2. step \in Steps
  BY DEF Steps, VoteSteps, WriteSteps
<1>3. /\ \A v \in Workers : v # w => job'[v] = job[v]
      /\ job'[w].step = step /\ job'[w].by = m
  BY <1>1, <1>2, TakesType
<1> QED BY <1>1, <1>3 DEF Moved

LEMMA MovedByEnd ==
    ASSUME TypeOK, NEW w \in Workers, Ends(w)
    PROVE  Moved(w)
  BY EndsType DEF Moved

LEMMA MovedByStep ==
    ASSUME TypeOK, NEW w \in Workers, NEW step \in Steps, NEW row \in Nat,
           job[w].step \in Steps, Continues(w, step, row), step = "insert" => Validate(w)
    PROVE  Moved(w)
<1>1. job[w] \in Jobs /\ job[w] # Idle
  BY JobType
<1> QED BY <1>1, ContinuesType DEF Moved

LEMMA Moves ==
    ASSUME TypeOK, NEW w \in Workers, Act(w)
    PROVE  Moved(w)
<1>0. /\ {"insert", "count_up", "destroy", "count_down", "notify"} \subseteq Steps
      /\ {"validate", "find", "comment"} \subseteq Steps
  BY DEF Steps, VoteSteps, WriteSteps
<1>1. ASSUME NEW m \in Members, NEW p \in Posts, Show(w, m, p) PROVE Moved(w)
  BY <1>1 DEF Show, Moved
<1>2. CASE Validate(w)
  BY <1>0, <1>2, MovedByEnd, MovedByStep DEF Validate
<1>3. CASE Insert(w)
  <2>1. drawn' \in Nat
    BY <1>3, PostAssumption DEF Insert, TypeOK
  <2> QED BY <1>0, <1>3, <2>1, MovedByStep DEF Insert
<1>4. CASE Find(w)
  <2>1. \A v \in votes : v.id \in Nat
    BY PostAssumption DEF TypeOK, Votes
  <2> QED BY <1>0, <1>4, <2>1, MovedByEnd, MovedByStep DEF Find, votes_of
<1>5. CASE Destroy(w)
  <2>1. job[w].step \in Steps /\ Continues(w, "count_down", job[w].row)
    BY <1>0, <1>5 DEF Destroy
  <2>2. job[w].row \in Nat
    BY <2>1, JobType DEF Jobs
  <2> QED BY <1>0, <2>1, <2>2, MovedByStep
<1>6. CASE Count(w) \/ Track(w) \/ Kill(w)
  BY <1>6, MovedByEnd DEF Count, Track, Kill
<1>7. CASE SaveComment(w)
  <2>1. written' \in Nat
    BY <1>7, PostAssumption DEF SaveComment, TypeOK
  <2> QED BY <1>0, <1>7, <2>1, MovedByStep DEF SaveComment
<1>8. CASE \/ \E c \in comments : DestroyComment(w, c)
           \/ \E gone \in SUBSET posts : DestroyPosts(w, gone)
           \/ \E k \in Brokers : RemoveBroker(w, k)
  BY <1>8 DEF DestroyComment, DestroyPosts, RemoveBroker, Moved
<1> QED BY <1>1, <1>2, <1>3, <1>4, <1>5, <1>6, <1>7, <1>8, MovedByRequest DEF Act

\* Only Insert adds a vote.
LEMMA VotesOnly ==
    ASSUME NEW w \in Workers, Act(w), ~Insert(w)
    PROVE  votes' \subseteq votes
  BY DEF Act, Show, Update, Create, Comment, Validate, Find, Destroy, Count, SaveComment, Track,
         DestroyComment, DestroyPosts, RemoveBroker, Kill

LEMMA NextActs == Next => \E w \in Workers : Act(w)
  BY DEF Next, Act

-----------------------------------------------------------------------------
(***************************************************************************)
(* Votes.  A patient member has one request at a time, so that his votes   *)
(* on the post are, after the validation, what they were at it.            *)
(***************************************************************************)
Alone ==
    \A v, w \in Workers :
        v # w /\ job[v] # Idle /\ job[w] # Idle /\ job[v].by = job[w].by => job[v].by \in Impatient
NoVoteYet ==
    \A w \in Workers : job[w].step = "insert" /\ job[w].by \notin Impatient =>
        votes_of(job[w].by, job[w].on) = {}
VotesInv == TypeInv /\ Alone /\ NoVoteYet /\ OneVoteEach

LEMMA AloneStep ==
    ASSUME Alone, NEW w \in Workers, Moved(w)
    PROVE  Alone'
  BY DEF Alone, Moved, Sends, present

\* A vote that passed the validation has none of the same member and post before it.
LEMMA ValidatedNone ==
    ASSUME TypeOK, NEW w \in Workers, Validate(w), job'[w].step = "insert"
    PROVE  votes_of(job[w].by, job[w].on) = {} /\ votes' = votes
           /\ job'[w].by = job[w].by /\ job'[w].on = job[w].on
<1>1. job[w] \in Jobs /\ job[w].on \in Posts /\ "insert" \in Steps
  BY JobType DEF Validate, Steps, VoteSteps, WriteSteps, Jobs
<1>2. ~Ends(w)
  BY EndsType DEF Idle
<1>3. /\ \A v \in votes : v.by = job[w].by => v.on \notin scope(job[w].on)
      /\ Continues(w, "insert", 0)
  BY <1>2 DEF Validate
<1>4. job[w].on \in scope(job[w].on)
  BY <1>1 DEF scope
<1> QED BY <1>1, <1>3, <1>4, ContinuesType DEF votes_of, Validate

LEMMA VotesStep == VotesInv /\ [Next]_vars => VotesInv'
<1> SUFFICES ASSUME VotesInv, [Next]_vars PROVE VotesInv'
  OBVIOUS
<1>0. TypeInv /\ TypeOK /\ Alone /\ NoVoteYet /\ OneVoteEach
  BY DEF VotesInv, TypeInv
<1>1. TypeInv'
  BY <1>0, NextType
<1>2. CASE UNCHANGED vars
  BY <1>0, <1>1, <1>2 DEF vars, VotesInv, Alone, NoVoteYet, votes_of, OneVoteEach
<1>3. ASSUME NEW w \in Workers, Act(w) PROVE VotesInv'
  <2>1. Moved(w)
    BY <1>0, <1>3, Moves
  <2>2. Alone'
    BY <1>0, <2>1, AloneStep
  <2>3. CASE Insert(w)
    <3> DEFINE new == [id |-> drawn', by |-> job[w].by, on |-> job[w].on]
    <3>1. votes' = votes \union {new} /\ new.by = job[w].by /\ new.on = job[w].on
      BY <2>3 DEF Insert
    <3>2. job[w].step = "insert" /\ job[w] # Idle
      BY <2>3 DEF Insert, Idle
    <3> HIDE DEF new
    <3>3. OneVoteEach'
      BY <1>0, <3>1, <3>2 DEF OneVoteEach, NoVoteYet, votes_of
    <3>4. NoVoteYet'
      <4> SUFFICES ASSUME NEW v \in Workers, job'[v].step = "insert", job'[v].by \notin Impatient
                   PROVE  votes_of(job[v].by, job[v].on)' = {}
        BY DEF NoVoteYet
      <4>1. job'[w].step # "insert"
        <5>1. drawn' \in Nat /\ "count_up" \in Steps /\ job[w] \in Jobs
          BY <1>0, <3>2, <2>3, PostAssumption, JobType
             DEF Insert, TypeOK, Steps, VoteSteps, WriteSteps
        <5>2. job'[w].step = "count_up"
          BY <1>0, <2>3, <5>1, ContinuesType DEF Insert
        <5> QED BY <5>2
      <4>2. v # w /\ job'[v] = job[v] /\ job[v] # Idle
        BY <2>1, <4>1 DEF Moved, Idle
      <4>3. job[v].by # job[w].by
        BY <1>0, <3>2, <4>2 DEF Alone
      <4>4. votes_of(job[v].by, job[v].on) = {}
        BY <1>0, <4>2 DEF NoVoteYet
      <4> QED BY <3>1, <4>2, <4>3, <4>4 DEF votes_of
    <3> QED BY <1>1, <2>2, <3>3, <3>4 DEF VotesInv
  <2>4. CASE ~Insert(w)
    <3>1. votes' \subseteq votes
      BY <1>3, <2>4, VotesOnly
    <3>2. OneVoteEach'
      BY <1>0, <3>1 DEF OneVoteEach
    <3>3. \A m, p : votes_of(m, p) = {} => votes_of(m, p)' = {}
      BY <3>1 DEF votes_of
    <3>4. NoVoteYet'
      <4> SUFFICES ASSUME NEW v \in Workers, job'[v].step = "insert", job'[v].by \notin Impatient
                   PROVE  votes_of(job[v].by, job[v].on)' = {}
        BY DEF NoVoteYet
      <4>1. CASE job'[v] = job[v]
        BY <1>0, <3>1, <4>1 DEF NoVoteYet, votes_of
      <4>2. CASE v = w /\ Validate(w)
        BY <1>0, <3>1, <4>2, ValidatedNone DEF votes_of
      <4> QED BY <2>1, <4>1, <4>2 DEF Moved, Idle
    <3> QED BY <1>1, <2>2, <3>2, <3>4 DEF VotesInv
  <2> QED BY <2>3, <2>4
<1> QED BY <1>2, <1>3, NextActs

\* However many workers serve the site, and however impatient the others are, a member
\* who waits for his answers has one vote at most on a post (Vote, validates_uniqueness_of).
THEOREM OneVotePerMember == Spec => []OneVoteEach
<1>1. Init => VotesInv
  <2> SUFFICES ASSUME Init PROVE VotesInv
    OBVIOUS
  <2>1. \A w \in Workers : job[w] = Idle /\ job[w].step = "idle"
    BY DEF Init, Idle
  <2> QED BY <2>1, InitType DEF Init, VotesInv, Alone, NoVoteYet, OneVoteEach
<1>2. VotesInv => OneVoteEach
  BY DEF VotesInv
<1> QED BY <1>1, <1>2, VotesStep, PTL DEF Spec

-----------------------------------------------------------------------------
(***************************************************************************)
(* The votes an impatient member may get: those he has and those validated *)
(* are never more than the workers, for a validation finds none stored.    *)
(***************************************************************************)
validated(m, p) ==
    {w \in Workers : job[w].step = "insert" /\ job[w].by = m /\ job[w].on = p}

PerWorkerInv ==
    /\ TypeInv /\ IsFiniteSet(votes)
    /\ \A m \in Members, p \in Posts :
          Cardinality(votes_of(m, p)) + Cardinality(validated(m, p)) <= Cardinality(Workers)

LEMMA PerWorkerFinite ==
    ASSUME IsFiniteSet(votes), NEW m, NEW p
    PROVE  /\ IsFiniteSet(votes_of(m, p)) /\ Cardinality(votes_of(m, p)) \in Nat
           /\ IsFiniteSet(validated(m, p)) /\ Cardinality(validated(m, p)) \in Nat
           /\ Cardinality(validated(m, p)) <= Cardinality(Workers)
           /\ Cardinality(Workers) \in Nat
<1>1. votes_of(m, p) \subseteq votes /\ validated(m, p) \subseteq Workers
  BY DEF votes_of, validated
<1> QED BY <1>1, PostAssumption, FS_Subset, FS_CardinalityType

LEMMA PerWorkerStep == PerWorkerInv /\ [Next]_vars => PerWorkerInv'
<1> SUFFICES ASSUME PerWorkerInv, [Next]_vars PROVE PerWorkerInv'
  OBVIOUS
<1>0. TypeInv /\ TypeOK /\ IsFiniteSet(votes)
  BY DEF PerWorkerInv, TypeInv
<1>1. TypeInv'
  BY <1>0, NextType
<1>2. CASE UNCHANGED vars
  BY <1>1, <1>2 DEF vars, PerWorkerInv, votes_of, validated
<1>3. ASSUME NEW w \in Workers, Act(w) PROVE PerWorkerInv'
  <2>1. Moved(w)
    BY <1>0, <1>3, Moves
  <2>2. CASE Insert(w)
    <3> DEFINE new == [id |-> drawn', by |-> job[w].by, on |-> job[w].on]
    <3>1. votes' = votes \union {new} /\ new.by = job[w].by /\ new.on = job[w].on
          /\ job[w].step = "insert" /\ new.id = drawn'
      BY <2>2 DEF Insert
    <3>2. new \notin votes
      <4>1. drawn \in Nat /\ drawn' = drawn + 1
        BY <1>0, <2>2, PostAssumption DEF Insert, TypeOK
      <4>2. \A v \in votes : v.id <= drawn /\ v.id \in Nat
        BY <1>0, PostAssumption DEF TypeOK, Votes
      <4> QED BY <3>1, <4>1, <4>2
    <3>3. job'[w].step # "insert"
      <4>1. drawn' \in Nat /\ "count_up" \in Steps /\ job[w] \in Jobs
        BY <1>0, <2>2, PostAssumption, JobType
           DEF Insert, TypeOK, Steps, VoteSteps, WriteSteps
      <4>2. job'[w].step = "count_up"
        BY <1>0, <2>2, <4>1, ContinuesType DEF Insert
      <4> QED BY <4>2
    <3> HIDE DEF new
    <3>4. IsFiniteSet(votes')
      BY <1>0, <3>1, FS_AddElement
    <3>5. ASSUME NEW m \in Members, NEW p \in Posts
          PROVE  Cardinality(votes_of(m, p)') + Cardinality(validated(m, p)')
                    <= Cardinality(Workers)
      <4>1. /\ Cardinality(votes_of(m, p)) + Cardinality(validated(m, p)) <= Cardinality(Workers)
            /\ Cardinality(votes_of(m, p)) \in Nat /\ Cardinality(validated(m, p)) \in Nat
            /\ IsFiniteSet(votes_of(m, p)) /\ IsFiniteSet(validated(m, p))
            /\ Cardinality(Workers) \in Nat
        BY <1>0, PerWorkerFinite DEF PerWorkerInv
      <4>2. CASE m = job[w].by /\ p = job[w].on
        <5>1. votes_of(m, p)' = votes_of(m, p) \union {new} /\ new \notin votes_of(m, p)
          BY <3>1, <3>2, <4>2 DEF votes_of
        <5>2. validated(m, p)' = validated(m, p) \ {w} /\ w \in validated(m, p)
          BY <2>1, <3>1, <3>3, <4>2 DEF validated, Moved
        <5>3. Cardinality(votes_of(m, p)') = Cardinality(votes_of(m, p)) + 1
          BY <4>1, <5>1, FS_AddElement
        <5>4. Cardinality(validated(m, p)') = Cardinality(validated(m, p)) - 1
          BY <4>1, <5>2, FS_RemoveElement
        <5> QED BY <4>1, <5>3, <5>4
      <4>3. CASE ~(m = job[w].by /\ p = job[w].on)
        <5>1. votes_of(m, p)' = votes_of(m, p)
          BY <3>1, <4>3 DEF votes_of
        <5>2. validated(m, p)' = validated(m, p)
          BY <2>1, <3>3, <4>3 DEF validated, Moved
        <5> QED BY <4>1, <5>1, <5>2
      <4> QED BY <4>2, <4>3
    <3> QED BY <1>1, <3>4, <3>5 DEF PerWorkerInv
  <2>3. CASE ~Insert(w)
    <3>1. votes' \subseteq votes /\ IsFiniteSet(votes')
      BY <1>0, <1>3, <2>3, VotesOnly, FS_Subset
    <3>2. ASSUME NEW m \in Members, NEW p \in Posts
          PROVE  Cardinality(votes_of(m, p)') + Cardinality(validated(m, p)')
                    <= Cardinality(Workers)
      <4>1. /\ Cardinality(votes_of(m, p)) + Cardinality(validated(m, p)) <= Cardinality(Workers)
            /\ Cardinality(votes_of(m, p)) \in Nat /\ Cardinality(validated(m, p)) \in Nat
            /\ IsFiniteSet(votes_of(m, p)) /\ IsFiniteSet(validated(m, p))
            /\ Cardinality(Workers) \in Nat
        BY <1>0, PerWorkerFinite DEF PerWorkerInv
      <4>2. CASE validated(m, p)' \subseteq validated(m, p)
        <5>1. votes_of(m, p)' \subseteq votes_of(m, p)
          BY <3>1 DEF votes_of
        <5>2. /\ Cardinality(votes_of(m, p)') <= Cardinality(votes_of(m, p))
              /\ Cardinality(votes_of(m, p)') \in Nat
          BY <4>1, <5>1, FS_Subset, FS_CardinalityType
        <5>3. /\ Cardinality(validated(m, p)') <= Cardinality(validated(m, p))
              /\ Cardinality(validated(m, p)') \in Nat
          BY <4>1, <4>2, FS_Subset, FS_CardinalityType
        <5> QED BY <4>1, <5>2, <5>3
      <4>3. CASE ~(validated(m, p)' \subseteq validated(m, p))
        <5>1. Validate(w) /\ job'[w].step = "insert" /\ job'[w].by = m /\ job'[w].on = p
          BY <2>1, <4>3 DEF validated, Moved, Idle
        <5>2. votes_of(m, p)' = {}
          BY <1>0, <5>1, ValidatedNone DEF votes_of
        <5>3. Cardinality(validated(m, p)') <= Cardinality(Workers)
              /\ Cardinality(validated(m, p)') \in Nat
          <6>1. validated(m, p)' \subseteq Workers
            BY DEF validated
          <6> QED BY <6>1, PostAssumption, FS_Subset, FS_CardinalityType
        <5>4. Cardinality(votes_of(m, p)') = 0
          BY <5>2, FS_EmptySet
        <5> QED BY <4>1, <5>3, <5>4
      <4> QED BY <4>2, <4>3
    <3> QED BY <1>1, <3>1, <3>2 DEF PerWorkerInv
  <2> QED BY <2>2, <2>3
<1> QED BY <1>2, <1>3, NextActs

\* The race between validation and insert (Vote, validates_uniqueness_of) gives an
\* impatient member at most as many votes on a post as there are workers.
THEOREM VotesBounded == Spec => []VotesPerWorker
<1>1. Init => PerWorkerInv
  <2> SUFFICES ASSUME Init PROVE PerWorkerInv
    OBVIOUS
  <2>1. \A m, p : votes_of(m, p) = {} /\ validated(m, p) = {}
    BY DEF Init, votes_of, validated, Idle
  <2>2. Cardinality({}) = 0 /\ IsFiniteSet({}) /\ Cardinality(Workers) \in Nat
    BY PostAssumption, FS_EmptySet, FS_CardinalityType
  <2>3. \A m, p : Cardinality(votes_of(m, p)) + Cardinality(validated(m, p))
                     <= Cardinality(Workers)
    BY <2>1, <2>2
  <2>4. IsFiniteSet(votes)
    BY <2>2 DEF Init
  <2> QED BY <2>3, <2>4, InitType DEF PerWorkerInv
<1>2. PerWorkerInv => VotesPerWorker
  <2> SUFFICES ASSUME PerWorkerInv, NEW m \in Members, NEW p \in Posts
               PROVE  Cardinality(votes_of(m, p)) <= Cardinality(Workers)
    BY DEF VotesPerWorker
  <2>1. /\ Cardinality(votes_of(m, p)) \in Nat /\ Cardinality(validated(m, p)) \in Nat
        /\ Cardinality(Workers) \in Nat
        /\ Cardinality(votes_of(m, p)) + Cardinality(validated(m, p)) <= Cardinality(Workers)
    BY PerWorkerFinite DEF PerWorkerInv
  <2> QED BY <2>1
<1> QED BY <1>1, <1>2, PerWorkerStep, PTL DEF Spec

-----------------------------------------------------------------------------
(***************************************************************************)
(* The feed.  A request that writes on a post finds member, post and       *)
(* comment as it left them, unless the post is overtaken meanwhile.        *)
(***************************************************************************)
Told(id, p) == id = 0 \/ \E c \in comments : c.id = id /\ c.on = p

Tells(m, p, id) == present(m) /\ p \in posts /\ Told(id, p)

FeedInv ==
    /\ \A a \in activities : a.post \notin overtaken => Tells(a.by, a.post, a.comment)
    /\ \A w \in Workers : job[w].step \in WriteSteps /\ job[w].on \notin overtaken =>
          Tells(job[w].by, job[w].on, job[w].row)

\* A step that removes nothing, after which the worker's own request is about what is there.
LEMMA FeedFrame ==
    ASSUME FeedInv, NEW w \in Workers,
           brokers' = brokers, posts \subseteq posts', comments \subseteq comments',
           activities' = activities, overtaken' = overtaken,
           \A v \in Workers : v # w => job'[v] = job[v],
           \/ job'[w].step \notin WriteSteps
           \/ job'[w] = job[w]
           \/ job'[w].on \notin overtaken => Tells(job[w].by, job[w].on, job[w].row)'
    PROVE  FeedInv'
<1>1. \A m, p, id : Tells(m, p, id) => Tells(m, p, id)'
  BY DEF Tells, Told, present
<1>2. \A a \in activities' : a.post \notin overtaken' => Tells(a.by, a.post, a.comment)'
  BY <1>1 DEF FeedInv
<1>3. \A v \in Workers : job'[v].step \in WriteSteps /\ job'[v].on \notin overtaken' =>
          Tells(job[v].by, job[v].on, job[v].row)'
  <2> SUFFICES ASSUME NEW v \in Workers, job'[v].step \in WriteSteps, job'[v].on \notin overtaken'
               PROVE  Tells(job[v].by, job[v].on, job[v].row)'
    OBVIOUS
  <2>1. CASE job'[v] = job[v]
    <3>1. Tells(job[v].by, job[v].on, job[v].row)
      BY <2>1 DEF FeedInv
    <3> QED BY <1>1, <2>1, <3>1 DEF Tells, Told, present
  <2>2. CASE v = w /\ job'[w] # job[w]
    BY <2>2
  <2> QED BY <2>1, <2>2
<1> QED BY <1>2, <1>3 DEF FeedInv

\* Nothing is written by a vote.
LEMMA FeedVote ==
    ASSUME TypeInv, FeedInv, NEW w \in Workers,
           \/ \E m \in Members, p \in Posts :
                 \/ Show(w, m, p)
                 \/ Update(w, m, p, "upvote") \/ Update(w, m, p, "cancel_upvote")
           \/ Validate(w) \/ Insert(w) \/ Find(w) \/ Destroy(w) \/ Count(w) \/ Kill(w)
    PROVE  FeedInv'
<1>1. TypeOK /\ Moved(w)
  BY Moves DEF TypeInv, Act
<1>2. /\ brokers' = brokers /\ posts' = posts /\ comments' = comments
      /\ activities' = activities /\ overtaken' = overtaken
  BY DEF Show, Update, Validate, Insert, Find, Destroy, Count, Kill
<1>3. job'[w].step \notin WriteSteps \/ job'[w] = job[w]
  <2>0. /\ {"validate", "find", "insert", "count_up", "destroy", "count_down"} \subseteq Steps
        /\ WriteSteps \cap {"validate", "find", "insert", "count_up", "destroy", "count_down"} = {}
    BY DEF Steps, VoteSteps, WriteSteps
  <2>1. ASSUME NEW m \in Members, NEW p \in Posts,
               Update(w, m, p, "upvote") \/ Update(w, m, p, "cancel_upvote")
        PROVE  job'[w].step \notin WriteSteps
    <3>1. PICK step \in {"validate", "find"} : Takes(w, step, m, p)
      BY <2>1 DEF Update
    <3> QED BY <1>1, <2>0, <3>1, TakesType
  <2>2. ASSUME Ends(w) PROVE job'[w].step \notin WriteSteps
    BY <1>1, <2>2, EndsType DEF Steps
  <2>3. ASSUME NEW step \in {"insert", "count_up", "destroy", "count_down"}, NEW row \in Nat,
               job[w].step \in Steps, Continues(w, step, row)
        PROVE  job'[w].step \notin WriteSteps
    BY <1>1, <2>0, <2>3, JobType, ContinuesType
  <2>4. CASE Validate(w)
    BY <2>0, <2>2, <2>3, <2>4 DEF Validate
  <2>5. CASE Insert(w)
    <3>1. drawn' \in Nat
      BY <1>1, <2>5, PostAssumption DEF Insert, TypeOK
    <3> QED BY <2>0, <2>3, <2>5, <3>1 DEF Insert
  <2>6. CASE Find(w)
    <3>1. \A v \in votes : v.id \in Nat
      BY <1>1, PostAssumption DEF TypeOK, Votes
    <3> QED BY <2>0, <2>2, <2>3, <2>6, <3>1 DEF Find, votes_of
  <2>7. CASE Destroy(w)
    <3>1. job[w].step \in Steps /\ Continues(w, "count_down", job[w].row)
      BY <2>0, <2>7 DEF Destroy
    <3>2. job[w].row \in Nat
      BY <1>1, <3>1, JobType DEF Jobs
    <3> QED BY <2>3, <3>1, <3>2
  <2>8. CASE Count(w) \/ Kill(w)
    BY <2>2, <2>8 DEF Count, Kill
  <2>9. ASSUME NEW m \in Members, NEW p \in Posts, Show(w, m, p)
        PROVE  job'[w] = job[w]
    BY <2>9 DEF Show
  <2> QED BY <2>1, <2>4, <2>5, <2>6, <2>7, <2>8, <2>9
<1> QED BY <1>1, <1>2, <1>3, FeedFrame DEF Moved

\* A post or a comment begins on what is there, and is there when it is stored.
LEMMA FeedWrite ==
    ASSUME TypeInv, FeedInv, NEW w \in Workers,
           \/ \E m \in Members, p \in Posts : Create(w, m, p) \/ Comment(w, m, p)
           \/ SaveComment(w)
    PROVE  FeedInv'
<1>1. TypeOK /\ Moved(w)
  BY Moves DEF TypeInv, Act
<1>2. {"announce", "comment", "notify"} \subseteq Steps
  BY DEF Steps, WriteSteps
<1>3. /\ brokers' = brokers /\ posts \subseteq posts' /\ comments \subseteq comments'
      /\ activities' = activities /\ overtaken' = overtaken
  BY DEF Create, Comment, SaveComment
<1>4. ASSUME NEW m \in Members, NEW p \in Posts, Create(w, m, p) \/ Comment(w, m, p)
      PROVE  Tells(job[w].by, job[w].on, job[w].row)'
  <2>1. PICK step \in {"announce", "comment"} : Takes(w, step, m, p)
    BY <1>4 DEF Create, Comment
  <2>2. job'[w].by = m /\ job'[w].on = p /\ job'[w].row = 0
    BY <1>1, <1>2, <2>1, TakesType
  <2>3. p \in posts' /\ m \in Users \union brokers'
    BY <1>4 DEF Create, Comment, Sends, present
  <2> QED BY <2>2, <2>3 DEF Tells, Told, present
<1>5. ASSUME SaveComment(w), job'[w].on \notin overtaken
      PROVE  Tells(job[w].by, job[w].on, job[w].row)'
  <2>1. job[w].step = "comment" /\ job[w] \in Jobs
    BY <1>1, <1>2, <1>5, JobType DEF SaveComment
  <2>2. written' \in Nat
    BY <1>1, <1>5, PostAssumption DEF SaveComment, TypeOK
  <2>3. job'[w].by = job[w].by /\ job'[w].on = job[w].on /\ job'[w].row = written'
    BY <1>1, <1>2, <1>5, <2>1, <2>2, ContinuesType DEF SaveComment
  <2>4. Tells(job[w].by, job[w].on, job[w].row)
    BY <1>5, <2>1, <2>3 DEF FeedInv, WriteSteps
  <2> DEFINE c == [id |-> written', by |-> job[w].by, on |-> job[w].on]
  <2>5. c \in comments' /\ c.id = job'[w].row /\ c.on = job'[w].on
    BY <1>5, <2>3 DEF SaveComment
  <2> HIDE DEF c
  <2>6. Told(job[w].row, job[w].on)'
    BY <2>5 DEF Told
  <2> QED BY <1>3, <2>3, <2>4, <2>6 DEF Tells, present
<1> QED BY <1>1, <1>3, <1>4, <1>5, FeedFrame DEF Moved

\* The new activity tells of what the request wrote.
LEMMA FeedTrack ==
    ASSUME TypeInv, FeedInv, NEW w \in Workers, Track(w)
    PROVE  FeedInv'
<1>1. TypeOK /\ Moved(w) /\ job'[w].step \notin WriteSteps
  BY Moves, EndsType DEF TypeInv, Act, Track, Steps
<1>2. \A m, p, id : Tells(m, p, id)' <=> Tells(m, p, id)
  BY DEF Tells, Told, present, Track
<1> DEFINE r == job[w]
           new == [comment |-> r.row, post |-> r.on,
                   by |-> IF r.step = "announce" \/ present(r.by) THEN r.by ELSE Nil,
                   owner |-> IF r.step = "announce" THEN Nil ELSE author[r.on]]
<1>3. /\ activities' = activities \union {new} /\ overtaken' = overtaken
      /\ new.comment = r.row /\ new.post = r.on
      /\ present(r.by) => new.by = r.by
  BY DEF Track
<1> HIDE DEF new
<1>4. r.on \notin overtaken => Tells(r.by, r.on, r.row)
  BY DEF FeedInv, Track, WriteSteps
<1>5. new.post \notin overtaken => Tells(new.by, new.post, new.comment)
  BY <1>3, <1>4 DEF Tells
<1>6. \A a \in activities' : a.post \notin overtaken' => Tells(a.by, a.post, a.comment)'
  BY <1>2, <1>3, <1>5 DEF FeedInv
<1>7. \A v \in Workers : job'[v].step \in WriteSteps => job'[v] = job[v]
  BY <1>1 DEF Moved
<1>8. \A v \in Workers : job'[v].step \in WriteSteps /\ job'[v].on \notin overtaken' =>
          Tells(job[v].by, job[v].on, job[v].row)'
  BY <1>2, <1>3, <1>7 DEF FeedInv, Tells, Told, present, Track
<1> QED BY <1>6, <1>8 DEF FeedInv

\* What is removed takes along the activities that tell of it, and the requests that will
\* tell of it are on posts that count as overtaken.
LEMMA FeedRemoval ==
    ASSUME TypeInv, FeedInv, NEW w \in Workers,
           \/ \E c \in comments : DestroyComment(w, c)
           \/ \E gone \in SUBSET posts : DestroyPosts(w, gone)
           \/ \E k \in Brokers : RemoveBroker(w, k)
    PROVE  FeedInv'
<1>1. job' = job
  BY DEF DestroyComment, DestroyPosts, RemoveBroker
<1>2. SUFFICES
        /\ \A a \in activities' : Tells(a.by, a.post, a.comment) =>
                                     Tells(a.by, a.post, a.comment)'
        /\ \A v \in Workers : \A m, p, id :
              /\ job[v].step \in WriteSteps /\ m = job[v].by /\ p = job[v].on
              /\ p \notin overtaken' /\ Tells(m, p, id)
              => Tells(m, p, id)'
        /\ activities' \subseteq activities /\ overtaken \subseteq overtaken'
  <2>1. \A a \in activities' : a.post \notin overtaken' => Tells(a.by, a.post, a.comment)'
    BY <1>2 DEF FeedInv
  <2>2. \A v \in Workers : job[v].step \in WriteSteps /\ job[v].on \notin overtaken' =>
            Tells(job[v].by, job[v].on, job[v].row)
    BY <1>2 DEF FeedInv
  <2>3. \A v \in Workers : \A m, p, id :
           /\ job[v].step \in WriteSteps /\ p \notin overtaken'
           /\ m = job[v].by /\ p = job[v].on /\ id = job[v].row
           => Tells(m, p, id)'
    BY <1>2, <2>2
  <2>4. \A v \in Workers : job'[v].step \in WriteSteps /\ job'[v].on \notin overtaken' =>
            Tells(job[v].by, job[v].on, job[v].row)'
    BY <1>1, <2>3 DEF Tells, Told, present
  <2> QED BY <2>1, <2>4 DEF FeedInv
<1>3. activities' \subseteq activities /\ overtaken \subseteq overtaken'
  BY DEF DestroyComment, DestroyPosts, RemoveBroker
<1>4. \A v \in Workers : job[v].step \in WriteSteps => job[v].on \in written_on
  BY DEF written_on
<1>5. ASSUME NEW c \in comments, DestroyComment(w, c)
      PROVE  /\ \A a \in activities' : Tells(a.by, a.post, a.comment) =>
                                          Tells(a.by, a.post, a.comment)'
             /\ \A v \in Workers : \A m, p, id :
                   /\ job[v].step \in WriteSteps /\ m = job[v].by /\ p = job[v].on
                   /\ p \notin overtaken' /\ Tells(m, p, id)
                   => Tells(m, p, id)'
  <2>1. \A a \in activities' : a.comment # c.id
    BY <1>5 DEF DestroyComment
  <2>2. \A v \in Workers : job[v].step \in WriteSteps /\ job[v].on \notin overtaken' =>
            job[v].on # c.on
    BY <1>4, <1>5 DEF DestroyComment
  <2>3. \A m, p, id : Tells(m, p, id) /\ (id # c.id \/ p # c.on) => Tells(m, p, id)'
    BY <1>5 DEF DestroyComment, Tells, Told, present
  <2> QED BY <2>1, <2>2, <2>3
<1>6. ASSUME NEW gone \in SUBSET posts, DestroyPosts(w, gone)
      PROVE  /\ \A a \in activities' : Tells(a.by, a.post, a.comment) =>
                                          Tells(a.by, a.post, a.comment)'
             /\ \A v \in Workers : \A m, p, id :
                   /\ job[v].step \in WriteSteps /\ m = job[v].by /\ p = job[v].on
                   /\ p \notin overtaken' /\ Tells(m, p, id)
                   => Tells(m, p, id)'
  <2>1. \A a \in activities' : a.post \notin gone
    BY <1>6 DEF DestroyPosts
  <2>2. \A v \in Workers : job[v].step \in WriteSteps /\ job[v].on \notin overtaken' =>
            job[v].on \notin gone
    BY <1>4, <1>6 DEF DestroyPosts
  <2>3. \A m, p, id : Tells(m, p, id) /\ p \notin gone => Tells(m, p, id)'
    BY <1>6 DEF DestroyPosts, Destroyed, Tells, Told, present
  <2> QED BY <2>1, <2>2, <2>3
<1>7. ASSUME NEW k \in Brokers, RemoveBroker(w, k)
      PROVE  /\ \A a \in activities' : Tells(a.by, a.post, a.comment) =>
                                          Tells(a.by, a.post, a.comment)'
             /\ \A v \in Workers : \A m, p, id :
                   /\ job[v].step \in WriteSteps /\ m = job[v].by /\ p = job[v].on
                   /\ p \notin overtaken' /\ Tells(m, p, id)
                   => Tells(m, p, id)'
  <2> DEFINE stories == {p \in posts : author[p] = k}
  <2>1. \A a \in activities' : a.by # k /\ a.post \notin stories
    BY <1>7 DEF RemoveBroker
  <2>2. overtaken' = overtaken \union (stories \cap written_on) \union written_by(k)
    BY <1>7 DEF RemoveBroker
  <2>3. \A v \in Workers : job[v].step \in WriteSteps /\ job[v].by = k =>
            job[v].on \in written_by(k)
    BY DEF written_by
  <2>4. posts' = posts \ stories /\ brokers' = brokers \ {k}
        /\ comments' = {c \in comments : c.on \notin stories}
    BY <1>7 DEF RemoveBroker, Destroyed
  <2> HIDE DEF stories
  <2>5. \A v \in Workers : job[v].step \in WriteSteps /\ job[v].on \notin overtaken' =>
            job[v].on \notin stories /\ job[v].by # k
    BY <1>4, <2>2, <2>3
  <2>6. \A m, p, id : Tells(m, p, id) /\ p \notin stories /\ m # k => Tells(m, p, id)'
    BY <2>4 DEF Tells, Told, present
  <2> QED BY <2>1, <2>5, <2>6
<1> QED BY <1>3, <1>5, <1>6, <1>7

\* What the feed shows (ActivityPresenter) is there: destroying a post, a comment or a
\* broker destroys all activities that tell of them, whatever the other workers do, but
\* for posts of which something is removed while a request writes on them.
THEOREM FeedAlwaysRenders == Spec => []FeedRenders
<1>1. Init => FeedInv
  BY DEF Init, FeedInv, Idle, WriteSteps
<1>2. TypeInv /\ FeedInv /\ [Next]_vars => FeedInv'
  <2> SUFFICES ASSUME TypeInv, FeedInv, [Next]_vars PROVE FeedInv'
    OBVIOUS
  <2>1. CASE UNCHANGED vars
    BY <2>1 DEF vars, FeedInv, Tells, Told, present
  <2>2. ASSUME NEW w \in Workers, Act(w) PROVE FeedInv'
    BY <2>2, FeedVote, FeedWrite, FeedTrack, FeedRemoval DEF Act
  <2> QED BY <2>1, <2>2, NextActs
<1>3. FeedInv => FeedRenders
  BY DEF FeedInv, FeedRenders, Tells, Told
<1> QED BY <1>1, <1>2, <1>3, InitType, NextType, PTL DEF Spec

-----------------------------------------------------------------------------
(***************************************************************************)
(* The counters.  On a post that is not disturbed one vote at most is      *)
(* under way, and its step says how far the counter is from the votes.     *)
(***************************************************************************)
on(p) == {v \in votes : v.on = p}
Voting(w, p) == job[w].step \in VoteSteps /\ job[w].on = p

Balanced(p) ==
    /\ \A v, w \in Workers : Voting(v, p) /\ Voting(w, p) => v = w
    /\ (\A w \in Workers : ~Voting(w, p)) => counter[p] = Cardinality(on(p))
    /\ \A w \in Workers : Voting(w, p) =>
          /\ job[w].read = counter[p]
          /\ job[w].step \in {"validate", "insert", "find", "destroy"} =>
                counter[p] = Cardinality(on(p))
          /\ job[w].step = "destroy" => \E v \in on(p) : v.id = job[w].row
          /\ job[w].step = "count_up" => Cardinality(on(p)) = counter[p] + 1
          /\ job[w].step = "count_down" => Cardinality(on(p)) = counter[p] - 1

\* Ids are drawn once, so that the vote a request will destroy is on its own post.
OwnVote(w) ==
    job[w].step = "destroy" =>
        job[w].row <= drawn /\ \A v \in votes : v.id = job[w].row => v.on = job[w].on

CountInv ==
    /\ IsFiniteSet(votes)
    /\ \A v, u \in votes : v.id = u.id => v = u
    /\ \A p \in Posts : author[p] = Nil =>
          counter[p] = 0 /\ on(p) = {} /\ \A w \in Workers : ~Voting(w, p)
    /\ \A w \in Workers : OwnVote(w)
    /\ \A p \in posts \ disturbed : Balanced(p)

\* A post whose votes and requests are left alone.
LEMMA BalancedFrame ==
    ASSUME NEW p, Balanced(p), counter'[p] = counter[p], on(p)' = on(p),
           \A v \in Workers : job'[v] = job[v] \/ (~Voting(v, p) /\ ~Voting(v, p)')
    PROVE  Balanced(p)'
<1>1. \A v \in Workers : Voting(v, p)' <=> Voting(v, p)
  BY DEF Voting
<1>2. \A v \in Workers : Voting(v, p) => job'[v] = job[v]
  OBVIOUS
<1> QED BY <1>1, <1>2 DEF Balanced

\* A post with the request of w, or none, under way after the step.
LEMMA BalancedAfter ==
    ASSUME NEW p, NEW w \in Workers, \A v \in Workers : v # w => ~Voting(v, p)',
           \/ ~Voting(w, p)' /\ counter'[p] = Cardinality(on(p)')
           \/ /\ Voting(w, p)' /\ job'[w].read = counter'[p]
              /\ job'[w].step \in {"validate", "insert", "find", "destroy"} =>
                    counter'[p] = Cardinality(on(p)')
              /\ job'[w].step = "destroy" => \E v \in on(p)' : v.id = job'[w].row
              /\ job'[w].step = "count_up" => Cardinality(on(p)') = counter'[p] + 1
              /\ job'[w].step = "count_down" => Cardinality(on(p)') = counter'[p] - 1
    PROVE  Balanced(p)'
  BY DEF Balanced

\* The post of the request of w, when it is balanced.
LEMMA OwnPost ==
    ASSUME NEW p, NEW w \in Workers, Balanced(p), Voting(w, p), Moved(w)
    PROVE  /\ \A v \in Workers : v # w => ~Voting(v, p)'
           /\ job[w].read = counter[p]
           /\ job[w].step \in {"validate", "insert", "find", "destroy"} =>
                 counter[p] = Cardinality(on(p))
           /\ job[w].step = "destroy" => \E v \in on(p) : v.id = job[w].row
           /\ job[w].step = "count_up" => Cardinality(on(p)) = counter[p] + 1
           /\ job[w].step = "count_down" => Cardinality(on(p)) = counter[p] - 1
<1>1. \A v \in Workers : v # w => ~Voting(v, p)
  BY DEF Balanced
<1>2. \A v \in Workers : v # w => ~Voting(v, p)'
  BY <1>1 DEF Moved, Voting
<1> QED BY <1>2 DEF Balanced

\* Steps that store no vote, counter or post: only the posts of the worker's own request
\* need a look.
LEMMA CountFrame ==
    ASSUME TypeInv, CountInv, NEW w \in Workers, Moved(w),
           UNCHANGED <<author, counter, votes, drawn>>, posts' \subseteq posts,
           disturbed \subseteq disturbed',
           job'[w].step \in VoteSteps => author[job'[w].on] # Nil,
           OwnVote(w)',
           \A p \in posts' \ disturbed' :
              job'[w] # job[w] /\ (Voting(w, p) \/ Voting(w, p)') => Balanced(p)'
    PROVE  CountInv'
<1>1. \A p : on(p)' = on(p)
  BY DEF on
<1>2. \A v \in Workers : OwnVote(v)'
  BY DEF CountInv, OwnVote, Moved
<1>3. ASSUME NEW p \in Posts, author'[p] = Nil
      PROVE  counter'[p] = 0 /\ on(p)' = {} /\ \A v \in Workers : ~Voting(v, p)'
  <2>1. counter[p] = 0 /\ on(p) = {} /\ \A v \in Workers : ~Voting(v, p)
    BY <1>3 DEF CountInv
  <2>2. \A v \in Workers : ~Voting(v, p)'
    BY <1>3, <2>1 DEF Moved, Voting
  <2> QED BY <1>1, <2>1, <2>2
<1>4. ASSUME NEW p \in posts' \ disturbed'
      PROVE  Balanced(p)'
  <2>1. Balanced(p)
    BY DEF CountInv
  <2>2. CASE job'[w] = job[w] \/ (~Voting(w, p) /\ ~Voting(w, p)')
    BY <1>1, <2>1, <2>2, BalancedFrame DEF Moved
  <2> QED BY <2>2
<1> QED BY <1>1, <1>2, <1>3, <1>4 DEF CountInv

\* Where w's request stands, and what it may become.
LEMMA AtVote ==
    ASSUME TypeOK, NEW w \in Workers, job[w].step \in VoteSteps
    PROVE  /\ job[w] \in Jobs /\ job[w].on \in Posts /\ job[w].read \in Int /\ job[w].row \in Nat
           /\ Voting(w, job[w].on) /\ \A p : Voting(w, p) => p = job[w].on
  BY JobType DEF Steps, Jobs, Voting

LEMMA EndedVote ==
    ASSUME TypeOK, NEW w \in Workers, Ends(w)
    PROVE  /\ job'[w] = Idle /\ job'[w].step \notin VoteSteps /\ job'[w].step # "destroy"
           /\ \A p : ~Voting(w, p)'
  BY EndsType DEF Steps, VoteSteps, Voting, Idle

LEMMA ContinuedVote ==
    ASSUME TypeOK, NEW w \in Workers, job[w].step \in VoteSteps, NEW step \in VoteSteps,
           NEW row \in Nat, Continues(w, step, row)
    PROVE  /\ job'[w].step = step /\ job'[w].on = job[w].on /\ job'[w].read = job[w].read
           /\ job'[w].row = row
           /\ Voting(w, job[w].on)' /\ \A p : Voting(w, p)' => p = job[w].on
<1>1. job[w] \in Jobs /\ step \in Steps
  BY JobType DEF Steps
<1>2. /\ job'[w].step = step /\ job'[w].on = job[w].on /\ job'[w].read = job[w].read
      /\ job'[w].row = row
  BY <1>1, ContinuesType
<1>3. \A p : Voting(w, p)' <=> p = job'[w].on
  BY <1>2 DEF Voting
<1> QED BY <1>2, <1>3 DEF Voting

LEMMA CountValidate ==
    ASSUME TypeInv, CountInv, NEW w \in Workers, Validate(w)
    PROVE  CountInv'
<1>1. TypeOK /\ Moved(w) /\ job[w].step = "validate" /\ {"validate", "insert"} \subseteq VoteSteps
  BY Moves DEF TypeInv, Act, Validate, VoteSteps
<1>2. UNCHANGED <<author, counter, votes, drawn, posts, disturbed>> /\ \A p : on(p)' = on(p)
  BY DEF Validate, on
<1>3. CASE Ends(w)
  <2>1. ASSUME NEW p \in posts' \ disturbed', Voting(w, p)
        PROVE  Balanced(p)'
    BY <1>1, <1>2, <1>3, <2>1, EndedVote, OwnPost, BalancedAfter DEF CountInv
  <2> QED BY <1>1, <1>2, <1>3, <2>1, EndedVote, CountFrame DEF OwnVote
<1>4. CASE Continues(w, "insert", 0)
  <2>1. ASSUME NEW p \in posts' \ disturbed', Voting(w, p) \/ Voting(w, p)'
        PROVE  Balanced(p)'
    <3>1. p = job[w].on /\ Voting(w, p) /\ Voting(w, p)'
      BY <1>1, <1>4, <2>1, AtVote, ContinuedVote
    <3>2. job'[w].step = "insert" /\ job'[w].read = job[w].read
      BY <1>1, <1>4, ContinuedVote
    <3> QED BY <1>1, <1>2, <3>1, <3>2, OwnPost, BalancedAfter DEF CountInv
  <2>2. author[job[w].on] # Nil
    BY <1>1, AtVote DEF CountInv
  <2> QED BY <1>1, <1>2, <1>4, <2>1, <2>2, ContinuedVote, CountFrame DEF OwnVote
<1> QED BY <1>3, <1>4 DEF Validate

LEMMA CountFind ==
    ASSUME TypeInv, CountInv, NEW w \in Workers, Find(w)
    PROVE  CountInv'
<1>1. TypeOK /\ Moved(w) /\ job[w].step = "find" /\ {"find", "destroy"} \subseteq VoteSteps
  BY Moves DEF TypeInv, Act, Find, VoteSteps
<1>2. UNCHANGED <<author, counter, votes, drawn, posts, disturbed>> /\ \A p : on(p)' = on(p)
  BY DEF Find, on
<1>3. CASE Ends(w)
  <2>1. ASSUME NEW p \in posts' \ disturbed', Voting(w, p)
        PROVE  Balanced(p)'
    BY <1>1, <1>2, <1>3, <2>1, EndedVote, OwnPost, BalancedAfter DEF CountInv
  <2> QED BY <1>1, <1>2, <1>3, <2>1, EndedVote, CountFrame DEF OwnVote
<1>4. ASSUME NEW v \in votes, v.on = job[w].on, Continues(w, "destroy", v.id)
      PROVE  CountInv'
  <2>0. v.id \in Nat /\ v.id <= drawn
    BY <1>1, PostAssumption DEF TypeOK, Votes
  <2>1. /\ job'[w].step = "destroy" /\ job'[w].on = job[w].on /\ job'[w].read = job[w].read
        /\ job'[w].row = v.id /\ \A p : Voting(w, p)' => p = job[w].on
    BY <1>1, <1>4, <2>0, ContinuedVote
  <2>2. ASSUME NEW p \in posts' \ disturbed', Voting(w, p) \/ Voting(w, p)'
        PROVE  Balanced(p)'
    <3>1. p = job[w].on /\ Voting(w, p) /\ Voting(w, p)'
      BY <1>1, <1>4, <2>0, <2>2, AtVote, ContinuedVote
    <3>2. \E u \in on(p)' : u.id = job'[w].row
      BY <1>2, <1>4, <2>1, <3>1 DEF on
    <3> QED BY <1>1, <1>2, <2>1, <3>1, <3>2, OwnPost, BalancedAfter DEF CountInv
  <2>3. author[job[w].on] # Nil
    BY <1>1, AtVote DEF CountInv
  <2>4. OwnVote(w)'
    BY <1>2, <1>4, <2>0, <2>1 DEF OwnVote, CountInv
  <2> QED BY <1>1, <1>2, <2>1, <2>2, <2>3, <2>4, CountFrame
<1> QED BY <1>3, <1>4 DEF Find, votes_of

\* A killed worker leaves a vote uncounted only on a post that counts as disturbed.
LEMMA CountKill ==
    ASSUME TypeInv, CountInv, NEW w \in Workers, Kill(w)
    PROVE  CountInv'
<1>1. TypeOK /\ Moved(w) /\ Ends(w)
  BY Moves DEF TypeInv, Act, Kill
<1>2. /\ UNCHANGED <<author, counter, votes, drawn, posts>> /\ \A p : on(p)' = on(p)
      /\ disturbed \subseteq disturbed'
      /\ job[w].step \in {"count_up", "count_down"} => job[w].on \in disturbed'
  BY DEF Kill, on
<1>3. ASSUME NEW p \in posts' \ disturbed', Voting(w, p)
      PROVE  Balanced(p)'
  <2>1. job[w].step \in {"validate", "insert", "find", "destroy"}
    BY <1>2, <1>3 DEF Voting, VoteSteps
  <2> QED BY <1>1, <1>2, <1>3, <2>1, EndedVote, OwnPost, BalancedAfter DEF CountInv
<1> QED BY <1>1, <1>2, <1>3, EndedVote, CountFrame DEF OwnVote

\* A vote begins on a post without one, or disturbs the post.
LEMMA CountUpdate ==
    ASSUME TypeInv, CountInv, NEW w \in Workers, NEW m \in Members, NEW q \in Posts,
           Update(w, m, q, "upvote") \/ Update(w, m, q, "cancel_upvote")
    PROVE  CountInv'
<1>1. TypeOK /\ Moved(w) /\ {"validate", "find"} \subseteq VoteSteps
  BY Moves DEF TypeInv, Act, VoteSteps
<1>2. /\ UNCHANGED <<author, counter, votes, drawn, posts>> /\ \A p : on(p)' = on(p)
      /\ disturbed' = disturbed \union ({q} \cap voted_on) /\ q \in posts /\ job[w] = Idle
  BY DEF Update, on
<1>3. PICK step \in {"validate", "find"} : Takes(w, step, m, q)
  BY DEF Update
<1>4. job'[w].step = step /\ job'[w].on = q /\ job'[w].read = counter[q]
  BY <1>1, <1>3, TakesType DEF Steps
<1>5. \A p : ~Voting(w, p)
  BY <1>2 DEF Voting, Idle, VoteSteps
<1>6. ASSUME NEW p \in posts' \ disturbed', Voting(w, p)'
      PROVE  Balanced(p)'
  <2>1. p = q /\ Balanced(p)
    BY <1>2, <1>4, <1>6 DEF Voting, CountInv
  <2>2. \A v \in Workers : ~Voting(v, p)
    BY <1>2, <2>1 DEF Voting, voted_on
  <2>3. counter[p] = Cardinality(on(p))
    BY <2>1, <2>2 DEF Balanced
  <2>4. \A v \in Workers : v # w => ~Voting(v, p)'
    BY <1>1, <2>2 DEF Moved, Voting
  <2> QED BY <1>2, <1>4, <1>6, <2>1, <2>3, <2>4, BalancedAfter
<1>7. author[q] # Nil
  BY <1>1, <1>2 DEF TypeOK
<1> QED BY <1>1, <1>2, <1>4, <1>5, <1>6, <1>7, CountFrame DEF OwnVote

\* Requests that do not vote.
LEMMA CountOther ==
    ASSUME TypeInv, CountInv, NEW w \in Workers,
           \/ \E m \in Members, p \in Posts : Show(w, m, p) \/ Comment(w, m, p)
           \/ SaveComment(w) \/ Track(w)
           \/ \E c \in comments : DestroyComment(w, c)
           \/ \E gone \in SUBSET posts : DestroyPosts(w, gone)
    PROVE  CountInv'
<1>1. TypeOK /\ Moved(w)
  BY Moves DEF TypeInv, Act
<1>2. UNCHANGED <<author, counter, votes, drawn, disturbed>> /\ posts' \subseteq posts
  BY DEF Show, Comment, SaveComment, Track, DestroyComment, DestroyPosts, Destroyed
<1>3. job'[w] = job[w] \/ (job[w].step \notin VoteSteps /\ job'[w].step \notin VoteSteps)
  <2>0. {"comment", "notify", "announce"} \cap VoteSteps = {}
        /\ {"comment", "notify"} \subseteq Steps
    BY DEF VoteSteps, WriteSteps, Steps
  <2>1. ASSUME NEW m \in Members, NEW p \in Posts, Comment(w, m, p)
        PROVE  job[w].step \notin VoteSteps /\ job'[w].step \notin VoteSteps
    <3>1. job'[w].step = "comment"
      BY <1>1, <2>0, <2>1, TakesType DEF Comment
    <3> QED BY <2>0, <2>1, <3>1 DEF Comment, Idle, VoteSteps
  <2>2. ASSUME SaveComment(w)
        PROVE  job[w].step \notin VoteSteps /\ job'[w].step \notin VoteSteps
    <3>1. written' \in Nat /\ job[w] \in Jobs /\ job[w].step = "comment"
      BY <1>1, <2>0, <2>2, PostAssumption, JobType DEF SaveComment, TypeOK
    <3>2. job'[w].step = "notify"
      BY <1>1, <2>0, <2>2, <3>1, ContinuesType DEF SaveComment
    <3> QED BY <2>0, <3>1, <3>2
  <2>3. ASSUME Track(w)
        PROVE  job[w].step \notin VoteSteps /\ job'[w].step \notin VoteSteps
    BY <1>1, <2>0, <2>3, EndedVote DEF Track
  <2>4. ASSUME \/ \E m \in Members, p \in Posts : Show(w, m, p)
               \/ \E c \in comments : DestroyComment(w, c)
               \/ \E gone \in SUBSET posts : DestroyPosts(w, gone)
        PROVE  job'[w] = job[w]
    BY <2>4 DEF Show, DestroyComment, DestroyPosts
  <2> QED BY <2>1, <2>2, <2>3, <2>4
<1>4. OwnVote(w)'
  BY <1>2, <1>3 DEF OwnVote, CountInv, VoteSteps
<1>5. job'[w].step \in VoteSteps => author[job'[w].on] # Nil
  <2>1. job[w].step \in VoteSteps => author[job[w].on] # Nil
    BY <1>1, AtVote DEF CountInv
  <2> QED BY <1>3, <2>1
<1> QED BY <1>1, <1>2, <1>3, <1>4, <1>5, CountFrame DEF Voting

\* The new vote has an id no other has, and is one more than the counter of its post says.
LEMMA CountInsert ==
    ASSUME TypeInv, CountInv, NEW w \in Workers, Insert(w)
    PROVE  CountInv'
<1>1. TypeOK /\ Moved(w) /\ job[w].step = "insert" /\ {"insert", "count_up"} \subseteq VoteSteps
  BY Moves DEF TypeInv, Act, Insert, VoteSteps
<1>2. drawn \in Nat /\ drawn' = drawn + 1 /\ drawn' \in Nat
  BY <1>1, PostAssumption DEF Insert, TypeOK
<1>3. /\ job'[w].step = "count_up" /\ job'[w].on = job[w].on /\ job'[w].read = job[w].read
      /\ Voting(w, job[w].on)' /\ Voting(w, job[w].on) /\ job[w].on \in Posts
      /\ \A p : (Voting(w, p) => p = job[w].on) /\ (Voting(w, p)' => p = job[w].on)
  BY <1>1, <1>2, AtVote, ContinuedVote DEF Insert
<1> DEFINE new == [id |-> drawn', by |-> job[w].by, on |-> job[w].on]
<1>4. votes' = votes \union {new} /\ new.id = drawn' /\ new.on = job[w].on
  BY DEF Insert
<1>5. \A v \in votes : v.id # drawn' /\ v.id \in Nat
  <2>1. \A v \in votes : v.id <= drawn /\ v.id \in Nat
    BY <1>1, PostAssumption DEF TypeOK, Votes
  <2> QED BY <1>2, <2>1
<1>6. new \notin votes
  BY <1>4, <1>5
<1> HIDE DEF new
<1>7. UNCHANGED <<author, counter, posts, disturbed>>
  BY DEF Insert
<1>8. \A p : p # job[w].on => on(p)' = on(p)
  BY <1>4 DEF on
<1>9. IsFiniteSet(votes') /\ \A v, u \in votes' : v.id = u.id => v = u
  BY <1>4, <1>5, FS_AddElement DEF CountInv
<1>10. \A v \in Workers : OwnVote(v)'
  <2> SUFFICES ASSUME NEW v \in Workers, job'[v].step = "destroy"
               PROVE  job'[v].row <= drawn' /\ \A u \in votes' : u.id = job'[v].row => u.on = job'[v].on
    BY DEF OwnVote
  <2>1. job'[v] = job[v] /\ OwnVote(v)
    BY <1>1, <1>3 DEF Moved, CountInv
  <2>2. job[v].row <= drawn /\ job[v].row \in Nat /\ job[v].row # drawn'
    <3>1. job[v].row \in Nat
      BY <1>1, <2>1, AtVote DEF VoteSteps
    <3>2. job[v].row <= drawn
      BY <2>1 DEF OwnVote
    <3> QED BY <1>2, <3>1, <3>2
  <2> QED BY <1>2, <1>4, <2>1, <2>2 DEF OwnVote
<1>11. author[job[w].on] # Nil
  BY <1>3 DEF CountInv
<1>12. ASSUME NEW p \in Posts, author'[p] = Nil
       PROVE  counter'[p] = 0 /\ on(p)' = {} /\ \A v \in Workers : ~Voting(v, p)'
  <2>1. counter[p] = 0 /\ on(p) = {} /\ p # job[w].on /\ \A v \in Workers : ~Voting(v, p)
    BY <1>7, <1>11, <1>12 DEF CountInv
  <2>2. \A v \in Workers : ~Voting(v, p)'
    BY <1>1, <1>3, <2>1 DEF Moved, Voting
  <2> QED BY <1>7, <1>8, <2>1, <2>2
<1>13. ASSUME NEW p \in posts' \ disturbed'
       PROVE  Balanced(p)'
  <2>1. Balanced(p)
    BY <1>7 DEF CountInv
  <2>2. CASE p # job[w].on
    BY <1>1, <1>3, <1>7, <1>8, <2>1, <2>2, BalancedFrame DEF Moved
  <2>3. CASE p = job[w].on
    <3>1. on(p)' = on(p) \union {new} /\ new \notin on(p)
      BY <1>4, <1>6, <2>3 DEF on
    <3>2. IsFiniteSet(on(p))
      BY FS_Subset DEF CountInv, on
    <3>3. Cardinality(on(p)') = Cardinality(on(p)) + 1
      BY <3>1, <3>2, FS_AddElement
    <3>4. counter[p] = Cardinality(on(p)) /\ job[w].read = counter[p]
          /\ \A v \in Workers : v # w => ~Voting(v, p)'
      BY <1>1, <1>3, <2>1, <2>3, OwnPost
    <3> QED BY <1>3, <1>7, <2>3, <3>3, <3>4, BalancedAfter
  <2> QED BY <2>2, <2>3
<1> QED BY <1>9, <1>10, <1>12, <1>13 DEF CountInv

\* The vote found is the only one with its id: one vote less on the post.
LEMMA CountDestroy ==
    ASSUME TypeInv, CountInv, NEW w \in Workers, Destroy(w)
    PROVE  CountInv'
<1>1. /\ TypeOK /\ Moved(w) /\ job[w].step = "destroy"
      /\ {"destroy", "count_down"} \subseteq VoteSteps
  BY Moves DEF TypeInv, Act, Destroy, VoteSteps
<1>2. job[w].row \in Nat
  BY <1>1, AtVote
<1>3. /\ job'[w].step = "count_down" /\ job'[w].on = job[w].on /\ job'[w].read = job[w].read
      /\ Voting(w, job[w].on)' /\ Voting(w, job[w].on) /\ job[w].on \in Posts
      /\ \A p : (Voting(w, p) => p = job[w].on) /\ (Voting(w, p)' => p = job[w].on)
  BY <1>1, <1>2, AtVote, ContinuedVote DEF Destroy
<1>4. votes' = {v \in votes : v.id # job[w].row} /\ UNCHANGED <<author, counter, posts, drawn, disturbed>>
  BY DEF Destroy
<1>5. \A v \in votes : v.id = job[w].row => v.on = job[w].on
  BY <1>1 DEF CountInv, OwnVote
<1>6. \A p : p # job[w].on => on(p)' = on(p)
  BY <1>4, <1>5 DEF on
<1>7. IsFiniteSet(votes') /\ \A v, u \in votes' : v.id = u.id => v = u
  <2>1. votes' \subseteq votes
    BY <1>4
  <2> QED BY <2>1, FS_Subset DEF CountInv
<1>8. \A v \in Workers : OwnVote(v)'
  BY <1>1, <1>3, <1>4 DEF Moved, CountInv, OwnVote
<1>9. author[job[w].on] # Nil
  BY <1>3 DEF CountInv
<1>10. ASSUME NEW p \in Posts, author'[p] = Nil
       PROVE  counter'[p] = 0 /\ on(p)' = {} /\ \A v \in Workers : ~Voting(v, p)'
  <2>1. counter[p] = 0 /\ on(p) = {} /\ p # job[w].on /\ \A v \in Workers : ~Voting(v, p)
    BY <1>4, <1>9, <1>10 DEF CountInv
  <2>2. \A v \in Workers : ~Voting(v, p)'
    BY <1>1, <1>3, <2>1 DEF Moved, Voting
  <2> QED BY <1>4, <1>6, <2>1, <2>2
<1>11. ASSUME NEW p \in posts' \ disturbed'
       PROVE  Balanced(p)'
  <2>1. Balanced(p)
    BY <1>4 DEF CountInv
  <2>2. CASE p # job[w].on
    BY <1>1, <1>3, <1>4, <1>6, <2>1, <2>2, BalancedFrame DEF Moved
  <2>3. CASE p = job[w].on
    <3>0. /\ counter[p] = Cardinality(on(p)) /\ job[w].read = counter[p]
          /\ \A v \in Workers : v # w => ~Voting(v, p)'
          /\ \E v \in on(p) : v.id = job[w].row
      BY <1>1, <1>3, <2>1, <2>3, OwnPost
    <3>1. PICK old \in on(p) : old.id = job[w].row
      BY <3>0
    <3>2. on(p)' = on(p) \ {old}
      BY <1>4, <3>1 DEF on, CountInv
    <3>3. IsFiniteSet(on(p))
      BY FS_Subset DEF CountInv, on
    <3>4. Cardinality(on(p)') = Cardinality(on(p)) - 1
      BY <3>1, <3>2, <3>3, FS_RemoveElement
    <3> QED BY <1>3, <1>4, <2>3, <3>0, <3>4, BalancedAfter
  <2> QED BY <2>2, <2>3
<1> QED BY <1>7, <1>8, <1>10, <1>11 DEF CountInv

\* What was read is still what is stored, so that one more or one less is right.
LEMMA CountCount ==
    ASSUME TypeInv, CountInv, NEW w \in Workers, Count(w)
    PROVE  CountInv'
<1>1. /\ TypeOK /\ Moved(w) /\ Ends(w) /\ job[w].step \in {"count_up", "count_down"}
      /\ {"count_up", "count_down"} \subseteq VoteSteps
  BY Moves DEF TypeInv, Act, Count, VoteSteps
<1>2. /\ job[w].on \in Posts /\ job[w].read \in Int /\ Voting(w, job[w].on)
      /\ \A p : (Voting(w, p) => p = job[w].on) /\ ~Voting(w, p)'
      /\ job'[w].step # "destroy"
  BY <1>1, AtVote, EndedVote
<1>3. UNCHANGED <<author, votes, drawn, posts, disturbed>> /\ \A p : on(p)' = on(p)
  BY DEF Count, on
<1>4. /\ \A p \in Posts : p # job[w].on => counter'[p] = counter[p]
      /\ job[w].on \in posts => counter'[job[w].on] =
            IF job[w].step = "count_up" THEN job[w].read + 1 ELSE job[w].read - 1
  BY <1>1, <1>2 DEF Count, TypeOK
<1>5. \A v \in Workers : OwnVote(v)'
  BY <1>1, <1>2, <1>3 DEF Moved, CountInv, OwnVote
<1>6. ASSUME NEW p \in Posts, author'[p] = Nil
      PROVE  counter'[p] = 0 /\ on(p)' = {} /\ \A v \in Workers : ~Voting(v, p)'
  <2>1. counter[p] = 0 /\ on(p) = {} /\ p # job[w].on /\ \A v \in Workers : ~Voting(v, p)
    BY <1>2, <1>3, <1>6 DEF CountInv
  <2>2. \A v \in Workers : ~Voting(v, p)'
    BY <1>1, <1>2, <2>1 DEF Moved, Voting
  <2> QED BY <1>3, <1>4, <2>1, <2>2
<1>7. ASSUME NEW p \in posts' \ disturbed'
      PROVE  Balanced(p)'
  <2>1. Balanced(p) /\ p \in Posts /\ p \in posts
    BY <1>1, <1>3 DEF CountInv, TypeOK
  <2>2. CASE p # job[w].on
    BY <1>1, <1>2, <1>3, <1>4, <2>1, <2>2, BalancedFrame DEF Moved
  <2>3. CASE p = job[w].on
    <3>1. /\ job[w].read = counter[p] /\ \A v \in Workers : v # w => ~Voting(v, p)'
          /\ job[w].step = "count_up" => Cardinality(on(p)) = counter[p] + 1
          /\ job[w].step = "count_down" => Cardinality(on(p)) = counter[p] - 1
      BY <1>1, <1>2, <2>1, <2>3, OwnPost
    <3>2. counter'[p] = Cardinality(on(p)')
      BY <1>1, <1>3, <1>4, <2>1, <2>3, <3>1
    <3> QED BY <1>2, <3>1, <3>2, BalancedAfter
  <2> QED BY <2>2, <2>3
<1> QED BY <1>3, <1>5, <1>6, <1>7 DEF CountInv

\* A new post starts with no vote, and with none under way.
LEMMA CountCreate ==
    ASSUME TypeInv, CountInv, NEW w \in Workers, NEW m \in Members, NEW q \in Posts,
           Create(w, m, q)
    PROVE  CountInv'
<1>1. TypeOK /\ Moved(w) /\ job[w] = Idle /\ author[q] = Nil /\ "announce" \notin VoteSteps
  BY Moves DEF TypeInv, Act, Create, VoteSteps
<1>2. job'[w].step = "announce"
  BY <1>1, TakesType DEF Create, Steps, WriteSteps
<1>3. /\ UNCHANGED <<counter, votes, drawn, disturbed>> /\ \A p : on(p)' = on(p)
      /\ posts' = posts \union {q}
  BY DEF Create, on
<1>4. \A p \in Posts : p # q => author'[p] = author[p]
  BY <1>1 DEF Create, TypeOK
<1>5. author'[q] # Nil
  BY <1>1, PostAssumption DEF Create, TypeOK
<1>6. \A v \in Workers, p \in Posts : (Voting(v, p)' <=> Voting(v, p)) /\ ~Voting(w, p) /\ ~Voting(w, p)'
  BY <1>1, <1>2 DEF Moved, Voting, Idle, VoteSteps
<1>7. \A v \in Workers : OwnVote(v)'
  BY <1>1, <1>2, <1>3 DEF Moved, CountInv, OwnVote
<1>8. ASSUME NEW p \in posts' \ disturbed'
      PROVE  Balanced(p)'
  <2>1. p \in Posts
    BY <1>1, <1>3 DEF TypeOK
  <2>2. CASE p \in posts
    BY <1>1, <1>3, <1>6, <2>1, <2>2, BalancedFrame DEF CountInv, Moved
  <2>3. CASE p = q
    <3>1. counter'[p] = 0 /\ on(p)' = {} /\ \A v \in Workers : ~Voting(v, p)'
      BY <1>1, <1>3, <1>6, <2>1, <2>3 DEF CountInv
    <3>2. Cardinality(on(p)') = 0
      BY <3>1, FS_EmptySet
    <3> QED BY <3>1, <3>2, BalancedAfter
  <2> QED BY <1>3, <2>2, <2>3
<1>9. ASSUME NEW p \in Posts, author'[p] = Nil
      PROVE  counter'[p] = 0 /\ on(p)' = {} /\ \A v \in Workers : ~Voting(v, p)'
  BY <1>3, <1>4, <1>5, <1>6, <1>9 DEF CountInv
<1> QED BY <1>3, <1>7, <1>8, <1>9 DEF CountInv

\* The votes that go with a broker are on posts that count as disturbed.
LEMMA CountRemoveBroker ==
    ASSUME TypeInv, CountInv, NEW w \in Workers, NEW k \in Brokers, RemoveBroker(w, k)
    PROVE  CountInv'
<1>1. /\ UNCHANGED <<author, counter, drawn, job>> /\ posts' \subseteq posts
      /\ votes' = {v \in votes : v.by # k}
      /\ disturbed' = disturbed \union {v.on : v \in {u \in votes : u.by = k}}
  BY DEF RemoveBroker, Destroyed
<1>2. \A p : on(p)' \subseteq on(p) /\ (p \notin disturbed' => on(p)' = on(p))
  BY <1>1 DEF on
<1>3. IsFiniteSet(votes') /\ \A v, u \in votes' : v.id = u.id => v = u
  <2>1. votes' \subseteq votes
    BY <1>1
  <2> QED BY <2>1, FS_Subset DEF CountInv
<1>4. \A v \in Workers : OwnVote(v)'
  BY <1>1 DEF CountInv, OwnVote
<1>5. \A p \in Posts : author'[p] = Nil =>
          counter'[p] = 0 /\ on(p)' = {} /\ \A v \in Workers : ~Voting(v, p)'
  BY <1>1, <1>2 DEF CountInv, Voting
<1>6. \A p \in posts' \ disturbed' : Balanced(p)'
  BY <1>1, <1>2, BalancedFrame DEF CountInv
<1> QED BY <1>3, <1>4, <1>5, <1>6 DEF CountInv

\* The number shown with a post is the number of its votes, whatever the workers do at
\* once on other posts: FinancialTestimoniesController#update saves what it read, and
\* nobody else stores a counter or a vote of the post meanwhile, unless the post is one
\* of the disturbed.
THEOREM CountersCountVotes == Spec => []CounterCountsVotes
<1>1. Init => CountInv
  <2> SUFFICES ASSUME Init PROVE CountInv
    OBVIOUS
  <2>1. votes = {} /\ posts = {} /\ IsFiniteSet(votes) /\ \A p : on(p) = {}
    BY FS_EmptySet DEF Init, on
  <2>2. \A w \in Workers, p \in Posts : ~Voting(w, p)
    BY DEF Init, Voting, Idle, VoteSteps
  <2>3. \A w \in Workers : OwnVote(w)
    BY DEF Init, OwnVote, Idle
  <2> QED BY <2>1, <2>2, <2>3 DEF Init, CountInv
<1>2. TypeInv /\ CountInv /\ [Next]_vars => CountInv'
  <2> SUFFICES ASSUME TypeInv, CountInv, [Next]_vars PROVE CountInv'
    OBVIOUS
  <2>1. CASE UNCHANGED vars
    <3>1. UNCHANGED <<author, posts, counter, votes, drawn, job, disturbed>>
      BY <2>1 DEF vars
    <3>2. \A p : on(p)' = on(p)
      BY <3>1 DEF on
    <3>3. \A p \in posts' \ disturbed' : Balanced(p)'
      BY <3>1, <3>2, BalancedFrame DEF CountInv
    <3> QED BY <3>1, <3>2, <3>3 DEF CountInv, OwnVote, Voting
  <2>2. ASSUME NEW w \in Workers, Act(w) PROVE CountInv'
    BY <2>2, CountValidate, CountFind, CountKill, CountUpdate, CountOther, CountInsert,
       CountDestroy, CountCount, CountCreate, CountRemoveBroker DEF Act
  <2> QED BY <2>1, <2>2, NextActs
<1>3. CountInv => CounterCountsVotes
  <2> SUFFICES ASSUME CountInv, NEW p \in posts \ (disturbed \union voted_on)
               PROVE  counter[p] = Cardinality({v \in votes : v.on = p})
    BY DEF CounterCountsVotes
  <2>1. Balanced(p) /\ \A w \in Workers : ~Voting(w, p)
    BY DEF CountInv, Voting, voted_on
  <2> QED BY <2>1 DEF Balanced, on
<1> QED BY <1>1, <1>2, <1>3, InitType, NextType, PTL DEF Spec

=============================================================================
