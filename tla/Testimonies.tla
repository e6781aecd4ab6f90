---------------------------- MODULE Testimonies -----------------------------
(***************************************************************************)
(* What members publish: financial stories of brokers and testimonies of   *)
(* users, the votes and comments on them, and the activities that the news *)
(* page and the header of every page list.                                 *)
(*                                                                         *)
(* A handler that commits more than once is one action per commit; `job'   *)
(* is what a worker process still has to do for the request it serves.     *)
(* Members press the links of pages they opened at any time before, the    *)
(* impatient ones without waiting for the answer to the last one.  The     *)
(* page of a story cannot be rendered (show sets @fin_story, the view      *)
(* reads @story), so that votes and comments are on testimonies.           *)
(***************************************************************************)
EXTENDS Integers, FiniteSets

CONSTANTS
    Users, Brokers,
    Posts,          \* the rows of financial_stories and financial_testimonies
    Workers,        \* the worker processes, WEB_CONCURRENCY
    Impatient,      \* the members who click twice, or use two windows at once
    Faults,         \* is a worker killed that exceeds unicorn's timeout?
    Nil,
    MaxVotes,       \* bound: rows of votes ever created
    MaxComments     \* bound: rows of micro_comments ever created

Members == Users \union Brokers

ASSUME PostAssumption ==
    /\ Users \cap Brokers = {} /\ Nil \notin Members /\ Nil \notin Posts
    /\ Faults \in BOOLEAN /\ Impatient \subseteq Members
    /\ IsFiniteSet(Workers)
    /\ MaxVotes \in Nat /\ MaxComments \in Nat

VARIABLES
    brokers,    \* the brokers whose profile was not removed
    author,     \* who wrote the post, Nil for an id not yet used
    posts,      \* the posts there are
    counter,    \* the column `votes' of a post
    votes,      \* the rows of votes
    drawn,      \* the vote ids used so far
    comments,   \* the rows of micro_comments
    written,    \* the comment ids used so far
    activities, \* the rows of activities
    links,      \* for each member, the voting links on the pages opened
    job,        \* for each worker, the rest of the request it serves
    disturbed,  \* history: posts voted on twice at once, or whose voter was removed, or
                \*   whose vote was cut short
    overtaken   \* history: posts of which something was removed during a request that
                \*   writes on them

vars == <<brokers, author, posts, counter, votes, drawn, comments, written, activities,
          links, job, disturbed, overtaken>>

-----------------------------------------------------------------------------
Links    == Posts \X {"upvote", "cancel_upvote"}
Votes    == [id : 1..MaxVotes, by : Members, on : Posts]
Comments == [id : 1..MaxComments, by : Members, on : Posts]

\* An activity tells of a post, or of the comment with that id on it; the latter has
\* a story_owner, whom the header tells.
Activities == [comment : 0..MaxComments, post : Posts, by : Members \union {Nil},
               owner : Members \union {Nil}]

VoteSteps  == {"validate", "insert", "count_up", "find", "destroy", "count_down"}
WriteSteps == {"comment", "notify", "announce"}

\* `read' is the counter the handler loaded, `row' the vote or comment it works on.
Jobs == [step : VoteSteps \union WriteSteps, by : Members, on : Posts, read : Int, row : Nat]
Idle == [step |-> "idle"]

TypeOK ==
    /\ brokers \in SUBSET Brokers
    /\ author \in [Posts -> Members \union {Nil}]
    /\ posts \in SUBSET {p \in Posts : author[p] # Nil}
    /\ counter \in [Posts -> Int]
    /\ drawn \in 0..MaxVotes /\ written \in 0..MaxComments
    /\ votes \in SUBSET {v \in Votes : v.id <= drawn}
    /\ comments \in SUBSET {c \in Comments : c.id <= written}
    /\ activities \in SUBSET Activities
    /\ links \in [Members -> SUBSET Links]
    /\ job \in [Workers -> Jobs \union {Idle}]
    /\ disturbed \in SUBSET Posts /\ overtaken \in SUBSET Posts

Init ==
    /\ brokers = Brokers
    /\ author = [p \in Posts |-> Nil] /\ posts = {}
    /\ counter = [p \in Posts |-> 0]
    /\ votes = {} /\ drawn = 0
    /\ comments = {} /\ written = 0
    /\ activities = {}
    /\ links = [m \in Members |-> {}]
    /\ job = [w \in Workers |-> Idle]
    /\ disturbed = {} /\ overtaken = {}

-----------------------------------------------------------------------------
present(m) == m \in Users \union brokers

votes_of(m, p) == {v \in votes : v.by = m /\ v.on = p}

\* The columns the uniqueness of a vote is scoped to: financial_story_id, which is nil
\* in every vote on a testimony.
scope(p) == IF author[p] \in Users THEN {q \in Posts : author[q] \in Users} ELSE {p}

\* m sends a request: he waits for the answer to the last one, unless he is impatient.
Sends(m) ==
    /\ present(m)
    /\ m \in Impatient \/ \A v \in Workers : job[v] # Idle => job[v].by # m

\* The posts with a vote under way, and those with a post or comment of k under way.
voted_on     == {job[v].on : v \in {x \in Workers : job[x].step \in VoteSteps}}
written_on   == {job[v].on : v \in {x \in Workers : job[x].step \in WriteSteps}}
written_by(k) ==
    {job[v].on : v \in {x \in Workers : job[x].step \in WriteSteps /\ job[x].by = k}}

\* A worker takes a request, goes on to its next step, or ends it.
Takes(w, step, m, p) ==
    job' = [job EXCEPT ![w] = [step |-> step, by |-> m, on |-> p, read |-> counter[p], row |-> 0]]
Continues(w, step, row) == job' = [job EXCEPT ![w].step = step, ![w].row = row]
Ends(w) == job' = [job EXCEPT ![w] = Idle]

\* The heading of a post as m sees it: one link, by whether he voted.
heading(m, p) == <<p, IF votes_of(m, p) = {} THEN "upvote" ELSE "cancel_upvote">>

\* The header of a page lists the activities on the member's own posts, each with a link
\* to remove it; no route leads there, and the page cannot be rendered.
header_renders(m) == \A a \in activities : a.owner # m

-----------------------------------------------------------------------------
(***************************************************************************)
(* Opening a testimony, and voting.                                        *)
(***************************************************************************)

\* GET financial_testimonies/p by a member.
Show(w, m, p) ==
    /\ job[w] = Idle /\ Sends(m)
    /\ p \in posts /\ author[p] \in Users
    /\ header_renders(m)
    /\ links' = [links EXCEPT ![m] = @ \union {heading(m, p)}]
    /\ UNCHANGED <<brokers, author, posts, counter, votes, drawn, comments, written,
                   activities, job, disturbed, overtaken>>

\* PATCH with upvote or cancel_upvote, from a page opened before.  Post and member are
\* found, and with the post the counter.
Update(w, m, p, link) ==
    /\ job[w] = Idle /\ Sends(m)
    /\ p \in posts
    /\ <<p, link>> \in links[m]
    /\ Takes(w, IF link = "upvote" THEN "validate" ELSE "find", m, p)
    /\ disturbed' = disturbed \union ({p} \cap voted_on)
    /\ UNCHANGED <<brokers, author, posts, counter, votes, drawn, comments, written,
                   activities, links, overtaken>>

\* Mutant of Validate: no uniqueness is validated.
Validate_nothing(w) ==
    /\ job[w].step = "validate"
    /\ Continues(w, "insert", 0)
    /\ UNCHANGED <<brokers, author, posts, counter, votes, drawn, comments, written,
                   activities, links, disturbed, overtaken>>

\* vote.save, first the query of validates_uniqueness_of.
Validate(w) ==
    LET r == job[w]
    IN  /\ r.step = "validate"
        /\ \/ /\ \E v \in votes : v.by = r.by /\ v.on \in scope(r.on)
              /\ Ends(w)
              /\ links' = [links EXCEPT ![r.by] = @ \union {heading(r.by, r.on)}]
           \/ /\ \A v \in votes : v.by = r.by => v.on \notin scope(r.on)
              /\ Continues(w, "insert", 0)
              /\ UNCHANGED links
        /\ UNCHANGED <<brokers, author, posts, counter, votes, drawn, comments, written,
                       activities, disturbed, overtaken>>

\* Mutant of Insert: an id that was not drawn from the sequence.
Insert_without_sequence(w) ==
    /\ job[w].step = "insert"
    /\ drawn < MaxVotes
    /\ votes' = votes \union {[id |-> drawn + 1, by |-> job[w].by, on |-> job[w].on]}
    /\ Continues(w, "count_up", drawn + 1)
    /\ UNCHANGED <<brokers, author, posts, counter, drawn, comments, written, activities,
                   links, disturbed, overtaken>>

\* vote.save, then the row.
Insert(w) ==
    /\ job[w].step = "insert"
    /\ drawn < MaxVotes
    /\ drawn' = drawn + 1
    /\ votes' = votes \union {[id |-> drawn', by |-> job[w].by, on |-> job[w].on]}
    /\ Continues(w, "count_up", drawn')
    /\ UNCHANGED <<brokers, author, posts, counter, comments, written, activities, links,
                   disturbed, overtaken>>

\* Mutant of Find: a vote that is not there is not missed (@vote.try(:destroy)).
Find_anything(w) ==
    /\ job[w].step = "find"
    /\ \E id \in {v.id : v \in votes_of(job[w].by, job[w].on)} \union {0} :
          Continues(w, "destroy", id)
    /\ UNCHANGED <<brokers, author, posts, counter, votes, drawn, comments, written,
                   activities, links, disturbed, overtaken>>

\* The first vote of the member on the post; without one destroy is sent to nil.
Find(w) ==
    LET mine == votes_of(job[w].by, job[w].on)
    IN  /\ job[w].step = "find"
        /\ \/ mine = {} /\ Ends(w)
           \/ \E v \in mine :
                 /\ \A u \in mine : v.id <= u.id
                 /\ Continues(w, "destroy", v.id)
        /\ UNCHANGED <<brokers, author, posts, counter, votes, drawn, comments, written,
                       activities, links, disturbed, overtaken>>

\* vote.destroy; a row gone since is not missed.
Destroy(w) ==
    /\ job[w].step = "destroy"
    /\ votes' = {v \in votes : v.id # job[w].row}
    /\ Continues(w, "count_down", job[w].row)
    /\ UNCHANGED <<brokers, author, posts, counter, drawn, comments, written, activities,
                   links, disturbed, overtaken>>

\* The counter read, one more or one less, is saved, and the heading rendered again.
Count(w) ==
    LET r == job[w]
    IN  /\ r.step \in {"count_up", "count_down"}
        /\ counter' = [counter EXCEPT ![r.on] =
                          IF r.on \notin posts THEN @
                          ELSE IF r.step = "count_up" THEN r.read + 1 ELSE r.read - 1]
        /\ links' = [links EXCEPT ![r.by] = @ \union {heading(r.by, r.on)}]
        /\ Ends(w)
        /\ UNCHANGED <<brokers, author, posts, votes, drawn, comments, written, activities,
                       disturbed, overtaken>>

-----------------------------------------------------------------------------
(***************************************************************************)
(* Posts and comments, with the activity that tells of them.               *)
(***************************************************************************)

\* POST financial_stories by a broker, financial_testimonies by a user; then
\* track_activity (Track).
Create(w, m, p) ==
    /\ job[w] = Idle /\ Sends(m)
    /\ author[p] = Nil
    /\ author' = [author EXCEPT ![p] = m]
    /\ posts' = posts \union {p}
    /\ Takes(w, "announce", m, p)
    /\ UNCHANGED <<brokers, counter, votes, drawn, comments, written, activities, links,
                   disturbed, overtaken>>

\* POST micro_comments, from the page of a testimony: the testimony is found.
Comment(w, m, p) ==
    /\ job[w] = Idle /\ Sends(m)
    /\ p \in posts
    /\ \E link \in links[m] : link[1] = p
    /\ Takes(w, "comment", m, p)
    /\ UNCHANGED <<brokers, author, posts, counter, votes, drawn, comments, written,
                   activities, links, disturbed, overtaken>>

\* comment.save, which validates nothing.
SaveComment(w) ==
    /\ job[w].step = "comment"
    /\ written < MaxComments
    /\ written' = written + 1
    /\ comments' = comments \union {[id |-> written', by |-> job[w].by, on |-> job[w].on]}
    /\ Continues(w, "notify", written')
    /\ UNCHANGED <<brokers, author, posts, counter, votes, drawn, activities, links,
                   disturbed, overtaken>>

\* track_activity after a post or a comment was saved.  The author of a comment is
\* looked up for it.
Track(w) ==
    LET r == job[w]
    IN  /\ r.step \in {"announce", "notify"}
        /\ activities' = activities \union
              {[comment |-> r.row, post |-> r.on,
                by |-> IF r.step = "announce" \/ present(r.by) THEN r.by ELSE Nil,
                owner |-> IF r.step = "announce" THEN Nil ELSE author[r.on]]}
        /\ Ends(w)
        /\ UNCHANGED <<brokers, author, posts, counter, votes, drawn, comments, written,
                       links, disturbed, overtaken>>

\* DELETE micro_comments: the comment with its activities.
DestroyComment(w, c) ==
    /\ job[w] = Idle
    /\ c \in comments /\ Sends(c.by)
    /\ comments' = comments \ {c}
    /\ activities' = {a \in activities : a.comment # c.id}
    /\ overtaken' = overtaken \union ({c.on} \cap written_on)
    /\ UNCHANGED <<brokers, author, posts, counter, votes, drawn, written, links, job, disturbed>>

\* What goes with posts: their comments, and the activities of both.  Votes stay.
Destroyed(gone) ==
    /\ posts' = posts \ gone
    /\ comments' = {c \in comments : c.on \notin gone}

\* Mutant of DestroyPosts: comments are destroyed without their activities.
DestroyPosts_not_notices(w, gone) ==
    /\ job[w] = Idle
    /\ gone # {}
    /\ Destroyed(gone)
    /\ activities' = {a \in activities : a.post \notin gone \/ a.comment # 0}
    /\ overtaken' = overtaken \union (gone \cap written_on)
    /\ UNCHANGED <<brokers, author, counter, votes, drawn, written, links, job, disturbed>>

\* DELETE of a post by its author, or of a product with the posts on it.
DestroyPosts(w, gone) ==
    /\ job[w] = Idle
    /\ gone # {}
    /\ Destroyed(gone)
    /\ activities' = {a \in activities : a.post \notin gone}
    /\ overtaken' = overtaken \union (gone \cap written_on)
    /\ UNCHANGED <<brokers, author, counter, votes, drawn, written, links, job, disturbed>>

\* DELETE brokers: with him his votes, his stories and the activities he is author of.
\* His comments stay.
RemoveBroker(w, k) ==
    LET stories == {p \in posts : author[p] = k}
    IN  /\ job[w] = Idle
        /\ k \in brokers /\ Sends(k)
        /\ brokers' = brokers \ {k}
        /\ votes' = {v \in votes : v.by # k}
        /\ Destroyed(stories)
        /\ activities' = {a \in activities : a.by # k /\ a.post \notin stories}
        /\ disturbed' = disturbed \union {v.on : v \in {u \in votes : u.by = k}}
        /\ overtaken' = overtaken \union (stories \cap written_on) \union written_by(k)
        /\ UNCHANGED <<author, counter, drawn, written, links, job>>

\* The master kills a worker that takes longer than its timeout.
Kill(w) ==
    /\ Faults
    /\ job[w] # Idle
    /\ disturbed' = IF job[w].step \in {"count_up", "count_down"}
                    THEN disturbed \union {job[w].on} ELSE disturbed
    /\ Ends(w)
    /\ UNCHANGED <<brokers, author, posts, counter, votes, drawn, comments, written,
                   activities, links, overtaken>>

Next ==
    \E w \in Workers :
       \/ \E m \in Members, p \in Posts :
             \/ Show(w, m, p)
             \/ Update(w, m, p, "upvote")
             \/ Update(w, m, p, "cancel_upvote")
             \/ Create(w, m, p)
             \/ Comment(w, m, p)
       \/ Validate(w) \/ Insert(w) \/ Find(w) \/ Destroy(w) \/ Count(w)
       \/ SaveComment(w) \/ Track(w)
       \/ \E c \in comments : DestroyComment(w, c)
       \/ \E gone \in SUBSET posts : DestroyPosts(w, gone)
       \/ \E k \in Brokers : RemoveBroker(w, k)
       \/ Kill(w)

Spec == Init /\ [][Next]_vars

-----------------------------------------------------------------------------
(***************************************************************************)
(* Properties                                                              *)
(***************************************************************************)

\* While no vote on it is under way, the number a post shows is the number of its votes,
\* whatever pages and members the votes and cancellations came from and whatever else the
\* workers do (FinancialTestimoniesController#update); posts aside with two votes under
\* way at once, with a voter who was removed, or with a vote that a kill cut short.
CounterCountsVotes ==
    \A p \in posts \ (disturbed \union voted_on) :
        counter[p] = Cardinality({v \in votes : v.on = p})

\* A member who waits for his answers has one vote at most on a post, however many
\* workers serve him and however impatient the others (Vote, "You have already voted!").
OneVoteEach ==
    \A v, u \in votes : v.by = u.by /\ v.on = u.on /\ v.by \notin Impatient => v = u

\* The uniqueness is a query before the insert, so that an impatient member may get more
\* than one vote on a post, but never more than there are workers (Vote,
\* validates_uniqueness_of).
VotesPerWorker ==
    \A m \in Members, p \in Posts : Cardinality(votes_of(m, p)) <= Cardinality(Workers)

\* The news page and the notifications find what every activity tells of: its author,
\* its comment and the post (ActivityPresenter#render_activity reads all three); posts
\* aside of which something was removed while a request was writing on them.
FeedRenders ==
    \A a \in activities : a.post \notin overtaken =>
       /\ present(a.by)
       /\ a.post \in posts
       /\ a.comment # 0 => \E c \in comments : c.id = a.comment

\* Only who has voted on the post is told so.  The code does not keep it.
ToldOnlyVoters ==
    \A w \in Workers :
        LET r == job[w]
        IN  (r.step = "validate" /\ \E v \in votes : v.by = r.by /\ v.on \in scope(r.on))
               => votes_of(r.by, r.on) # {}

=============================================================================
