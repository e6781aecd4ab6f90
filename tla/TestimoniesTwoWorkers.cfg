SPECIFICATION Spec
CONSTANTS
    Users = {uma}
    Brokers = {kim}
    Posts = {p1}
    Workers = {w1, w2}
    Impatient = {kim}
    Faults = TRUE
    Nil = Nil
    MaxVotes = 3
    MaxComments = 1
CHECK_DEADLOCK FALSE
SYMMETRY Symmetry
INVARIANTS
    TypeOK
    CounterCountsVotes
    OneVoteEach
    VotesPerWorker
    FeedRenders
