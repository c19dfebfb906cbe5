SPECIFICATION FairSpec
CONSTANTS
    Workers = {w1, w2}
    Requests = {r1, r2}
    MaxDepth = 1
    None = None
    Threads = {s1}
    dump = dump
    poll = poll
    Tasks = {dump, poll}
    Delay <- MCDelay
    NoTask = NoTask
INVARIANTS
    AllAccounted
    NeverEarly
PROPERTIES
    RequestAnswered
    RunsAgain
    ShutdownEnds
\* A stopped node does nothing.
CHECK_DEADLOCK FALSE
