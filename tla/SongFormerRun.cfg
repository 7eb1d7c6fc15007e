CONSTANTS
    t1 = t1  t2 = t2  t3 = t3  w1 = w1  w2 = w2
    Tracks <- MCTracks
    Unusable <- MCUnusable
    Workers <- MCWorkers
    QueueSize = 2
    Prefetch = 1
    MaxFaults = 1
    MaxReroutes = 2
SPECIFICATION FairSongFormerSpec
INVARIANTS AnsweredOnce OutputIsTrue
PROPERTIES EveryRunReturns
