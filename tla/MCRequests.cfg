SPECIFICATION FairSpec
CONSTANTS
    Workers = {w1, w2}
    JobCapacity = 1
    CompletedCapacity = 1
    MaxRequests = 3
    MaxChanges = 1
    MaxInbox = 1
INVARIANTS AnsweredOnce AnswersSeeTheirChanges NoneForgotten
PROPERTIES RequestsAreAnswered ShutdownReturns
CHECK_DEADLOCK FALSE
