SPECIFICATION Spec
CONSTANTS
 Workers = {w1, w2}
 Clients = {c1}
 Docs = {d1}
 MaxJobs = 2
 MaxAttempts = 2
 StaleAfter = 0
 RetryDelay <- MCRetryDelay
 PauseInFlush = FALSE
 NoWorker = NoWorker
 NoDoc = NoDoc
SYMMETRY MCSymmetry
INVARIANTS QueueInv SuccessorAuthoritative
