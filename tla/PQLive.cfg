SPECIFICATION FairSpec
CONSTANTS
 Workers = {w1}
 Clients = {c1}
 Docs = {d1}
 MaxJobs = 2
 MaxAttempts = 2
 StaleAfter = 1
 RetryDelay <- MCRetryDelay
 PauseInFlush = FALSE
 NoWorker = NoWorker
 NoDoc = NoDoc
PROPERTIES EveryJobEnds  LedgerSpec
