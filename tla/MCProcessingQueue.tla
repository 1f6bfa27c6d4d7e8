------------------------- MODULE MCProcessingQueue -------------------------
(* Small instances of ProcessingQueue for TLC. *)
EXTENDS ProcessingQueue, TLC

\* _retry_delay_seconds: 15 * 2^(n-1) capped at 300, one tick for 15 s and
\* the cap scaled down to two ticks.
MCRetryDelay == [n \in 1..MaxAttempts |-> IF 2^(n - 1) > 2 THEN 2 ELSE 2^(n - 1)]

\* One worker process is kept running.
FairSpec == Spec /\ Fairness({CHOOSE w \in Workers : TRUE})

\* Worker processes are interchangeable.
MCSymmetry == Permutations(Workers)

=============================================================================
