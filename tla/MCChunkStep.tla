---------------------------- MODULE MCChunkStep ----------------------------
(***************************************************************************)
(* Instances of ChunkStep: fault policies for the classifier.              *)
(***************************************************************************)
EXTENDS ChunkStep

Retry == [retry |-> TRUE, skip |-> "no"]
RetryThenSkip == [retry |-> TRUE, skip |-> "rollback"]
SafeSkip == [retry |-> FALSE, skip |-> "safe"]

\* The reader moves past bad input; everything else is retried, then skipped.
Tolerant == [phase \in Phases |->
    CASE phase = "read" -> SafeSkip
      [] phase = "process" -> RetryThenSkip
      [] phase = "write" -> RetryThenSkip]

\* The reader stays on bad input and is retried.
Patient == [phase \in Phases |->
    CASE phase = "read" -> Retry
      [] phase = "process" -> RetryThenSkip
      [] phase = "write" -> RetryThenSkip]

SecondFiltered == {2}
NoneFiltered == {}
=============================================================================
