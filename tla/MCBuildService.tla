--------------------------- MODULE MCBuildService ---------------------------
(***************************************************************************)
(* BuildService for TLC.                                                    *)
(***************************************************************************)
EXTENDS BuildServiceInv, TLC

\* Ids, users, goroutines and requests are interchangeable.
Symmetry == Permutations(JobIds) \cup Permutations(Users)
            \cup Permutations(Goroutines) \cup Permutations(Handlers)

\* retryCount inputs: the usual 0, and -1, which the handler accepts and which
\* buys a retry although maxRetries is 0.
NoRetry == {0}
OneRetry == {-1}
=============================================================================
