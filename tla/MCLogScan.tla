----------------------------- MODULE MCLogScan -----------------------------
(* Instances of LogScan for TLC. *)
EXTENDS LogScan, FiniteSetsExt

\* Chains with at most two matching logs: a chunk boundary separates two logs
\* or it does not.
UpToTwoLogs == kSubset(0, Blocks \X Queries) \cup kSubset(1, Blocks \X Queries)
                 \cup kSubset(2, Blocks \X Queries)

\* Chains with up to three logs, more than a limit of two.
UpToThreeLogs == UpToTwoLogs \cup kSubset(3, Blocks \X Queries)
=============================================================================
