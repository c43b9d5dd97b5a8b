------------------------------ MODULE LogScan ------------------------------
(***************************************************************************)
(* Discovery from event logs: uniswap-v3 reads the factory's PoolCreated   *)
(* logs (one query per chunk of blocks), uniswap-v2 a wallet's Transfer    *)
(* logs (one query as sender and one as receiver).  The scan asks for the  *)
(* head of the chain once and then for the logs chunk by chunk.  Every     *)
(* call goes through evm.Client, which tries the configured RPC providers  *)
(* in order, anew for each call, and takes the first answer.               *)
(*                                                                         *)
(* Block numbers are unsigned integers that wrap at MaxUint (2^64 - 1 in   *)
(* the code).  The providers are external: each follows the chain at its   *)
(* own pace, answers eth_blockNumber with its own head and eth_getLogs     *)
(* with the logs of the range it knows, or with null, which decodes as an  *)
(* empty list, or fails.                                                   *)
(***************************************************************************)
EXTENDS Integers, FiniteSets

CONSTANTS
  MaxUint,      \* the largest unsigned integer
  NumProviders, \* configured RPC URLs, tried in order
  NumQueries,   \* queries per chunk: 1 for uniswap-v3, 2 for uniswap-v2
  Limits,       \* numbers of items a user may limit the scan to; 0 for no limit
  NullAnswers,  \* whether a provider may answer eth_getLogs with null
  LogSets       \* the chains considered: sets of logs

Blocks == 0..MaxUint
Providers == 1..NumProviders
Queries == 1..NumQueries

ASSUME ScanAssumption ==
  /\ MaxUint \in Nat \ {0}
  /\ NumProviders \in Nat \ {0}
  /\ NumQueries \in Nat \ {0}
  /\ Limits \subseteq Nat
  /\ NumQueries > 1 => Limits = {0}   \* only uniswap-v3 limits a scan
  /\ NullAnswers \in BOOLEAN
  /\ LogSets \subseteq SUBSET (Blocks \X Queries)

VARIABLES
  logs,     \* the matching logs of the chain: pairs <<block, query>>
  head,     \* head[p]: the last block provider p knows
  start,    \* market.StartBlock or its override
  chunk,    \* the chunk size or its override
  maxItems, \* limited mode: stop after so many logs; 0 for no limit
  pc,       \* "head", "scan", "done" or "error"
  provider, \* the provider the current call is at
  latest,   \* the head the scan was given
  from,     \* fromBlock
  query,    \* the query of the chunk it is at
  out,      \* the logs collected
  lost      \* history: logs in a range that was answered without them

inputs == <<logs, start, chunk, maxItems>>
client == <<pc, provider, latest, from, query, out, lost>>
vars == <<inputs, head, client>>

TypeOK ==
  /\ logs \in SUBSET (Blocks \X Queries)
  /\ head \in [Providers -> Blocks]
  /\ start \in Blocks
  /\ chunk \in Blocks \ {0}
  /\ maxItems \in Limits
  /\ pc \in {"head", "scan", "done", "error"}
  /\ provider \in Providers
  /\ latest \in Blocks
  /\ from \in Blocks
  /\ query \in Queries
  /\ out \in SUBSET logs
  /\ lost \in SUBSET logs

Init ==
  /\ logs \in LogSets
  /\ head \in [Providers -> Blocks]
  /\ start \in Blocks
  /\ chunk \in Blocks \ {0}
  /\ maxItems \in Limits
  /\ pc = "head"
  /\ provider = 1
  /\ latest = 0
  /\ from = 0
  /\ query = 1
  /\ out = {}
  /\ lost = {}

\* A provider learns of a block.
Advance(p) ==
  /\ head[p] < MaxUint
  /\ head' = [head EXCEPT ![p] = @ + 1]
  /\ UNCHANGED <<inputs, client>>

-----------------------------------------------------------------------------
(* evm.Client: one call over all the providers. *)

\* A broken variant of ProviderFails: one provider too many is tried.
TryBeyondLast ==
  /\ pc \in {"head", "scan"}
  /\ IF provider <= NumProviders
       THEN provider' = provider + 1 /\ pc' = pc
       ELSE provider' = provider /\ pc' = "error"
  /\ UNCHANGED <<inputs, head, latest, from, query, out, lost>>

\* The provider returns an error or times out: the next one is asked, and
\* after the last one the call, and the scan with it, fails.
ProviderFails ==
  /\ pc \in {"head", "scan"}
  /\ IF provider < NumProviders
       THEN provider' = provider + 1 /\ pc' = pc
       ELSE provider' = provider /\ pc' = "error"
  /\ UNCHANGED <<inputs, head, latest, from, query, out, lost>>

-----------------------------------------------------------------------------
(* The scan. *)

\* A broken variant of HeadAnswered: the scan begins after the start block.
HeadAnsweredSkipsStart ==
  /\ pc = "head"
  /\ latest' = head[provider]
  /\ provider' = 1
  /\ from' = start + 1
  /\ pc' = IF start > latest' THEN "done" ELSE "scan"
  /\ UNCHANGED <<inputs, head, query, out, lost>>

HeadAnswered ==
  /\ pc = "head"
  /\ latest' = head[provider]
  /\ provider' = 1
  /\ from' = start
  /\ pc' = IF start > latest' THEN "done" ELSE "scan"
  /\ UNCHANGED <<inputs, head, query, out, lost>>

\* The sum of two unsigned integers.
Wrap(x) == IF x > MaxUint THEN x - (MaxUint + 1) ELSE x

\* A broken variant of To: a chunk end that wraps is not clamped.
ToWithoutWrapCheck ==
  LET end == Wrap(from + chunk - 1)
  IN IF end > latest THEN latest ELSE end

\* toBlock: the end of the chunk, clamped to latest also when it wraps.
To == LET end == Wrap(from + chunk - 1)
      IN IF end > latest \/ end < from THEN latest ELSE end

\* The logs of the current query, those of them that the provider knows, and
\* the lists it may answer with.
Wanted == {l \in logs : l[1] \in from..To /\ l[2] = query}
Known == {l \in Wanted : l[1] <= head[provider]}
Answers == {Known} \cup (IF NullAnswers THEN {{}} ELSE {})

\* A broken variant of FirstOf: one log too many is kept.
FirstOfAndOneMore(ls, n) ==
  {l \in ls : Cardinality({m \in ls : m[1] < l[1]}) <= n}

\* The first n logs of an answer, in the order of the chain.
FirstOf(ls, n) == {l \in ls : Cardinality({m \in ls : m[1] <= l[1]}) <= n}

Limited == maxItems > 0
Full(answer) == Limited /\ Cardinality(out) + Cardinality(answer) >= maxItems

\* A broken variant of LogsAnswered: the next chunk begins with the last block
\* of this one.
LogsAnsweredOverlap(answer) ==
  /\ pc = "scan"
  /\ out' = IF Full(answer) THEN out \cup FirstOf(answer, maxItems - Cardinality(out))
            ELSE out \cup answer
  /\ lost' = lost \cup (Wanted \ answer)
  /\ provider' = 1
  /\ IF Full(answer) \/ (query = NumQueries /\ To = latest)
       THEN pc' = "done" /\ UNCHANGED <<from, query>>
       ELSE /\ pc' = pc
            /\ IF query < NumQueries
                 THEN query' = query + 1 /\ from' = from
                 ELSE query' = 1 /\ from' = To
  /\ UNCHANGED <<inputs, head, latest>>

LogsAnswered(answer) ==
  /\ pc = "scan"
  /\ out' = IF Full(answer) THEN out \cup FirstOf(answer, maxItems - Cardinality(out))
            ELSE out \cup answer
  /\ lost' = lost \cup (Wanted \ answer)
  /\ provider' = 1
  /\ IF Full(answer) \/ (query = NumQueries /\ To = latest)
       THEN pc' = "done" /\ UNCHANGED <<from, query>>
       ELSE /\ pc' = pc
            /\ IF query < NumQueries
                 THEN query' = query + 1 /\ from' = from
                 ELSE query' = 1 /\ from' = To + 1
  /\ UNCHANGED <<inputs, head, latest>>

Step ==
  \/ HeadAnswered
  \/ \E answer \in Answers : LogsAnswered(answer)
  \/ ProviderFails

Next == Step \/ \E p \in Providers : Advance(p)

Spec == Init /\ [][Next]_vars

\* Every RPC call ends within the HTTP client's 20s timeout, so the scan
\* always takes its next step; nothing is assumed of the providers.
FairSpec == Spec /\ WF_vars(Step)

-----------------------------------------------------------------------------
(* Properties *)

InRange == {l \in logs : l[1] \in start..latest}

\* A scan without a limit that succeeds has put every log from the start block
\* to the head it was given before a provider, whatever the chunk size and
\* even when fromBlock + chunkSize wraps: what it does not return was withheld
\* by a provider that answered for blocks it did not have, or with null.
Accounted == (pc = "done" /\ ~Limited) => out \cup lost = InRange

\* A limited scan returns a prefix of the chain: it never skips a log it was
\* shown in favour of a later one, and it never returns more than its limit.
LimitedIsPrefix ==
  (pc = "done" /\ Limited) =>
    /\ Cardinality(out) <= maxItems
    /\ \A l \in out, m \in InRange : m[1] < l[1] => m \in out \cup lost
    /\ Cardinality(out) < maxItems => out \cup lost = InRange

\* The scan ends: no chunk size makes it ask for the same blocks for ever.
Ends == <>(pc \in {"done", "error"})

\* With one provider that never answers null the chunked scan is one atomic read
\* of the chain.
Atomic == INSTANCE AtomicDiscovery WITH
  status <- IF pc \in {"done", "error"} THEN pc ELSE "running",
  found  <- IF pc = "done" THEN out ELSE {}
AtomicSpec == Atomic!ASpec
=============================================================================
