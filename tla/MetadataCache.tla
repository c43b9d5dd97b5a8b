--------------------------- MODULE MetadataCache ---------------------------
(***************************************************************************)
(* The SQLite metadata cache shared by the `dpr` processes: every          *)
(* `sync-metadata` run discovers a protocol's public data on chain and     *)
(* upserts its N namespaces one by one; every `positions` run reads the    *)
(* same namespaces one by one and decides whether they may be used.        *)
(* Nothing spans the N statements: there is no transaction and no lock, so *)
(* runs of the two commands interleave statement by statement.             *)
(*                                                                         *)
(* One module stands for uniswap-v2 (markets, pairs, farming-pools),       *)
(* uniswap-v3 (markets, pools), aave-v3 (markets, lending-reserves,        *)
(* yield-vaults) and compound-v3 (markets, collateral-assets,              *)
(* reward-configs): their Sync and loadMetadata have the same control and  *)
(* differ in N.  Namespace n is the n-th of the order the code uses both   *)
(* for its Sets and for its Gets.                                          *)
(*                                                                         *)
(* A run of a command is an operating-system process and is modelled once. *)
(* A row is named by the run that wrote it: its data is what that run      *)
(* discovered (seen) and its UpdatedAt is the one stamp of that run.       *)
(***************************************************************************)
EXTENDS Integers

CONSTANTS
  Syncers,    \* runs of sync-metadata for one chain and protocol
  Fetchers,   \* runs of positions for the same chain and protocol
  N,          \* number of namespaces of the protocol
  AgeFlags,   \* values of -metadata-max-age a user may give
  DefaultAge, \* defaultMetadataMaxAge (24h)
  Time,       \* bound: the instants of the wall clock
  NoRow,      \* cache.ErrNotFound
  ReadError   \* any other error of Get: SQLITE_BUSY, a cancelled context

Namespaces == 1..N

ASSUME CacheAssumption ==
  /\ N \in Nat \ {0}
  /\ AgeFlags \subseteq Int
  /\ DefaultAge \in Nat \ {0}
  /\ Time \subseteq Nat /\ 0 \in Time
  /\ NoRow \notin Syncers
  /\ ReadError \notin Syncers
  /\ NoRow # ReadError

VARIABLES
  now,      \* time.Now()
  rows,     \* rows[n]: the run whose row namespace n holds, or NoRow
  spc,      \* spc[s]: where the run of sync-metadata is
  seen,     \* seen[s]: when s read the head of the chain it discovers up to
  stamp,    \* stamp[s]: metadata.UpdatedAt of s
  next,     \* next[s]: the namespace s sets next
  fpc,      \* fpc[f]: where the run of positions is, at the end its verdict
  age,      \* age[f]: req.MetadataMaxAge
  got,      \* got[f][n]: what the Get of namespace n returned
  gnext,    \* gnext[f]: the namespace f gets next
  \* History variables: no action of the code reads them.
  overlap,  \* overlap[s]: runs of sync-metadata alive at some time with s
  clash,    \* clash[s]: those that were setting rows while s was
  after,    \* after[f]: runs of sync-metadata that had succeeded before f began
  race      \* race[f]: runs that were setting rows while f was getting them

syncVars  == <<rows, spc, seen, stamp, next, overlap, clash>>
fetchVars == <<fpc, age, got, gnext, after>>
vars == <<now, syncVars, fetchVars, race>>

Verdicts == {"missing", "error", "expired", "accepted"}
Finished == {"done", "failed"}

Alive  == {s \in Syncers : spc[s] \in {"discover", "write"}}
Writing == {s \in Syncers : spc[s] = "write"}
Reading == {f \in Fetchers : fpc[f] = "read"}

TypeOK ==
  /\ now \in Time
  /\ rows \in [Namespaces -> Syncers \cup {NoRow}]
  /\ spc \in [Syncers -> {"idle", "discover", "write"} \cup Finished]
  /\ seen \in [Syncers -> Time]
  /\ stamp \in [Syncers -> Time]
  /\ next \in [Syncers -> 1..(N + 1)]
  /\ fpc \in [Fetchers -> {"idle", "read"} \cup Verdicts]
  /\ age \in [Fetchers -> AgeFlags \cup {0}]
  /\ got \in [Fetchers -> [Namespaces -> Syncers \cup {NoRow, ReadError}]]
  /\ gnext \in [Fetchers -> 1..(N + 1)]
  /\ overlap \in [Syncers -> SUBSET Syncers]
  /\ clash \in [Syncers -> SUBSET Syncers]
  /\ after \in [Fetchers -> SUBSET Syncers]
  /\ race \in [Fetchers -> SUBSET Syncers]

Init ==
  /\ now = 0
  /\ rows = [n \in Namespaces |-> NoRow]
  /\ spc = [s \in Syncers |-> "idle"]
  /\ seen = [s \in Syncers |-> 0]
  /\ stamp = [s \in Syncers |-> 0]
  /\ next = [s \in Syncers |-> 1]
  /\ fpc = [f \in Fetchers |-> "idle"]
  /\ age = [f \in Fetchers |-> 0]
  /\ got = [f \in Fetchers |-> [n \in Namespaces |-> NoRow]]
  /\ gnext = [f \in Fetchers |-> 1]
  /\ overlap = [s \in Syncers |-> {}]
  /\ clash = [s \in Syncers |-> {}]
  /\ after = [f \in Fetchers |-> {}]
  /\ race = [f \in Fetchers |-> {}]

\* Time passes, little or much.
Tick ==
  /\ now' \in {t \in Time : t > now}
  /\ UNCHANGED <<syncVars, fetchVars, race>>

-----------------------------------------------------------------------------
(* sync-metadata *)

\* s gains every one of `others` as a peer, and they gain s.
Meet(peers, s, others) ==
  [t \in Syncers |-> peers[t] \cup (IF t = s THEN others
                                    ELSE IF t \in others THEN {s} ELSE {})]

\* Sync begins: it learns how far the chain goes (allPairsLength or
\* eth_blockNumber) and from there loads everything up to that point.
Discover(s) ==
  /\ spc[s] = "idle"
  /\ spc' = [spc EXCEPT ![s] = "discover"]
  /\ seen' = [seen EXCEPT ![s] = now]
  /\ overlap' = Meet(overlap, s, Alive)
  /\ UNCHANGED <<now, rows, stamp, next, clash, fetchVars, race>>

\* A broken variant of Stamp: UpdatedAt is the time at which discovery began.
StampFromStart(s) ==
  /\ spc[s] = "discover"
  /\ spc' = [spc EXCEPT ![s] = "write"]
  /\ stamp' = [stamp EXCEPT ![s] = seen[s]]
  /\ clash' = Meet(clash, s, Writing)
  /\ race' = [f \in Fetchers |-> IF f \in Reading THEN race[f] \cup {s} ELSE race[f]]
  /\ UNCHANGED <<now, rows, seen, next, overlap, fetchVars>>

\* Discovery and the build of every namespace are complete: the run takes
\* its UpdatedAt and enters the loop of Sets.
Stamp(s) ==
  /\ spc[s] = "discover"
  /\ spc' = [spc EXCEPT ![s] = "write"]
  /\ stamp' = [stamp EXCEPT ![s] = now]
  /\ clash' = Meet(clash, s, Writing)
  /\ race' = [f \in Fetchers |-> IF f \in Reading THEN race[f] \cup {s} ELSE race[f]]
  /\ UNCHANGED <<now, rows, seen, next, overlap, fetchVars>>

\* Broken variants of Set: the loop runs once too often; the namespaces are
\* written last to first; a row that exists is kept.
SetOnceTooOften(s) ==
  /\ spc[s] = "write"
  /\ rows' = [rows EXCEPT ![IF next[s] > N THEN N ELSE next[s]] = s]
  /\ next' = [next EXCEPT ![s] = @ + 1]
  /\ spc' = [spc EXCEPT ![s] = IF next[s] = N + 1 THEN "done" ELSE "write"]
  /\ UNCHANGED <<now, seen, stamp, overlap, clash, fetchVars, race>>

SetLastToFirst(s) ==
  /\ spc[s] = "write"
  /\ rows' = [rows EXCEPT ![N + 1 - next[s]] = s]
  /\ next' = [next EXCEPT ![s] = @ + 1]
  /\ spc' = [spc EXCEPT ![s] = IF next[s] = N THEN "done" ELSE "write"]
  /\ UNCHANGED <<now, seen, stamp, overlap, clash, fetchVars, race>>

SetIfAbsent(s) ==
  /\ spc[s] = "write"
  /\ rows' = [rows EXCEPT ![next[s]] = IF @ = NoRow THEN s ELSE @]
  /\ next' = [next EXCEPT ![s] = @ + 1]
  /\ spc' = [spc EXCEPT ![s] = IF next[s] = N THEN "done" ELSE "write"]
  /\ UNCHANGED <<now, seen, stamp, overlap, clash, fetchVars, race>>

\* One Store.Set: an upsert that replaces the row whatever it holds.  After
\* the last one Sync returns its result.
Set(s) ==
  /\ spc[s] = "write"
  /\ rows' = [rows EXCEPT ![next[s]] = s]
  /\ next' = [next EXCEPT ![s] = @ + 1]
  /\ spc' = [spc EXCEPT ![s] = IF next[s] = N THEN "done" ELSE "write"]
  /\ UNCHANGED <<now, seen, stamp, overlap, clash, fetchVars, race>>

\* A broken variant of SyncFails: the error of a Set is swallowed.
SyncSwallowsError(s) ==
  /\ s \in Alive
  /\ spc' = [spc EXCEPT ![s] = IF spc[s] = "write" THEN "done" ELSE "failed"]
  /\ UNCHANGED <<now, rows, seen, stamp, next, overlap, clash, fetchVars, race>>

\* Sync returns on the first call that fails: an RPC error during discovery,
\* SQLITE_BUSY on a Set.  A killed process leaves the same rows behind.
SyncFails(s) ==
  /\ s \in Alive
  /\ spc' = [spc EXCEPT ![s] = "failed"]
  /\ UNCHANGED <<now, rows, seen, stamp, next, overlap, clash, fetchVars, race>>

-----------------------------------------------------------------------------
(* positions *)

StartFetch(f) ==
  /\ fpc[f] = "idle"
  /\ \E flag \in AgeFlags : age' = [age EXCEPT ![f] = flag]
  /\ fpc' = [fpc EXCEPT ![f] = "read"]
  /\ after' = [after EXCEPT ![f] = {s \in Syncers : spc[s] = "done"}]
  /\ race' = [race EXCEPT ![f] = Writing]
  /\ UNCHANGED <<now, syncVars, got, gnext>>

\* One Store.Get.  Its error is kept and the remaining Gets are made anyway.
Get(f) ==
  /\ fpc[f] = "read"
  /\ gnext[f] <= N
  /\ \E result \in {rows[gnext[f]], ReadError} :
       got' = [got EXCEPT ![f][gnext[f]] = result]
  /\ gnext' = [gnext EXCEPT ![f] = @ + 1]
  /\ UNCHANGED <<now, syncVars, fpc, age, after, race>>

\* -metadata-max-age: 0 means the default and a negative value no limit.
EffectiveAge(flag) == IF flag = 0 THEN DefaultAge ELSE flag

\* A broken variant of Expired: a row of exactly maxAge is refused.
ExpiredAtMaxAge(row, maxAge) == now - stamp[row] >= maxAge

\* metadataExpired: strictly older than maxAge at the instant of the check.
Expired(row, maxAge) == now - stamp[row] > maxAge

\* loadMetadata's checks, in the code's order: a namespace that is missing
\* wins over a read error, a read error over an expired row.
Decide(f) ==
  LET maxAge == EffectiveAge(age[f])
      missing == \E n \in Namespaces : got[f][n] = NoRow
      broken  == \E n \in Namespaces : got[f][n] = ReadError
      expired == maxAge > 0 /\ \E n \in Namespaces : Expired(got[f][n], maxAge)
  IN /\ fpc[f] = "read"
     /\ gnext[f] = N + 1
     /\ fpc' = [fpc EXCEPT ![f] = IF missing THEN "missing"
                                  ELSE IF broken THEN "error"
                                  ELSE IF expired THEN "expired"
                                  ELSE "accepted"]
     /\ UNCHANGED <<now, syncVars, age, got, gnext, after, race>>

-----------------------------------------------------------------------------
Next ==
  \/ Tick
  \/ \E s \in Syncers : Discover(s) \/ Stamp(s) \/ Set(s) \/ SyncFails(s)
  \/ \E f \in Fetchers : StartFetch(f) \/ Get(f) \/ Decide(f)

Spec == Init /\ [][Next]_vars

-----------------------------------------------------------------------------
(* The state of the cache as the CLI reports it. *)

\* inspectMetadata: a row is called stale only when it is given an age.
InspectStatus(n, maxAge) ==
  IF rows[n] = NoRow THEN "missing"
  ELSE IF maxAge > 0 /\ Expired(rows[n], maxAge) THEN "stale"
  ELSE "hit"

\* `dpr explain` inspects with maxAge 0.
ExplainStatus(n) == InspectStatus(n, 0)

-----------------------------------------------------------------------------
(* Properties *)

\* What f got for two namespaces comes from two different runs only if the
\* reader raced with one of them, or they raced with each other, or one of
\* them died between two Sets.  In particular a `positions` run that follows
\* finished, undisturbed syncs works on one discovery.  (The N Sets of
\* Syncer.Sync against the N Gets of loadMetadata.)
MixedOnlyIfRaced ==
  \A f \in Fetchers : fpc[f] = "accepted" =>
    \A i, j \in Namespaces :
      LET a == got[f][i]
          b == got[f][j]
      IN \/ a = b
         \/ {a, b} \cap race[f] # {}
         \/ b \in clash[a] \/ a \in clash[b]
         \/ "failed" \in {spc[a], spc[b]}

\* Parents are never staler than what refers to them: the row of an earlier
\* namespace (markets) is at least as recent as the row of a later one (pairs,
\* reserves, reward configs) unless two runs set rows at the same time.  A run
\* that dies half way cannot break it: it has refreshed a prefix.
ParentsNotOlder ==
  \A i, j \in Namespaces : (i < j /\ rows[j] # NoRow) =>
    /\ rows[i] # NoRow
    /\ \/ stamp[rows[i]] >= stamp[rows[j]]
       \/ rows[i] \in clash[rows[j]]

\* Once a sync has succeeded the cache never shows an older UpdatedAt, unless
\* the row comes from a run whose Sets interleaved with it: Set overwrites
\* unconditionally, it does not keep the newest.
NoStampRegression ==
  \A s \in Syncers : spc[s] = "done" =>
    \A n \in Namespaces :
      /\ rows[n] # NoRow
      /\ stamp[rows[n]] >= stamp[s] \/ rows[n] \in clash[s]

\* The same for the data itself, which is as old as the discovery and not as
\* the stamp taken after it: older data can come back only from a run that was
\* alive together with s.
NoContentRegression ==
  \A s \in Syncers : spc[s] = "done" =>
    \A n \in Namespaces :
      /\ rows[n] # NoRow
      /\ seen[rows[n]] >= seen[s] \/ rows[n] \in overlap[s]

\* What "run sync-metadata first" promises: a `positions` run that begins after
\* a sync succeeded is never told that metadata is missing, and is told that it
\* is expired only if that sync is itself too old, or if a run that raced with
\* it put an older row back.
SyncThenPositions ==
  [][\A f \in Fetchers : fpc[f] = "read" =>
       /\ fpc'[f] = "missing" => after[f] = {}
       /\ fpc'[f] = "expired" =>
            \A s \in after[f] :
              \/ now - stamp[s] > EffectiveAge(age[f])
              \/ \E n \in Namespaces : got[f][n] \in clash[s]]_vars

\* `explain` is the command to run when `positions` reports missing or stale
\* metadata: whenever the cache as it stands would make a default `positions`
\* run refuse, `explain` shows a namespace that is missing or stale.
ExplainShowsWhy ==
  (\E n \in Namespaces : rows[n] = NoRow \/ Expired(rows[n], DefaultAge)) =>
    \E n \in Namespaces : ExplainStatus(n) \in {"missing", "stale"}

=============================================================================
