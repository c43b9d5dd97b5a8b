------------------------------ MODULE Commands ------------------------------
(***************************************************************************)
(* The commands of `dpr`: what `sync-metadata` and `positions` do from the *)
(* command line to the output, over every protocol the user selected and   *)
(* over the one cache that all processes share.                            *)
(*                                                                         *)
(* sync-metadata resolves the protocols, syncs them one after the other,   *)
(* stops at the first that fails, and prints its results with a snapshot   *)
(* of the cache taken afterwards.  positions takes the snapshot first, and *)
(* then fetches the protocols one after the other, with Gets of its own;   *)
(* the output shows both.  MetadataCache models the cache of one protocol; *)
(* here it is a refinement of which every protocol is an instance.         *)
(*                                                                         *)
(* Protocols are numbered in the alphabetical order of their ids, which is *)
(* the order sortAdapters puts them in.  A request is the set of the ids   *)
(* given with -protocol: blanks and duplicates are dropped, and nothing or *)
(* `all` is the empty set.  Every registered protocol supports every       *)
(* chain.  What a fetch reads on chain is the subject of other modules:    *)
(* here it succeeds or fails.                                              *)
(***************************************************************************)
EXTENDS Integers, Sequences, FiniteSets

CONSTANTS
  Syncs,      \* processes that run sync-metadata
  Fetches,    \* processes that run positions
  Protocols,  \* registered protocols, numbers in registry order
  Unchecked,  \* those that use what they are given: demo
  NS,         \* NS[p]: the number of namespaces of p
  Requests,   \* Requests[c]: values of -protocol, sets of ids
  AgeFlags,   \* values of -metadata-max-age
  Owners,     \* values of -address: "empty", "bad" or "good"
  DefaultAge, \* defaultMetadataMaxAge (24h)
  Time,       \* bound: the instants of the wall clock
  MaxFaults,  \* bound: how many calls fail
  MaxActive,  \* bound: how many commands run at a time
  NoRow,      \* cache.ErrNotFound
  ReadError   \* any other error of Get

Runs == Syncs \cup Fetches
Checked == Protocols \ Unchecked

ASSUME CommandsAssumption ==
  /\ Syncs \cap Fetches = {}
  /\ Protocols \subseteq Nat /\ Protocols # {}
  /\ Unchecked \subseteq Protocols
  /\ NS \in [Protocols -> Nat \ {0}]
  /\ AgeFlags \subseteq Int
  /\ Owners \subseteq {"empty", "bad", "good"}
  /\ DefaultAge \in Nat \ {0}
  /\ Time \subseteq Nat /\ 0 \in Time
  /\ MaxFaults \in Nat
  /\ MaxActive \in Nat
  /\ NoRow \notin Syncs
  /\ ReadError \notin Syncs
  /\ NoRow # ReadError

VARIABLES
  now,      \* time.Now()
  faults,   \* how many calls have failed
  rows,     \* rows[p][n]: the run whose row namespace n of p holds, or NoRow
  pc,       \* pc[c]: the stage of the command
  want,     \* want[c]: the protocols resolved
  age,      \* age[f]: -metadata-max-age
  owner,    \* owner[f]: -address
  began,    \* began[f]: when the command started
  shown,    \* shown[c][p]: the snapshots of p so far, in namespace order
  spc,      \* spc[s][p], seen, stamp, next: as in MetadataCache
  seen,
  stamp,
  next,
  fpc,      \* fpc[f][p], got, gnext: as in MetadataCache
  got,
  gnext,
  report,   \* report[f]: the protocols whose positions have been appended
  \* History variables: no action of the code reads them.
  overlap,  \* overlap[s][p], clash, after, race: as in MetadataCache
  clash,
  after,
  race,
  during    \* during[c][p]: other runs that set a row of p since c started

requestVars == <<want, age, owner, began>>
syncVars  == <<rows, spc, seen, stamp, next, overlap, clash>>
fetchVars == <<fpc, got, gnext, after>>
vars == <<now, faults, pc, requestVars, shown, syncVars, fetchVars, report, race, during>>

Ended == {"done", "failed"}
Active == {c \in Runs : pc[c] \notin {"idle"} \cup Ended}

Verdicts == {"missing", "error", "expired", "accepted"}
Alive(p)   == {s \in Syncs : spc[s][p] \in {"discover", "write"}}
Writing(p) == {s \in Syncs : spc[s][p] = "write"}
Reading(p) == {f \in Fetches : fpc[f][p] = "read"}

Results(p) == [1..NS[p] -> Syncs \cup {NoRow, ReadError}]
Snapshots == [row : Syncs \cup {NoRow, ReadError}, stale : BOOLEAN]

TypeOK ==
  /\ now \in Time
  /\ faults \in 0..MaxFaults
  /\ pc \in [Runs -> {"idle", "sync", "inspect", "fetch"} \cup Ended]
  /\ \A s \in Syncs : pc[s] # "fetch"
  /\ \A f \in Fetches : pc[f] # "sync"
  /\ want \in [Runs -> SUBSET Protocols]
  /\ age \in [Fetches -> AgeFlags \cup {0}]
  /\ owner \in [Fetches -> Owners \cup {"empty"}]
  /\ began \in [Fetches -> Time]
  /\ report \in [Fetches -> SUBSET Protocols]
  /\ spc \in [Syncs -> [Protocols -> {"idle", "discover", "write"} \cup Ended]]
  /\ fpc \in [Fetches -> [Protocols -> {"idle", "read"} \cup Verdicts]]
  /\ {seen, stamp} \subseteq [Syncs -> [Protocols -> Time]]
  /\ overlap \in [Syncs -> [Protocols -> SUBSET Syncs]]
  /\ clash \in [Syncs -> [Protocols -> SUBSET Syncs]]
  /\ {after, race} \subseteq [Fetches -> [Protocols -> SUBSET Syncs]]
  /\ during \in [Runs -> [Protocols -> SUBSET Syncs]]
  /\ \A p \in Protocols :
       /\ rows[p] \in [1..NS[p] -> Syncs \cup {NoRow}]
       /\ \A s \in Syncs : next[s][p] \in 1..(NS[p] + 1)
       /\ \A f \in Fetches : gnext[f][p] \in 1..(NS[p] + 1) /\ got[f][p] \in Results(p)
       /\ \A c \in Runs : shown[c][p] \in Seq(Snapshots) /\ Len(shown[c][p]) <= NS[p]

\* x for every process of a set and every protocol.
Each(S, x) == [c \in S |-> [p \in Protocols |-> x]]

Init ==
  /\ now = 0
  /\ faults = 0
  /\ rows = [p \in Protocols |-> [n \in 1..NS[p] |-> NoRow]]
  /\ pc = [c \in Runs |-> "idle"]
  /\ want = [c \in Runs |-> {}]
  /\ age = [f \in Fetches |-> 0]
  /\ owner = [f \in Fetches |-> "empty"]
  /\ began = [f \in Fetches |-> 0]
  /\ shown = Each(Runs, <<>>)
  /\ spc = Each(Syncs, "idle")
  /\ seen = Each(Syncs, 0)
  /\ stamp = Each(Syncs, 0)
  /\ next = Each(Syncs, 1)
  /\ fpc = Each(Fetches, "idle")
  /\ got = [f \in Fetches |-> [p \in Protocols |-> [n \in 1..NS[p] |-> NoRow]]]
  /\ gnext = Each(Fetches, 1)
  /\ report = [f \in Fetches |-> {}]
  /\ overlap = Each(Syncs, {})
  /\ clash = Each(Syncs, {})
  /\ after = Each(Fetches, {})
  /\ race = Each(Fetches, {})
  /\ during = Each(Runs, {})

\* Time passes, little or much.
Tick ==
  /\ now' \in {t \in Time : t > now}
  /\ UNCHANGED <<faults, pc, requestVars, shown, syncVars, fetchVars, report, race, during>>

\* A call fails: the RPC providers all answer with an error, SQLite is busy.
Fault ==
  /\ faults < MaxFaults
  /\ faults' = faults + 1

\* An error is all that a command prints: it drops what it has gathered.
Fail(c) ==
  /\ pc' = [pc EXCEPT ![c] = "failed"]
  /\ shown' = [shown EXCEPT ![c] = [p \in Protocols |-> <<>>]]

\* The first of a set of protocols in registry order.
First(S) == CHOOSE p \in S : \A q \in S : p <= q

-----------------------------------------------------------------------------
(* The command line. *)

\* Registry.Resolve: no id selects every protocol, an unknown one is an error.
Known(request) == request \subseteq Protocols
Resolve(request) == IF request = {} THEN Protocols ELSE request

\* The command reads its flags, resolves the protocols and opens the cache.
\* MaxActive bounds the model.
Begin(c, request) ==
  /\ pc[c] = "idle"
  /\ Cardinality(Active) < MaxActive
  /\ IF Known(request)
       THEN /\ want' = [want EXCEPT ![c] = Resolve(request)]
            /\ pc' = [pc EXCEPT ![c] = IF c \in Syncs THEN "sync" ELSE "inspect"]
            /\ UNCHANGED shown
       ELSE Fail(c) /\ UNCHANGED want

BeginSync(s) ==
  /\ \E request \in Requests[s] : Begin(s, request)
  /\ UNCHANGED <<now, faults, age, owner, began, syncVars, fetchVars, report, race, during>>

BeginPositions(f) ==
  /\ \E request \in Requests[f] : Begin(f, request)
  /\ \E flag \in AgeFlags, address \in Owners :
       /\ age' = [age EXCEPT ![f] = flag]
       /\ owner' = [owner EXCEPT ![f] = address]
  /\ began' = [began EXCEPT ![f] = now]
  /\ UNCHANGED <<now, faults, syncVars, fetchVars, report, race, during>>

\* metadataIsStale and metadataExpired: strictly older than maxAge.
Older(row, p, maxAge) == now - stamp[row][p] > maxAge

\* A snapshot is called stale only if an age was given.
StaleIn(row, p, flag) == row \in Syncs /\ flag > 0 /\ Older(row, p, flag)

\* inspectMetadata: one Get per namespace of the protocols resolved; its error
\* becomes part of the snapshot.  sync-metadata gives it no age.  Afterwards
\* sync-metadata prints and positions calls FetchPositions.
Inspect(c) ==
  LET p == First({q \in want[c] : Len(shown[c][q]) < NS[q]})
      n == Len(shown[c][p]) + 1
      last == n = NS[p] /\ \A q \in want[c] : q <= p
      flag == IF c \in Syncs THEN 0 ELSE age[c]
      Show(row) == shown' = [shown EXCEPT ![c][p] =
                     Append(@, [row |-> row, stale |-> StaleIn(row, p, flag)])]
  IN /\ pc[c] = "inspect"
     /\ \/ Show(rows[p][n]) /\ UNCHANGED faults
        \/ Show(ReadError) /\ Fault
     /\ pc' = [pc EXCEPT ![c] =
          IF ~last THEN "inspect"
          ELSE IF c \in Syncs THEN "done" ELSE "fetch"]
     /\ UNCHANGED <<now, requestVars, syncVars, fetchVars, report, race, during>>

-----------------------------------------------------------------------------
(* PositionService.SyncMetadata *)

\* The protocol s is syncing: the first it has not synced.
Syncing(s) == First({p \in want[s] : spc[s][p] # "done"})

\* s gains every one of `others` as a peer for p, and they gain s.
Meet(peers, s, p, others) ==
  [t \in Syncs |-> [peers[t] EXCEPT ![p] =
     @ \cup (IF t = s THEN others ELSE IF t \in others THEN {s} ELSE {})]]

\* Sync of the next protocol begins and learns how far the chain goes.
Discover(s) ==
  LET p == Syncing(s)
  IN /\ pc[s] = "sync"
     /\ spc[s][p] = "idle"
     /\ spc' = [spc EXCEPT ![s][p] = "discover"]
     /\ seen' = [seen EXCEPT ![s][p] = now]
     /\ overlap' = Meet(overlap, s, p, Alive(p))
     /\ UNCHANGED <<now, faults, pc, requestVars, shown, rows, stamp, next, clash,
                    fetchVars, report, race, during>>

\* Its discovery is complete: it takes its UpdatedAt.
Stamp(s) ==
  LET p == Syncing(s)
  IN /\ pc[s] = "sync"
     /\ spc[s][p] = "discover"
     /\ spc' = [spc EXCEPT ![s][p] = "write"]
     /\ stamp' = [stamp EXCEPT ![s][p] = now]
     /\ clash' = Meet(clash, s, p, Writing(p))
     /\ race' = [f \in Fetches |->
                   IF f \in Reading(p) THEN [race[f] EXCEPT ![p] = @ \cup {s}] ELSE race[f]]
     /\ UNCHANGED <<now, faults, pc, requestVars, shown, rows, seen, next, overlap,
                    fetchVars, report, during>>

\* A broken variant of Set: the loop runs once too often.
SetOnceTooOften(s) ==
  LET p == Syncing(s)
      synced == next[s][p] > NS[p]
  IN /\ pc[s] = "sync"
     /\ spc[s][p] = "write"
     /\ rows' = [rows EXCEPT ![p][IF synced THEN NS[p] ELSE next[s][p]] = s]
     /\ next' = [next EXCEPT ![s][p] = @ + 1]
     /\ spc' = [spc EXCEPT ![s][p] = IF synced THEN "done" ELSE @]
     /\ pc' = [pc EXCEPT ![s] =
                 IF synced /\ \A q \in want[s] : q <= p THEN "inspect" ELSE @]
     /\ during' = [c \in Runs |->
                     IF c \in Active \ {s} THEN [during[c] EXCEPT ![p] = @ \cup {s}] ELSE during[c]]
     /\ UNCHANGED <<now, faults, requestVars, shown, seen, stamp, overlap, clash,
                    fetchVars, report, race>>

\* One Set of its loop.  After the last one the next protocol begins, or the
\* results go back to the command.
Set(s) ==
  LET p == Syncing(s)
      synced == next[s][p] = NS[p]
  IN /\ pc[s] = "sync"
     /\ spc[s][p] = "write"
     /\ rows' = [rows EXCEPT ![p][next[s][p]] = s]
     /\ next' = [next EXCEPT ![s][p] = @ + 1]
     /\ spc' = [spc EXCEPT ![s][p] = IF synced THEN "done" ELSE @]
     /\ pc' = [pc EXCEPT ![s] =
                 IF synced /\ \A q \in want[s] : q <= p THEN "inspect" ELSE @]
     /\ during' = [c \in Runs |->
                     IF c \in Active \ {s} THEN [during[c] EXCEPT ![p] = @ \cup {s}] ELSE during[c]]
     /\ UNCHANGED <<now, faults, requestVars, shown, seen, stamp, overlap, clash,
                    fetchVars, report, race>>

\* A broken variant of SyncFails: the error is swallowed and the sync goes on
\* with the next protocol.
SyncFailsAndGoesOn(s) ==
  LET p == Syncing(s)
  IN /\ pc[s] = "sync"
     /\ spc[s][p] \in {"discover", "write"}
     /\ Fault
     /\ spc' = [spc EXCEPT ![s][p] = "done"]
     /\ pc' = [pc EXCEPT ![s] = IF \A q \in want[s] : q <= p THEN "inspect" ELSE @]
     /\ UNCHANGED <<now, requestVars, shown, rows, seen, stamp, next, overlap, clash,
                    fetchVars, report, race, during>>

\* A call of the sync fails: the command ends there with the error only; the
\* results of the protocols before it are not printed.  A process that is
\* killed leaves the same cache behind.
SyncFails(s) ==
  LET p == Syncing(s)
  IN /\ pc[s] = "sync"
     /\ spc[s][p] \in {"discover", "write"}
     /\ Fault
     /\ spc' = [spc EXCEPT ![s][p] = "failed"]
     /\ Fail(s)
     /\ UNCHANGED <<now, requestVars, rows, seen, stamp, next, overlap, clash,
                    fetchVars, report, race, during>>

-----------------------------------------------------------------------------
(* PositionService.FetchPositions *)

\* The protocol f is fetching: the first whose positions it does not have.
Fetching(f) == First(want[f] \ report[f])

\* Fetch of the next protocol begins.  FetchPositions wants an owner, and all
\* protocols but demo a real address.
StartFetch(f) ==
  LET p == Fetching(f)
  IN /\ pc[f] = "fetch"
     /\ fpc[f][p] = "idle"
     /\ IF owner[f] = "empty" \/ (owner[f] = "bad" /\ p \in Checked)
          THEN Fail(f) /\ UNCHANGED <<fpc, after, race>>
          ELSE /\ fpc' = [fpc EXCEPT ![f][p] = "read"]
               /\ after' = [after EXCEPT ![f][p] = {s \in Syncs : spc[s][p] = "done"}]
               /\ race' = [race EXCEPT ![f][p] = Writing(p)]
               /\ UNCHANGED <<pc, shown>>
     /\ UNCHANGED <<now, faults, requestVars, syncVars, got, gnext, report, during>>

\* Broken variants of Get: any error is taken for ErrNotFound; a row that is
\* missing is waited for.
GetTakesErrorForMissing(f) ==
  LET p == Fetching(f)
      n == gnext[f][p]
      Keep(result) == got' = [got EXCEPT ![f][p][n] = result]
  IN /\ pc[f] = "fetch"
     /\ fpc[f][p] = "read"
     /\ n <= NS[p]
     /\ \/ Keep(rows[p][n]) /\ UNCHANGED faults
        \/ Keep(NoRow) /\ Fault
     /\ gnext' = [gnext EXCEPT ![f][p] = n + 1]
     /\ UNCHANGED <<now, pc, requestVars, shown, syncVars, fpc, after, report, race, during>>

GetWaits(f) ==
  LET p == Fetching(f)
      n == gnext[f][p]
      Keep(result) == got' = [got EXCEPT ![f][p][n] = result]
  IN /\ pc[f] = "fetch"
     /\ fpc[f][p] = "read"
     /\ n <= NS[p]
     /\ \/ rows[p][n] # NoRow /\ Keep(rows[p][n]) /\ UNCHANGED faults
        \/ Keep(ReadError) /\ Fault
     /\ gnext' = [gnext EXCEPT ![f][p] = n + 1]
     /\ UNCHANGED <<now, pc, requestVars, shown, syncVars, fpc, after, report, race, during>>

\* One Get of loadMetadata.
Get(f) ==
  LET p == Fetching(f)
      n == gnext[f][p]
      Keep(result) == got' = [got EXCEPT ![f][p][n] = result]
  IN /\ pc[f] = "fetch"
     /\ fpc[f][p] = "read"
     /\ n <= NS[p]
     /\ \/ Keep(rows[p][n]) /\ UNCHANGED faults
        \/ Keep(ReadError) /\ Fault
     /\ gnext' = [gnext EXCEPT ![f][p] = n + 1]
     /\ UNCHANGED <<now, pc, requestVars, shown, syncVars, fpc, after, report, race, during>>

\* A broken variant of EffectiveAge: the request does not carry the flag.
EffectiveAgeWithoutFlag(flag) == DefaultAge

\* 0 means the default and a negative value no limit.
EffectiveAge(flag) == IF flag = 0 THEN DefaultAge ELSE flag

\* loadMetadata's verdict.  demo replaces what is missing by its fixture and
\* asks no age.
Verdict(f, p) ==
  LET rowsGot == {got[f][p][n] : n \in 1..NS[p]}
      maxAge == EffectiveAge(age[f])
  IN IF p \in Checked /\ NoRow \in rowsGot THEN "missing"
     ELSE IF ReadError \in rowsGot THEN "error"
     ELSE IF p \in Checked /\ maxAge > 0 /\ \E row \in rowsGot : Older(row, p, maxAge)
       THEN "expired"
     ELSE "accepted"

\* A broken variant of Decide: a protocol that is refused is left out.
DecideAndGoOn(f) ==
  LET p == Fetching(f)
      refused == Verdict(f, p) # "accepted"
  IN /\ pc[f] = "fetch"
     /\ fpc[f][p] = "read"
     /\ gnext[f][p] = NS[p] + 1
     /\ fpc' = [fpc EXCEPT ![f][p] = Verdict(f, p)]
     /\ report' = [report EXCEPT ![f] = IF refused THEN @ \cup {p} ELSE @]
     /\ pc' = [pc EXCEPT ![f] = IF refused /\ report'[f] = want[f] THEN "done" ELSE @]
     /\ UNCHANGED <<now, faults, requestVars, shown, syncVars, got, gnext, after, race, during>>

\* The checks; a refusal is the end of the command, with no positions.
Decide(f) ==
  LET p == Fetching(f)
  IN /\ pc[f] = "fetch"
     /\ fpc[f][p] = "read"
     /\ gnext[f][p] = NS[p] + 1
     /\ fpc' = [fpc EXCEPT ![f][p] = Verdict(f, p)]
     /\ IF Verdict(f, p) = "accepted" THEN UNCHANGED <<pc, shown>> ELSE Fail(f)
     /\ UNCHANGED <<now, faults, requestVars, syncVars, got, gnext, after, report, race, during>>

\* The reads on chain succeed and the positions are appended; after the last
\* protocol they are printed with the snapshot.
AppendPositions(f) ==
  LET p == Fetching(f)
  IN /\ pc[f] = "fetch"
     /\ fpc[f][p] = "accepted"
     /\ report' = [report EXCEPT ![f] = @ \cup {p}]
     /\ pc' = [pc EXCEPT ![f] = IF report'[f] = want[f] THEN "done" ELSE @]
     /\ UNCHANGED <<now, faults, requestVars, shown, syncVars, fetchVars, race, during>>

\* One of them fails.  demo makes none.
ChainFails(f) ==
  LET p == Fetching(f)
  IN /\ pc[f] = "fetch"
     /\ fpc[f][p] = "accepted"
     /\ p \in Checked
     /\ Fault
     /\ Fail(f)
     /\ UNCHANGED <<now, requestVars, syncVars, fetchVars, report, race, during>>

-----------------------------------------------------------------------------
SyncStep(s) == Discover(s) \/ Stamp(s) \/ Set(s) \/ SyncFails(s) \/ Inspect(s)
FetchStep(f) ==
  Inspect(f) \/ StartFetch(f) \/ Get(f) \/ Decide(f) \/ AppendPositions(f) \/ ChainFails(f)

Next ==
  \/ Tick
  \/ \E s \in Syncs : BeginSync(s) \/ SyncStep(s)
  \/ \E f \in Fetches : BeginPositions(f) \/ FetchStep(f)

\* A command that has started goes on: every HTTP request times out after 20
\* seconds, an SQLite error is returned, and no loop waits for another process.
Spec ==
  /\ Init /\ [][Next]_vars
  /\ \A s \in Syncs : WF_vars(SyncStep(s))
  /\ \A f \in Fetches : WF_vars(FetchStep(f))

-----------------------------------------------------------------------------
(* Properties *)

\* What MetadataCache calls the cache of one protocol.
Cache(p) == INSTANCE MetadataCache WITH
  Syncers   <- Syncs,
  Fetchers  <- Fetches,
  N         <- NS[p],
  rows      <- rows[p],
  spc       <- [s \in Syncs |-> spc[s][p]],
  seen      <- [s \in Syncs |-> seen[s][p]],
  stamp     <- [s \in Syncs |-> stamp[s][p]],
  next      <- [s \in Syncs |-> next[s][p]],
  overlap   <- [s \in Syncs |-> overlap[s][p]],
  clash     <- [s \in Syncs |-> clash[s][p]],
  fpc       <- [f \in Fetches |-> fpc[f][p]],
  age       <- [f \in Fetches |-> IF fpc[f][p] = "idle" THEN 0 ELSE age[f]],
  got       <- [f \in Fetches |-> got[f][p]],
  gnext     <- [f \in Fetches |-> gnext[f][p]],
  after     <- [f \in Fetches |-> after[f][p]],
  race      <- [f \in Fetches |-> race[f][p]]

\* However the commands interleave, over however many protocols, each protocol
\* that checks its metadata has the cache MetadataCache describes, so that all
\* that is proved of it holds of the commands.  (A protocol is synced and
\* fetched under the same rules whether alone or after others, and neither
\* inspection nor the failure of another protocol disturbs its rows.)
CachePerProtocol ==
  /\ \A p \in Checked : Cache(p)!Init
  /\ [][\A p \in Checked : [Cache(p)!Next]_(Cache(p)!vars)]_vars

\* Positions are printed next to a snapshot that was read before them.  What
\* it says of a namespace is what the positions were computed from, and it
\* never says missing or stale of what was used, unless the snapshot could not
\* be read, another process set that row in between, or the protocol is one
\* that uses what it is given.  (inspectMetadata before FetchPositions.)
SnapshotExplained ==
  \A f \in Fetches : pc[f] = "done" =>
    \A p \in want[f] : \A n \in 1..NS[p] :
      LET entry == shown[f][p][n]
          used  == got[f][p][n]
      IN \/ used = entry.row /\ (p \in Checked => used # NoRow /\ ~entry.stale)
         \/ entry.row = ReadError
         \/ used \in during[f][p]

\* What a sync refreshes is a prefix of the protocols it was asked for, and all
\* of them if it succeeds.  If any row of a protocol is its own, then every
\* protocol it was to sync before has been refreshed entirely, by it or by a run
\* that set rows at the same time or stamped them later; a sync that fails says
\* nothing of this.  One that succeeds shows its own row for every namespace, or
\* that of a process that set one meanwhile, and never that it is missing.
RefreshedInOrder ==
  /\ \A s \in Syncs : \A p, q \in Protocols :
       (p < q /\ p \in want[s] /\ \E n \in 1..NS[q] : rows[q][n] = s) =>
         \A n \in 1..NS[p] :
           /\ rows[p][n] # NoRow
           /\ \/ stamp[rows[p][n]][p] >= stamp[s][p]
              \/ rows[p][n] \in clash[s][p]
  /\ \A s \in Syncs : pc[s] = "done" =>
       \A p \in want[s] : \A n \in 1..NS[p] :
         shown[s][p][n].row \in {s, ReadError} \cup during[s][p]

\* A report is never partial: positions that are printed cover every protocol
\* asked for, each computed from rows that were all there and, where an age is
\* asked, not older than that when the command began.
ReportIsWhole ==
  \A f \in Fetches : pc[f] = "done" =>
    /\ report[f] = want[f]
    /\ want[f] # {}
    /\ \A p \in want[f] \cap Checked : \A n \in 1..NS[p] :
         LET row == got[f][p][n]
             maxAge == EffectiveAge(age[f])
         IN row \in Syncs /\ (maxAge > 0 => began[f] - stamp[row][p] <= maxAge)

\* Every command that starts ends, with an output or an error, whatever the
\* others do to the cache: a time comes from which none is running.
CommandsEnd == <>[](Active = {})
=============================================================================
