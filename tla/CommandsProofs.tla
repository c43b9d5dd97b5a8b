--------------------------- MODULE CommandsProofs ---------------------------
(***************************************************************************)
(* Proofs about Commands: the cache of every protocol that checks its      *)
(* metadata refines MetadataCache, a report is never partial, what a sync  *)
(* refreshes is a prefix of what it was asked for, and a snapshot that is  *)
(* printed is explained.                                                   *)
(*                                                                         *)
(* An action of a command works on one protocol, p.  Seen through Cache(p) *)
(* it is an action of MetadataCache; through Cache(q), for another q, it   *)
(* changes nothing.  Little has to be known of the state for this: that    *)
(* the variables are functions on runs and protocols (Shape), and that age *)
(* is given before it is used (Flags).                                     *)
(*                                                                         *)
(* The last two need the order in which a command works (Ordered): it goes *)
(* through its protocols and their namespaces one by one, and First picks  *)
(* the least that is left.  On top of that RefreshInv says what is left of *)
(* what a sync has set, and ShownInv what is left of what was shown.       *)
(***************************************************************************)
EXTENDS Commands, FiniteSetTheorems, WellFoundedInduction, TLAPS

\* A variable is a function of runs and protocols.
IsGrid(v, S) == DOMAIN v = S /\ \A c \in S : DOMAIN v[c] = Protocols

Grids ==
  /\ DOMAIN rows = Protocols
  /\ IsGrid(spc, Syncs) /\ IsGrid(seen, Syncs) /\ IsGrid(stamp, Syncs) /\ IsGrid(next, Syncs)
  /\ IsGrid(overlap, Syncs) /\ IsGrid(clash, Syncs)
  /\ IsGrid(fpc, Fetches) /\ IsGrid(got, Fetches) /\ IsGrid(gnext, Fetches)
  /\ IsGrid(after, Fetches) /\ IsGrid(race, Fetches)

Shape ==
  /\ DOMAIN pc = Runs /\ DOMAIN age = Fetches
  /\ Grids

\* What a namespace holds, and what a Get has returned.
RowsTyped == \A p \in Protocols : rows[p] \in [1..NS[p] -> Syncs \cup {NoRow}]
GotTyped == \A f \in Fetches, p \in Protocols : got[f][p] \in Results(p)

\* A run of positions takes its flags before it fetches.
Flags ==
  \A f \in Fetches :
    /\ pc[f] = "idle" => \A p \in Protocols : fpc[f][p] = "idle"
    /\ pc[f] \in {"inspect", "fetch"} => age[f] \in AgeFlags

Framed == Shape /\ RowsTyped /\ GotTyped /\ Flags

\* What is initially so.
LEMMA InitFramed == Init => Framed
<1> SUFFICES ASSUME Init PROVE Framed
  OBVIOUS
<1>1. Shape
  BY CommandsAssumption DEF Init, Shape, Grids, IsGrid, Each, Runs
<1>2. RowsTyped /\ GotTyped
  BY DEF Init, RowsTyped, GotTyped, Results
<1>3. Flags
  BY DEF Init, Flags, Runs, Each
<1>. QED
  BY <1>1, <1>2, <1>3 DEF Framed

\* An update of one entry leaves a grid a grid.
LEMMA PutGrid ==
  ASSUME NEW S, NEW v, IsGrid(v, S), NEW a, NEW b, NEW x
  PROVE  IsGrid([v EXCEPT ![a][b] = x], S)
  BY DEF IsGrid

\* So do peers that meet.
LEMMA MeetGrid ==
  ASSUME NEW v, NEW s, NEW p, NEW others, IsGrid(v, Syncs)
  PROVE  IsGrid(Meet(v, s, p, others), Syncs)
  BY DEF IsGrid, Meet

\* Every update of the code is of an entry that exists.
LEMMA StepGrids ==
  ASSUME Grids, [Next]_vars
  PROVE  Grids'
<1>. USE DEF Grids
<1>1. CASE UNCHANGED <<syncVars, fetchVars, race>>
  BY <1>1 DEF syncVars, fetchVars
<1>2. ASSUME NEW s \in Syncs, Discover(s) PROVE Grids'
  <2>. UNCHANGED <<rows, stamp, next, clash, fetchVars, race>>
    BY <1>2 DEF Discover
  <2>. QED
    BY <1>2, PutGrid, MeetGrid DEF Discover, fetchVars
<1>3. ASSUME NEW s \in Syncs, Stamp(s) PROVE Grids'
  <2>. DEFINE p == Syncing(s)
  <2>1. /\ spc' = [spc EXCEPT ![s][p] = "write"]
        /\ stamp' = [stamp EXCEPT ![s][p] = now]
        /\ clash' = Meet(clash, s, p, Writing(p))
        /\ race' = [f \in Fetches |->
                      IF f \in Reading(p) THEN [race[f] EXCEPT ![p] = @ \cup {s}] ELSE race[f]]
        /\ UNCHANGED <<rows, seen, next, overlap, fetchVars>>
    BY <1>3 DEF Stamp
  <2>2. IsGrid(race', Fetches)
    BY <2>1 DEF IsGrid
  <2>3. IsGrid(spc', Syncs) /\ IsGrid(stamp', Syncs)
    BY <2>1, PutGrid
  <2>4. IsGrid(clash', Syncs)
    BY <2>1, MeetGrid
  <2>. QED
    BY <2>1, <2>2, <2>3, <2>4 DEF fetchVars
<1>4. ASSUME NEW s \in Syncs, Set(s) PROVE Grids'
  BY <1>4, PutGrid DEF Set, fetchVars
<1>5. ASSUME NEW s \in Syncs, SyncFails(s) PROVE Grids'
  BY <1>5, PutGrid DEF SyncFails, fetchVars
<1>6. ASSUME NEW f \in Fetches, StartFetch(f) PROVE Grids'
  <2>. DEFINE p == Fetching(f)
  <2>1. \/ /\ fpc' = [fpc EXCEPT ![f][p] = "read"]
           /\ after' = [after EXCEPT ![f][p] = {s \in Syncs : spc[s][p] = "done"}]
           /\ race' = [race EXCEPT ![f][p] = Writing(p)]
        \/ UNCHANGED <<fpc, after, race>>
    BY <1>6 DEF StartFetch
  <2>2. UNCHANGED <<syncVars, got, gnext>>
    BY <1>6 DEF StartFetch
  <2>3. CASE fpc' = [fpc EXCEPT ![f][p] = "read"]
             /\ after' = [after EXCEPT ![f][p] = {s \in Syncs : spc[s][p] = "done"}]
             /\ race' = [race EXCEPT ![f][p] = Writing(p)]
    <3>. HIDE DEF p
    <3>1. IsGrid(fpc', Fetches)
      BY <2>3, PutGrid
    <3>2. IsGrid(after', Fetches)
      BY <2>3, PutGrid
    <3>3. IsGrid(race', Fetches)
      BY <2>3, PutGrid
    <3>. QED
      BY <2>2, <3>1, <3>2, <3>3 DEF syncVars
  <2>. QED
    BY <2>1, <2>2, <2>3 DEF syncVars
<1>7. ASSUME NEW f \in Fetches, Get(f) PROVE Grids'
  <2>1. IsGrid(got', Fetches)
    BY <1>7 DEF Get, IsGrid
  <2>. QED
    BY <1>7, <2>1, PutGrid DEF Get, syncVars
<1>8. ASSUME NEW f \in Fetches, Decide(f) PROVE Grids'
  BY <1>8, PutGrid DEF Decide, syncVars
<1>. QED
  BY <1>1, <1>2, <1>3, <1>4, <1>5, <1>6, <1>7, <1>8
     DEF Next, SyncStep, FetchStep, Tick, BeginSync, BeginPositions, Inspect, AppendPositions,
         ChainFails, vars, fetchVars, syncVars

\* A Set puts a run there, and changes no other namespace.
LEMMA StepRows ==
  ASSUME Grids, RowsTyped, [Next]_vars
  PROVE  RowsTyped'
<1>1. CASE UNCHANGED rows
  BY <1>1 DEF RowsTyped
<1>2. ASSUME NEW s \in Syncs, Set(s) PROVE RowsTyped'
  BY <1>2 DEF Set, RowsTyped, Grids
<1>. QED
  BY <1>1, <1>2
     DEF Next, SyncStep, FetchStep, Tick, BeginSync, BeginPositions, Inspect, AppendPositions,
         ChainFails, Discover, Stamp, SyncFails, StartFetch, Get, Decide, vars, syncVars

\* A Get returns a row, its absence or an error.
LEMMA StepGot ==
  ASSUME Grids, RowsTyped, GotTyped, [Next]_vars
  PROVE  GotTyped'
<1>1. CASE UNCHANGED got
  BY <1>1 DEF GotTyped
<1>2. ASSUME NEW f \in Fetches, Get(f) PROVE GotTyped'
  <2> SUFFICES ASSUME NEW g \in Fetches, NEW p \in Protocols PROVE got'[g][p] \in Results(p)
    BY DEF GotTyped
  <2>1. CASE g = f /\ p = Fetching(f)
    <3>. DEFINE n == gnext[f][p]
    <3>1. PICK x \in {rows[p][n], ReadError} : got' = [got EXCEPT ![f][p][n] = x]
      BY <1>2, <2>1 DEF Get
    <3>2. got'[g][p] = [got[g][p] EXCEPT ![n] = x]
      BY <2>1, <3>1 DEF Grids, IsGrid
    <3>3. n \in 1..NS[p] => x \in Syncs \cup {NoRow, ReadError}
      BY <3>1 DEF RowsTyped
    <3>4. got[g][p] \in [1..NS[p] -> Syncs \cup {NoRow, ReadError}]
      BY DEF GotTyped, Results
    <3>. HIDE DEF n
    <3>. QED
      BY <3>2, <3>3, <3>4 DEF Results
  <2>2. CASE ~(g = f /\ p = Fetching(f))
    <3>1. got'[g][p] = got[g][p]
      BY <1>2, <2>2 DEF Get, Grids, IsGrid
    <3>. QED
      BY <3>1 DEF GotTyped
  <2>. QED
    BY <2>1, <2>2
<1>. QED
  BY <1>1, <1>2
     DEF Next, SyncStep, FetchStep, Tick, BeginSync, BeginPositions, Inspect, AppendPositions,
         ChainFails, Discover, Stamp, Set, SyncFails, StartFetch, Decide, vars, fetchVars

\* A fetch begins after the flags are read, and they are read once.
LEMMA StepFlags ==
  ASSUME Shape, Flags, [Next]_vars
  PROVE  Flags' /\ DOMAIN pc' = Runs /\ DOMAIN age' = Fetches
<1>. USE CommandsAssumption DEF Shape, Flags, Runs
<1>1. CASE UNCHANGED <<pc, age, fpc>>
  BY <1>1
<1>2. ASSUME NEW s \in Syncs, UNCHANGED <<age, fpc>>,
             DOMAIN pc' = Runs, \A c \in Runs \ {s} : pc'[c] = pc[c]
      PROVE  Flags' /\ DOMAIN pc' = Runs /\ DOMAIN age' = Fetches
  BY <1>2
<1>3. ASSUME NEW f \in Fetches, pc[f] # "idle", age' = age,
             DOMAIN pc' = Runs, \A c \in Runs \ {f} : pc'[c] = pc[c], pc'[f] # "idle",
             pc'[f] \in {"inspect", "fetch"} => pc[f] \in {"inspect", "fetch"},
             \A g \in Fetches \ {f} : fpc'[g] = fpc[g]
      PROVE  Flags' /\ DOMAIN pc' = Runs /\ DOMAIN age' = Fetches
  BY <1>3 DEF Ended
<1>4. ASSUME NEW f \in Fetches, BeginPositions(f)
      PROVE  Flags' /\ DOMAIN pc' = Runs /\ DOMAIN age' = Fetches
  BY <1>4 DEF BeginPositions, Begin, Fail, fetchVars
<1>5. ASSUME NEW s \in Syncs, BeginSync(s) \/ SyncStep(s)
      PROVE  Flags' /\ DOMAIN pc' = Runs /\ DOMAIN age' = Fetches
  <2>1. UNCHANGED <<age, fpc>>
    BY <1>5 DEF BeginSync, SyncStep, Discover, Stamp, Set, SyncFails, Inspect, requestVars, fetchVars
  <2>. DEFINE OnlyS == DOMAIN pc' = Runs /\ \A c \in Runs \ {s} : pc'[c] = pc[c]
  <2>. HIDE DEF Flags
  <2>2. ASSUME BeginSync(s) PROVE OnlyS
    BY <2>2 DEF BeginSync, Begin, Fail
  <2>3. ASSUME Discover(s) \/ Stamp(s) PROVE OnlyS
    BY <2>3 DEF Discover, Stamp
  <2>4. ASSUME Set(s) PROVE OnlyS
    BY <2>4 DEF Set
  <2>5. ASSUME SyncFails(s) PROVE OnlyS
    BY <2>5 DEF SyncFails, Fail
  <2>6. ASSUME Inspect(s) PROVE OnlyS
    BY <2>6 DEF Inspect
  <2>. QED
    BY <1>5, <1>2, <2>1, <2>2, <2>3, <2>4, <2>5, <2>6 DEF SyncStep
<1>6. ASSUME NEW f \in Fetches, Inspect(f)
      PROVE  Flags' /\ DOMAIN pc' = Runs /\ DOMAIN age' = Fetches
  BY <1>3, <1>6 DEF Inspect, requestVars, fetchVars
<1>7. ASSUME NEW f \in Fetches, StartFetch(f) \/ Get(f) \/ Decide(f) \/ AppendPositions(f) \/ ChainFails(f)
      PROVE  Flags' /\ DOMAIN pc' = Runs /\ DOMAIN age' = Fetches
  <2>1. pc[f] = "fetch" /\ age' = age
    BY <1>7 DEF StartFetch, Get, Decide, AppendPositions, ChainFails, requestVars
  <2>. DEFINE OnlyF == /\ DOMAIN pc' = Runs /\ \A c \in Runs \ {f} : pc'[c] = pc[c]
                       /\ pc'[f] # "idle"
                       /\ \A g \in Fetches \ {f} : fpc'[g] = fpc[g]
  <2>. HIDE DEF Flags
  <2>. DOMAIN fpc = Fetches
    BY DEF Grids, IsGrid
  <2>2. ASSUME StartFetch(f) PROVE OnlyF
    BY <2>1, <2>2 DEF StartFetch, Fail
  <2>3. ASSUME Get(f) PROVE OnlyF
    BY <2>1, <2>3 DEF Get
  <2>4. ASSUME Decide(f) PROVE OnlyF
    BY <2>1, <2>4 DEF Decide, Fail
  <2>5. ASSUME AppendPositions(f) PROVE OnlyF
    BY <2>1, <2>5 DEF AppendPositions, fetchVars
  <2>6. ASSUME ChainFails(f) PROVE OnlyF
    BY <2>1, <2>6 DEF ChainFails, Fail, fetchVars
  <2>. QED
    BY <1>3, <1>7, <2>1, <2>2, <2>3, <2>4, <2>5, <2>6
<1>8. CASE Tick
  BY <1>1, <1>8 DEF Tick, requestVars, fetchVars
<1>9. CASE UNCHANGED vars
  BY <1>1, <1>9 DEF vars, requestVars, fetchVars
<1>. QED
  BY <1>4, <1>5, <1>6, <1>7, <1>8, <1>9 DEF Next, FetchStep

-----------------------------------------------------------------------------
(* The refinement. *)

\* Each step of a sync, seen from protocol p: that of one sync of p, or nothing.
LEMMA MapDiscover ==
  ASSUME Grids, NEW s \in Syncs, Discover(s), NEW p \in Protocols
  PROVE  Cache(p)!Discover(s) \/ UNCHANGED Cache(p)!vars
<1>. DEFINE b == Syncing(s)
<1>1. /\ spc[s][b] = "idle"
      /\ spc' = [spc EXCEPT ![s][b] = "discover"]
      /\ seen' = [seen EXCEPT ![s][b] = now]
      /\ overlap' = Meet(overlap, s, b, Alive(b))
  BY DEF Discover
<1>2. UNCHANGED <<now, rows, stamp, next, clash, fpc, got, gnext, after, age, race>>
  BY DEF Discover, fetchVars, requestVars
<1>. HIDE DEF b
<1>3. \A c \in Syncs : spc'[c][p] = IF c = s /\ b = p THEN "discover" ELSE spc[c][p]
  BY <1>1 DEF Grids, IsGrid
<1>4. \A c \in Syncs : seen'[c][p] = IF c = s /\ b = p THEN now ELSE seen[c][p]
  BY <1>1 DEF Grids, IsGrid
<1>5. \A t \in Syncs :
        overlap'[t][p] = IF b = p THEN overlap[t][p] \cup (IF t = s THEN Alive(b)
                                         ELSE IF t \in Alive(b) THEN {s} ELSE {})
                                  ELSE overlap[t][p]
  BY <1>1 DEF Grids, IsGrid, Meet
<1>6. CASE b = p
  <2>1. Alive(b) = Cache(p)!Alive
    BY <1>6 DEF Alive, Cache!Alive
  <2>2. [c \in Syncs |-> spc'[c][p]] = [[c \in Syncs |-> spc[c][p]] EXCEPT ![s] = "discover"]
    BY <1>3, <1>6
  <2>3. [c \in Syncs |-> seen'[c][p]] = [[c \in Syncs |-> seen[c][p]] EXCEPT ![s] = now]
    BY <1>4, <1>6
  <2>4. [t \in Syncs |-> overlap'[t][p]]
          = Cache(p)!Meet([t \in Syncs |-> overlap[t][p]], s, Cache(p)!Alive)
    BY <1>5, <1>6, <2>1 DEF Cache!Meet
  <2>. QED
    BY <1>1, <1>2, <1>6, <2>2, <2>3, <2>4 DEF Cache!Discover, Cache!fetchVars
<1>7. CASE b # p
  BY <1>2, <1>3, <1>4, <1>5, <1>7 DEF Cache!vars, Cache!syncVars, Cache!fetchVars
<1>. QED
  BY <1>6, <1>7

\* A Stamp is one of p, or nothing to it.
LEMMA MapStamp ==
  ASSUME Grids, NEW s \in Syncs, Stamp(s), NEW p \in Protocols
  PROVE  Cache(p)!Stamp(s) \/ UNCHANGED Cache(p)!vars
<1>. DEFINE b == Syncing(s)
<1>1. /\ spc[s][b] = "discover"
      /\ spc' = [spc EXCEPT ![s][b] = "write"]
      /\ stamp' = [stamp EXCEPT ![s][b] = now]
      /\ clash' = Meet(clash, s, b, Writing(b))
      /\ race' = [f \in Fetches |->
                    IF f \in Reading(b) THEN [race[f] EXCEPT ![b] = @ \cup {s}] ELSE race[f]]
  BY DEF Stamp
<1>2. UNCHANGED <<now, rows, seen, next, overlap, fpc, got, gnext, after, age>>
  BY DEF Stamp, fetchVars, requestVars
<1>. HIDE DEF b
<1>3. \A c \in Syncs : spc'[c][p] = IF c = s /\ b = p THEN "write" ELSE spc[c][p]
  BY <1>1 DEF Grids, IsGrid
<1>4. \A c \in Syncs : stamp'[c][p] = IF c = s /\ b = p THEN now ELSE stamp[c][p]
  BY <1>1 DEF Grids, IsGrid
<1>5. \A t \in Syncs :
        clash'[t][p] = IF b = p THEN clash[t][p] \cup (IF t = s THEN Writing(b)
                                       ELSE IF t \in Writing(b) THEN {s} ELSE {})
                                ELSE clash[t][p]
  BY <1>1 DEF Grids, IsGrid, Meet
<1>6. \A f \in Fetches :
        race'[f][p] = IF b = p /\ f \in Reading(b) THEN race[f][p] \cup {s} ELSE race[f][p]
  BY <1>1 DEF Grids, IsGrid
<1>7. CASE b = p
  <2>1. Writing(b) = Cache(p)!Writing /\ Reading(b) = Cache(p)!Reading
    BY <1>7 DEF Writing, Reading, Cache!Writing, Cache!Reading
  <2>2. [c \in Syncs |-> spc'[c][p]] = [[c \in Syncs |-> spc[c][p]] EXCEPT ![s] = "write"]
    BY <1>3, <1>7
  <2>3. [c \in Syncs |-> stamp'[c][p]] = [[c \in Syncs |-> stamp[c][p]] EXCEPT ![s] = now]
    BY <1>4, <1>7
  <2>4. [t \in Syncs |-> clash'[t][p]]
          = Cache(p)!Meet([t \in Syncs |-> clash[t][p]], s, Cache(p)!Writing)
    BY <1>5, <1>7, <2>1 DEF Cache!Meet
  <2>5. [f \in Fetches |-> race'[f][p]]
          = [f \in Fetches |-> IF f \in Cache(p)!Reading
                                 THEN [g \in Fetches |-> race[g][p]][f] \cup {s}
                                 ELSE [g \in Fetches |-> race[g][p]][f]]
    BY <1>6, <1>7, <2>1
  <2>. QED
    BY <1>1, <1>2, <1>7, <2>2, <2>3, <2>4, <2>5 DEF Cache!Stamp, Cache!fetchVars
<1>8. CASE b # p
  BY <1>2, <1>3, <1>4, <1>5, <1>6, <1>8 DEF Cache!vars, Cache!syncVars, Cache!fetchVars
<1>. QED
  BY <1>7, <1>8

\* A Set is one of p, or nothing to it.
LEMMA MapSet ==
  ASSUME Grids, NEW s \in Syncs, Set(s), NEW p \in Protocols
  PROVE  Cache(p)!Set(s) \/ UNCHANGED Cache(p)!vars
<1>. DEFINE b == Syncing(s)
            end == IF next[s][b] = NS[b] THEN "done" ELSE "write"
<1>1. /\ spc[s][b] = "write"
      /\ rows' = [rows EXCEPT ![b][next[s][b]] = s]
      /\ next' = [next EXCEPT ![s][b] = @ + 1]
      /\ spc' = [spc EXCEPT ![s][b] = end]
  BY DEF Set, Grids, IsGrid
<1>2. UNCHANGED <<now, seen, stamp, overlap, clash, fpc, got, gnext, after, age, race>>
  BY DEF Set, fetchVars, requestVars
<1>. HIDE DEF b, end
<1>3. \A c \in Syncs : spc'[c][p] = IF c = s /\ b = p THEN end ELSE spc[c][p]
  BY <1>1 DEF Grids, IsGrid
<1>4. \A c \in Syncs : next'[c][p] = IF c = s /\ b = p THEN next[s][p] + 1 ELSE next[c][p]
  BY <1>1 DEF Grids, IsGrid
<1>5. rows'[p] = IF b = p THEN [rows[p] EXCEPT ![next[s][p]] = s] ELSE rows[p]
  BY <1>1 DEF Grids
<1>6. CASE b = p
  <2>1. [c \in Syncs |-> spc'[c][p]] = [[c \in Syncs |-> spc[c][p]] EXCEPT ![s] = end]
    BY <1>3, <1>6
  <2>2. [c \in Syncs |-> next'[c][p]]
          = [[c \in Syncs |-> next[c][p]] EXCEPT ![s] = next[s][p] + 1]
    BY <1>4, <1>6
  <2>. QED
    BY <1>1, <1>2, <1>5, <1>6, <2>1, <2>2 DEF end, Cache!Set, Cache!fetchVars
<1>7. CASE b # p
  BY <1>2, <1>3, <1>4, <1>5, <1>7 DEF Cache!vars, Cache!syncVars, Cache!fetchVars
<1>. QED
  BY <1>6, <1>7

\* A failure is one of p, or nothing to it.
LEMMA MapSyncFails ==
  ASSUME Grids, NEW s \in Syncs, SyncFails(s), NEW p \in Protocols
  PROVE  Cache(p)!SyncFails(s) \/ UNCHANGED Cache(p)!vars
<1>. DEFINE b == Syncing(s)
<1>1. /\ spc[s][b] \in {"discover", "write"}
      /\ spc' = [spc EXCEPT ![s][b] = "failed"]
  BY DEF SyncFails
<1>2. UNCHANGED <<now, rows, seen, stamp, next, overlap, clash, fpc, got, gnext, after, age, race>>
  BY DEF SyncFails, fetchVars, requestVars
<1>. HIDE DEF b
<1>3. \A c \in Syncs : spc'[c][p] = IF c = s /\ b = p THEN "failed" ELSE spc[c][p]
  BY <1>1 DEF Grids, IsGrid
<1>4. CASE b = p
  <2>1. [c \in Syncs |-> spc'[c][p]] = [[c \in Syncs |-> spc[c][p]] EXCEPT ![s] = "failed"]
    BY <1>3, <1>4
  <2>2. s \in Cache(p)!Alive
    BY <1>1, <1>4 DEF Cache!Alive
  <2>. QED
    BY <1>2, <2>1, <2>2 DEF Cache!SyncFails, Cache!fetchVars
<1>5. CASE b # p
  BY <1>2, <1>3, <1>5 DEF Cache!vars, Cache!syncVars, Cache!fetchVars
<1>. QED
  BY <1>4, <1>5

\* Each step of a fetch, likewise.
LEMMA MapStartFetch ==
  ASSUME Grids, DOMAIN age = Fetches, Flags, NEW f \in Fetches, StartFetch(f), NEW p \in Protocols
  PROVE  Cache(p)!StartFetch(f) \/ UNCHANGED Cache(p)!vars
<1>. DEFINE b == Fetching(f)
            done == {s \in Syncs : spc[s][b] = "done"}
<1>1. UNCHANGED <<now, syncVars, got, gnext, age>>
  BY DEF StartFetch, requestVars
<1>2. CASE UNCHANGED <<fpc, after, race>>
  BY <1>1, <1>2 DEF syncVars, Cache!vars, Cache!syncVars, Cache!fetchVars
<1>3. CASE ~UNCHANGED <<fpc, after, race>>
  <2>1. /\ fpc[f][b] = "idle"
        /\ fpc' = [fpc EXCEPT ![f][b] = "read"]
        /\ after' = [after EXCEPT ![f][b] = done]
        /\ race' = [race EXCEPT ![f][b] = Writing(b)]
    BY <1>3 DEF StartFetch
  <2>2. age[f] \in AgeFlags
    BY DEF StartFetch, Flags
  <2>. HIDE DEF b
  <2>3. \A g \in Fetches : fpc'[g][p] = IF g = f /\ b = p THEN "read" ELSE fpc[g][p]
    BY <2>1 DEF Grids, IsGrid
  <2>. HIDE DEF done
  <2>4. \A g \in Fetches : after'[g][p] = IF g = f /\ b = p THEN done ELSE after[g][p]
    BY <2>1 DEF Grids, IsGrid
  <2>5. \A g \in Fetches : race'[g][p] = IF g = f /\ b = p THEN Writing(b) ELSE race[g][p]
    BY <2>1 DEF Grids, IsGrid
  <2>6. CASE b = p
    <3>1. [g \in Fetches |-> fpc'[g][p]] = [[g \in Fetches |-> fpc[g][p]] EXCEPT ![f] = "read"]
      BY <2>3, <2>6
    <3>2. [g \in Fetches |-> after'[g][p]] = [[g \in Fetches |-> after[g][p]] EXCEPT ![f] = done]
      BY <2>4, <2>6
    <3>3. [g \in Fetches |-> race'[g][p]] = [[g \in Fetches |-> race[g][p]] EXCEPT ![f] = Writing(b)]
      BY <2>5, <2>6
    <3>4. Writing(b) = Cache(p)!Writing
      BY <2>6 DEF Writing, Cache!Writing
    <3>5. done = {s \in Syncs : [c \in Syncs |-> spc[c][p]][s] = "done"}
      BY <2>6 DEF done
    <3>6. [g \in Fetches |-> IF fpc'[g][p] = "idle" THEN 0 ELSE age'[g]]
            = [[g \in Fetches |-> IF fpc[g][p] = "idle" THEN 0 ELSE age[g]] EXCEPT ![f] = age[f]]
      BY <1>1, <2>3, <2>6
    <3>. QED
      BY <1>1, <2>1, <2>2, <2>6, <3>1, <3>2, <3>3, <3>4, <3>5, <3>6
         DEF Cache!StartFetch, Cache!syncVars, syncVars
  <2>7. CASE b # p
    BY <1>1, <2>3, <2>4, <2>5, <2>7 DEF syncVars, Cache!vars, Cache!syncVars, Cache!fetchVars
  <2>. QED
    BY <2>6, <2>7
<1>. QED
  BY <1>2, <1>3

\* A Get is one of p, or nothing to it.
LEMMA MapGet ==
  ASSUME Grids, NEW f \in Fetches, Get(f), NEW p \in Protocols
  PROVE  Cache(p)!Get(f) \/ UNCHANGED Cache(p)!vars
<1>. DEFINE b == Fetching(f)
            n == gnext[f][b]
<1>1. /\ fpc[f][b] = "read"
      /\ n <= NS[b]
      /\ gnext' = [gnext EXCEPT ![f][b] = n + 1]
      /\ UNCHANGED <<now, syncVars, fpc, after, race, age>>
  BY DEF Get, requestVars
<1>2. PICK x \in {rows[b][n], ReadError} : got' = [got EXCEPT ![f][b][n] = x]
  BY DEF Get
<1>. HIDE DEF b
<1>3. \A g \in Fetches : gnext'[g][p] = IF g = f /\ b = p THEN gnext[f][p] + 1 ELSE gnext[g][p]
  BY <1>1 DEF Grids, IsGrid
<1>4. \A g \in Fetches :
        got'[g][p] = IF g = f /\ b = p THEN [got[f][p] EXCEPT ![gnext[f][p]] = x] ELSE got[g][p]
  BY <1>2 DEF Grids, IsGrid
<1>5. CASE b = p
  <2>1. [g \in Fetches |-> gnext'[g][p]]
          = [[g \in Fetches |-> gnext[g][p]] EXCEPT ![f] = gnext[f][p] + 1]
    BY <1>3, <1>5
  <2>2. [g \in Fetches |-> got'[g][p]]
          = [[g \in Fetches |-> got[g][p]] EXCEPT ![f] = [got[f][p] EXCEPT ![gnext[f][p]] = x]]
    BY <1>4, <1>5
  <2>3. x \in {rows[p][gnext[f][p]], ReadError}
    BY <1>2, <1>5
  <2>. QED
    BY <1>1, <1>5, <2>1, <2>2, <2>3 DEF Cache!Get, Cache!syncVars, syncVars
<1>6. CASE b # p
  BY <1>1, <1>3, <1>4, <1>6 DEF syncVars, Cache!vars, Cache!syncVars, Cache!fetchVars
<1>. QED
  BY <1>5, <1>6

\* The verdict of a protocol that checks is that of loadMetadata.
LEMMA MapVerdict ==
  ASSUME NEW f \in Fetches, NEW p \in Checked, got[f][p] \in Results(p), NEW maxAge,
         maxAge = EffectiveAge(age[f])
  PROVE  Verdict(f, p) =
           IF \E n \in 1..NS[p] : got[f][p][n] = NoRow THEN "missing"
           ELSE IF \E n \in 1..NS[p] : got[f][p][n] = ReadError THEN "error"
           ELSE IF maxAge > 0 /\ \E n \in 1..NS[p] :
                     now - [s \in Syncs |-> stamp[s][p]][got[f][p][n]] > maxAge THEN "expired"
           ELSE "accepted"
<1>1. CASE \E n \in 1..NS[p] : got[f][p][n] \in {NoRow, ReadError}
  BY <1>1, CommandsAssumption DEF Verdict
<1>2. CASE \A n \in 1..NS[p] : got[f][p][n] \notin {NoRow, ReadError}
  <2>1. \A n \in 1..NS[p] :
          /\ got[f][p][n] \in Syncs
          /\ [s \in Syncs |-> stamp[s][p]][got[f][p][n]] = stamp[got[f][p][n]][p]
    BY <1>2 DEF Results
  <2>. QED
    BY <1>2, <2>1 DEF Verdict, Older
<1>. QED
  BY <1>1, <1>2

\* A verdict is one of p, or nothing to it.
LEMMA MapDecide ==
  ASSUME Grids, GotTyped, NEW f \in Fetches, Decide(f), NEW p \in Checked
  PROVE  Cache(p)!Decide(f) \/ UNCHANGED Cache(p)!vars
<1>. DEFINE b == Fetching(f)
            verdict == Verdict(f, b)
<1>1. /\ fpc[f][b] = "read"
      /\ gnext[f][b] = NS[b] + 1
      /\ fpc' = [fpc EXCEPT ![f][b] = verdict]
      /\ UNCHANGED <<now, syncVars, got, gnext, after, race, age>>
  BY DEF Decide, requestVars
<1>2. verdict # "idle"
  BY DEF Verdict
<1>. HIDE DEF b, verdict
<1>. p \in Protocols
  BY DEF Checked
<1>3. \A g \in Fetches : fpc'[g][p] = IF g = f /\ b = p THEN verdict ELSE fpc[g][p]
  BY <1>1 DEF Grids, IsGrid
<1>4. CASE b = p
  <2>1. [g \in Fetches |-> fpc'[g][p]] = [[g \in Fetches |-> fpc[g][p]] EXCEPT ![f] = verdict]
    BY <1>3, <1>4
  <2>2. [g \in Fetches |-> IF fpc'[g][p] = "idle" THEN 0 ELSE age'[g]]
          = [g \in Fetches |-> IF fpc[g][p] = "idle" THEN 0 ELSE age[g]]
    BY <1>1, <1>2, <1>3, <1>4
  <2>. DEFINE maxAge == EffectiveAge(age[f])
  <2>3. maxAge = Cache(p)!EffectiveAge([g \in Fetches |-> IF fpc[g][p] = "idle" THEN 0 ELSE age[g]][f])
    BY <1>1, <1>4 DEF EffectiveAge, Cache!EffectiveAge
  <2>4. verdict = IF \E n \in 1..NS[p] : got[f][p][n] = NoRow THEN "missing"
           ELSE IF \E n \in 1..NS[p] : got[f][p][n] = ReadError THEN "error"
           ELSE IF maxAge > 0 /\ \E n \in 1..NS[p] :
                     now - [s \in Syncs |-> stamp[s][p]][got[f][p][n]] > maxAge THEN "expired"
           ELSE "accepted"
    BY <1>4, MapVerdict DEF verdict, GotTyped
  <2>. HIDE DEF maxAge
  <2>. QED
    BY <1>1, <1>4, <2>1, <2>2, <2>3, <2>4
       DEF Cache!Decide, Cache!Expired, Cache!Namespaces, Cache!syncVars, syncVars
<1>5. CASE b # p
  BY <1>1, <1>3, <1>5 DEF syncVars, Cache!vars, Cache!syncVars, Cache!fetchVars
<1>. QED
  BY <1>4, <1>5

\* The flags of a run are given while Cache(p) still shows age 0 for it.
LEMMA MapBeginPositions ==
  ASSUME DOMAIN age = Fetches, Flags, NEW f \in Fetches, BeginPositions(f), NEW p \in Protocols
  PROVE  UNCHANGED Cache(p)!vars
<1>1. UNCHANGED <<now, syncVars, fetchVars, race>>
  BY DEF BeginPositions
<1>2. pc[f] = "idle" /\ \A g \in Fetches \ {f} : age'[g] = age[g]
  BY DEF BeginPositions, Begin
<1>3. fpc[f][p] = "idle"
  BY <1>2 DEF Flags
<1>4. [g \in Fetches |-> IF fpc'[g][p] = "idle" THEN 0 ELSE age'[g]]
        = [g \in Fetches |-> IF fpc[g][p] = "idle" THEN 0 ELSE age[g]]
  BY <1>1, <1>2, <1>3 DEF fetchVars
<1>. QED
  BY <1>1, <1>4 DEF syncVars, fetchVars, Cache!vars, Cache!syncVars, Cache!fetchVars

\* The refinement: initial states, and all steps.
LEMMA InitCache ==
  ASSUME Init, NEW p \in Protocols
  PROVE  Cache(p)!Init
  BY CommandsAssumption DEF Init, Each, Cache!Init, Cache!Namespaces

\* Every step of the commands is one of the cache of p, or nothing to it.
LEMMA StepCache ==
  ASSUME Framed, [Next]_vars, NEW p \in Checked
  PROVE  [Cache(p)!Next]_(Cache(p)!vars)
<1>. USE DEF Framed, Shape
<1>. p \in Protocols
  BY DEF Checked
<1>1. CASE Tick
  <2>1. Cache(p)!Tick
    BY <1>1 DEF Tick, syncVars, fetchVars, requestVars, Cache!Tick, Cache!syncVars, Cache!fetchVars
  <2>. QED
    BY <2>1 DEF Cache!Next
<1>2. CASE UNCHANGED <<now, syncVars, fetchVars, race, age>>
  BY <1>2 DEF syncVars, fetchVars, Cache!vars, Cache!syncVars, Cache!fetchVars
<1>3. ASSUME NEW s \in Syncs, BeginSync(s) \/ SyncStep(s)
      PROVE  [Cache(p)!Next]_(Cache(p)!vars)
  <2>1. CASE BeginSync(s) \/ Inspect(s)
    BY <1>2, <2>1 DEF BeginSync, Inspect, requestVars
  <2>2. CASE Discover(s) \/ Stamp(s) \/ Set(s) \/ SyncFails(s)
    <3>1. \/ Cache(p)!Discover(s) \/ Cache(p)!Stamp(s) \/ Cache(p)!Set(s) \/ Cache(p)!SyncFails(s)
          \/ UNCHANGED Cache(p)!vars
      BY <2>2, MapDiscover, MapStamp, MapSet, MapSyncFails
    <3>. QED
      BY <3>1 DEF Cache!Next
  <2>. QED
    BY <1>3, <2>1, <2>2 DEF SyncStep
<1>4. ASSUME NEW f \in Fetches, BeginPositions(f) \/ FetchStep(f)
      PROVE  [Cache(p)!Next]_(Cache(p)!vars)
  <2>1. CASE Inspect(f) \/ AppendPositions(f) \/ ChainFails(f)
    BY <1>2, <2>1 DEF Inspect, AppendPositions, ChainFails, requestVars
  <2>2. CASE BeginPositions(f)
    BY <2>2, MapBeginPositions
  <2>3. CASE StartFetch(f) \/ Get(f) \/ Decide(f)
    <3>1. \/ Cache(p)!StartFetch(f) \/ Cache(p)!Get(f) \/ Cache(p)!Decide(f)
          \/ UNCHANGED Cache(p)!vars
      BY <2>3, MapStartFetch, MapGet, MapDecide
    <3>. QED
      BY <3>1 DEF Cache!Next
  <2>. QED
    BY <1>4, <2>1, <2>2, <2>3 DEF FetchStep
<1>5. CASE UNCHANGED vars
  BY <1>2, <1>5 DEF vars, requestVars
<1>. QED
  BY <1>1, <1>3, <1>4, <1>5 DEF Next

\* In every behaviour the variables keep the shape the refinement needs.
THEOREM FramedHolds == Spec => []Framed
<1>1. Init => Framed
  BY InitFramed
<1>2. Framed /\ [Next]_vars => Framed'
  BY StepGrids, StepRows, StepGot, StepFlags DEF Framed, Shape
<1>. QED
  BY <1>1, <1>2, PTL DEF Spec

\* However many commands there are, over however many protocols with however
\* many namespaces, each protocol that checks its metadata has the cache
\* MetadataCache describes.  (SyncMetadata and FetchPositions, which work on
\* one protocol at a time over the store that all share.)
THEOREM CachePerProtocolHolds == Spec => CachePerProtocol
<1>1. Init => \A p \in Checked : Cache(p)!Init
  BY InitCache DEF Checked
<1>2. Framed /\ [Next]_vars => \A p \in Checked : [Cache(p)!Next]_(Cache(p)!vars)
  BY StepCache
<1>3. Spec => []Framed
  BY FramedHolds
<1>. QED
  BY <1>1, <1>2, <1>3, PTL DEF Spec, CachePerProtocol

\* What MetadataCache assumes of its constants is so of every protocol's.
LEMMA CacheAssumed ==
  ASSUME NEW p \in Protocols
  PROVE  Cache(p)!CacheAssumption
  BY CommandsAssumption DEF Cache!CacheAssumption

-----------------------------------------------------------------------------
(* A report is never partial.  What is accepted stays what it was: the rows *)
(* a run of positions got are of runs that had stamped them, and such a run *)
(* never stamps again.                                                      *)

Stamped == {"write", "done", "failed"}

Kept == DOMAIN want = Runs /\ DOMAIN began = Fetches /\ DOMAIN report = Fetches

Clock ==
  /\ now \in Nat
  /\ \A f \in Fetches : began[f] \in Nat /\ began[f] <= now
  /\ \A s \in Syncs, p \in Protocols : stamp[s][p] \in Nat

\* A row is there only after its run has stamped it.
Backed ==
  \A p \in Protocols : \A n \in 1..NS[p] :
    /\ rows[p][n] \in Syncs => spc[rows[p][n]][p] \in Stamped
    /\ \A f \in Fetches : got[f][p][n] \in Syncs => spc[got[f][p][n]][p] \in Stamped

Resolved ==
  \A f \in Fetches :
    /\ want[f] \subseteq Protocols
    /\ pc[f] \notin {"idle", "failed"} => want[f] # {}

\* What f got of p suffices.
Fit(f, p) ==
  \A n \in 1..NS[p] :
    LET row == got[f][p][n]
        maxAge == EffectiveAge(age[f])
    IN row \in Syncs /\ (maxAge > 0 => began[f] - stamp[row][p] <= maxAge)

Accepted == \A f \in Fetches, p \in Checked : fpc[f][p] = "accepted" => Fit(f, p)

Appended ==
  \A f \in Fetches :
    /\ \A p \in report[f] \cap Protocols : fpc[f][p] = "accepted"
    /\ pc[f] = "done" => report[f] = want[f]

WholeInv == Framed /\ Kept /\ Clock /\ Backed /\ Resolved /\ Accepted /\ Appended

\* No command has begun.
LEMMA InitWhole == Init => WholeInv
<1> SUFFICES ASSUME Init PROVE WholeInv
  OBVIOUS
<1>1. Framed
  BY InitFramed
<1>2. Kept /\ Resolved
  BY DEF Init, Kept, Resolved, Runs
<1>3. Clock
  BY DEF Init, Clock, Each
<1>4. Backed
  BY CommandsAssumption DEF Init, Backed
<1>5. Accepted /\ Appended
  BY DEF Init, Accepted, Appended, Each, Runs, Checked
<1>. QED
  BY <1>1, <1>2, <1>3, <1>4, <1>5 DEF WholeInv

\* A run that has stamped stays so and keeps its stamp.
LEMMA StepStamped ==
  ASSUME Grids, [Next]_vars, NEW s \in Syncs, NEW p \in Protocols
  PROVE  /\ spc[s][p] \in Stamped => spc'[s][p] \in Stamped /\ stamp'[s][p] = stamp[s][p]
         /\ stamp'[s][p] \in {stamp[s][p], now}
<1>. USE DEF Stamped
<1>1. CASE UNCHANGED <<spc, stamp>>
  BY <1>1
<1>2. ASSUME NEW t \in Syncs, Discover(t)
      PROVE  /\ stamp'[s][p] = stamp[s][p]
             /\ spc[s][p] \in Stamped => spc'[s][p] \in Stamped
  BY <1>2 DEF Discover, Grids, IsGrid
<1>3. ASSUME NEW t \in Syncs, Stamp(t)
      PROVE  /\ spc[s][p] \in Stamped => spc'[s][p] \in Stamped /\ stamp'[s][p] = stamp[s][p]
             /\ stamp'[s][p] \in {stamp[s][p], now}
  <2>. DEFINE b == Syncing(t)
  <2>1. /\ spc[t][b] = "discover"
        /\ spc' = [spc EXCEPT ![t][b] = "write"]
        /\ stamp' = [stamp EXCEPT ![t][b] = now]
    BY <1>3 DEF Stamp
  <2>. HIDE DEF b
  <2>2. spc'[s][p] = IF s = t /\ b = p THEN "write" ELSE spc[s][p]
    BY <2>1 DEF Grids, IsGrid
  <2>3. stamp'[s][p] = IF s = t /\ b = p THEN now ELSE stamp[s][p]
    BY <2>1 DEF Grids, IsGrid
  <2>. QED
    BY <2>1, <2>2, <2>3
<1>4. ASSUME NEW t \in Syncs, Set(t)
      PROVE  /\ stamp'[s][p] = stamp[s][p]
             /\ spc[s][p] \in Stamped => spc'[s][p] \in Stamped
  <2>. DEFINE b == Syncing(t)
              end == IF next[t][b] = NS[b] THEN "done" ELSE "write"
  <2>1. spc' = [spc EXCEPT ![t][b] = end] /\ stamp' = stamp
    BY <1>4 DEF Set, Grids, IsGrid
  <2>2. end \in Stamped
    OBVIOUS
  <2>. HIDE DEF b, end
  <2>3. spc'[s][p] = IF s = t /\ b = p THEN end ELSE spc[s][p]
    BY <2>1 DEF Grids, IsGrid
  <2>. QED
    BY <2>1, <2>2, <2>3
<1>5. ASSUME NEW t \in Syncs, SyncFails(t)
      PROVE  /\ stamp'[s][p] = stamp[s][p]
             /\ spc[s][p] \in Stamped => spc'[s][p] \in Stamped
  BY <1>5 DEF SyncFails, Grids, IsGrid
<1>. QED
  BY <1>1, <1>2, <1>3, <1>4, <1>5
     DEF Next, SyncStep, FetchStep, Tick, BeginSync, BeginPositions, Inspect, StartFetch, Get,
         Decide, AppendPositions, ChainFails, vars, syncVars

\* A Set puts there the row of a run that writes; a Get returns what is there.
LEMMA StepRow ==
  ASSUME Grids, RowsTyped, [Next]_vars, NEW p \in Protocols, NEW n \in 1..NS[p]
  PROVE  rows'[p][n] = rows[p][n] \/ spc[rows'[p][n]][p] = "write"
<1>1. CASE UNCHANGED rows
  BY <1>1
<1>2. ASSUME NEW s \in Syncs, Set(s)
      PROVE  rows'[p][n] = rows[p][n] \/ spc[rows'[p][n]][p] = "write"
  <2>. DEFINE b == Syncing(s)
  <2>1. rows' = [rows EXCEPT ![b][next[s][b]] = s] /\ spc[s][b] = "write"
    BY <1>2 DEF Set
  <2>. HIDE DEF b
  <2>2. CASE b = p
    <3>1. rows'[p] = [rows[p] EXCEPT ![next[s][p]] = s]
      BY <2>1, <2>2 DEF Grids
    <3>2. rows'[p][n] = s \/ rows'[p][n] = rows[p][n]
      BY <3>1 DEF RowsTyped
    <3>. QED
      BY <2>1, <2>2, <3>2
  <2>3. CASE b # p
    BY <2>1, <2>3 DEF Grids
  <2>. QED
    BY <2>2, <2>3
<1>. QED
  BY <1>1, <1>2
     DEF Next, SyncStep, FetchStep, Tick, BeginSync, BeginPositions, Inspect, AppendPositions,
         ChainFails, Discover, Stamp, SyncFails, StartFetch, Get, Decide, vars, syncVars

\* A Get returns what is there or an error, and no other step touches what was got.
LEMMA StepGet ==
  ASSUME Grids, GotTyped, [Next]_vars, NEW f \in Fetches, NEW p \in Protocols
  PROVE  /\ \A n \in 1..NS[p] : got'[f][p][n] \in {got[f][p][n], rows[p][n], ReadError}
         /\ fpc[f][p] # "read" => got'[f][p] = got[f][p]
<1>1. CASE UNCHANGED got
  BY <1>1
<1>2. ASSUME NEW g \in Fetches, Get(g)
      PROVE  /\ \A n \in 1..NS[p] : got'[f][p][n] \in {got[f][p][n], rows[p][n], ReadError}
             /\ fpc[f][p] # "read" => got'[f][p] = got[f][p]
  <2>. DEFINE b == Fetching(g)
              m == gnext[g][b]
  <2>1. fpc[g][b] = "read"
    BY <1>2 DEF Get
  <2>2. PICK x \in {rows[b][m], ReadError} : got' = [got EXCEPT ![g][b][m] = x]
    BY <1>2 DEF Get
  <2>. HIDE DEF b, m
  <2>3. CASE f = g /\ b = p
    <3>1. got'[f][p] = [got[f][p] EXCEPT ![m] = x]
      BY <2>2, <2>3 DEF Grids, IsGrid
    <3>2. \A n \in 1..NS[p] : got'[f][p][n] = IF n = m THEN x ELSE got[f][p][n]
      BY <3>1 DEF GotTyped, Results
    <3>. QED
      BY <2>1, <2>2, <2>3, <3>2
  <2>4. CASE ~(f = g /\ b = p)
    BY <2>2, <2>4 DEF Grids, IsGrid
  <2>. QED
    BY <2>3, <2>4
<1>. QED
  BY <1>1, <1>2
     DEF Next, SyncStep, FetchStep, Tick, BeginSync, BeginPositions, Inspect, AppendPositions,
         ChainFails, Discover, Stamp, Set, SyncFails, StartFetch, Decide, vars, fetchVars

\* A verdict stands; a protocol is accepted by Decide only.
LEMMA StepAccepted ==
  ASSUME Grids, [Next]_vars, NEW f \in Fetches, NEW p \in Protocols
  PROVE  /\ fpc[f][p] = "accepted" => fpc'[f][p] = "accepted"
         /\ fpc'[f][p] = "accepted" =>
              \/ fpc[f][p] = "accepted"
              \/ /\ pc[f] = "fetch" /\ fpc[f][p] = "read" /\ gnext[f][p] = NS[p] + 1
                 /\ Verdict(f, p) = "accepted"
                 /\ UNCHANGED <<now, requestVars, syncVars, got>>
<1>1. CASE UNCHANGED fpc
  BY <1>1
<1>2. ASSUME NEW g \in Fetches, StartFetch(g)
      PROVE  (fpc[f][p] = "accepted") <=> (fpc'[f][p] = "accepted")
  BY <1>2 DEF StartFetch, Grids, IsGrid
<1>3. ASSUME NEW g \in Fetches, Decide(g)
      PROVE  /\ fpc[f][p] = "accepted" => fpc'[f][p] = "accepted"
             /\ fpc'[f][p] = "accepted" =>
                  \/ fpc[f][p] = "accepted"
                  \/ /\ pc[f] = "fetch" /\ fpc[f][p] = "read" /\ gnext[f][p] = NS[p] + 1
                     /\ Verdict(f, p) = "accepted"
                     /\ UNCHANGED <<now, requestVars, syncVars, got>>
  <2>. DEFINE b == Fetching(g)
              verdict == Verdict(g, b)
  <2>1. /\ pc[g] = "fetch" /\ fpc[g][b] = "read" /\ gnext[g][b] = NS[b] + 1
        /\ fpc' = [fpc EXCEPT ![g][b] = verdict]
        /\ UNCHANGED <<now, requestVars, syncVars, got>>
    BY <1>3 DEF Decide
  <2>. HIDE DEF b, verdict
  <2>2. fpc'[f][p] = IF f = g /\ b = p THEN verdict ELSE fpc[f][p]
    BY <2>1 DEF Grids, IsGrid
  <2>. QED
    BY <2>1, <2>2 DEF verdict
<1>. QED
  BY <1>1, <1>2, <1>3
     DEF Next, SyncStep, FetchStep, Tick, BeginSync, BeginPositions, Inspect, AppendPositions,
         ChainFails, Discover, Stamp, Set, SyncFails, Get, vars, fetchVars

\* The terms of the commands stay functions of them.
LEMMA StepKept ==
  ASSUME Kept, [Next]_vars
  PROVE  Kept'
<1>. USE DEF Kept
<1>1. CASE UNCHANGED <<requestVars, report>>
  BY <1>1 DEF requestVars
<1>2. ASSUME NEW c \in Runs, NEW request, Begin(c, request)
      PROVE  DOMAIN want' = Runs
  BY <1>2 DEF Begin
<1>3. ASSUME NEW s \in Syncs, BeginSync(s) PROVE Kept'
  BY <1>2, <1>3 DEF BeginSync, Runs
<1>4. ASSUME NEW f \in Fetches, BeginPositions(f) PROVE Kept'
  BY <1>2, <1>4 DEF BeginPositions, Runs
<1>5. ASSUME NEW f \in Fetches, AppendPositions(f) PROVE Kept'
  BY <1>5 DEF AppendPositions, requestVars
<1>. QED
  BY <1>1, <1>3, <1>4, <1>5
     DEF Next, SyncStep, FetchStep, Tick, Inspect, Discover, Stamp, Set, SyncFails,
         StartFetch, Get, Decide, ChainFails, vars, requestVars

\* The terms of a command are set when it begins.
LEMMA StepTerms ==
  ASSUME Shape, Kept, [Next]_vars, NEW f \in Fetches
  PROVE  /\ pc[f] # "idle" => UNCHANGED <<want[f], age[f], began[f]>>
         /\ began'[f] \in {began[f], now}
         /\ want[f] \subseteq Protocols => want'[f] \subseteq Protocols
<1>. USE DEF Kept, Shape
<1>1. CASE UNCHANGED requestVars
  BY <1>1 DEF requestVars
<1>2. ASSUME NEW s \in Syncs, BeginSync(s)
      PROVE  UNCHANGED <<want[f], age, began>>
  <2>1. PICK request \in Requests[s] : Begin(s, request)
    BY <1>2 DEF BeginSync
  <2>2. UNCHANGED <<age, began>>
    BY <1>2 DEF BeginSync
  <2>3. s # f /\ f \in Runs
    BY CommandsAssumption DEF Runs
  <2>4. CASE want' = [want EXCEPT ![s] = Resolve(request)]
    BY <2>2, <2>3, <2>4
  <2>5. CASE want' = want
    BY <2>2, <2>5
  <2>. QED
    BY <2>1, <2>4, <2>5 DEF Begin
<1>3. ASSUME NEW g \in Fetches, BeginPositions(g)
      PROVE  /\ pc[f] # "idle" => UNCHANGED <<want[f], age[f], began[f]>>
             /\ began'[f] \in {began[f], now}
             /\ want[f] \subseteq Protocols => want'[f] \subseteq Protocols
  <2>1. PICK request \in Requests[g] : Begin(g, request)
    BY <1>3 DEF BeginPositions
  <2>2. pc[g] = "idle"
    BY <2>1 DEF Begin
  <2>3. /\ began' = [began EXCEPT ![g] = now]
        /\ \A c \in Fetches \ {g} : age'[c] = age[c]
    BY <1>3 DEF BeginPositions
  <2>4. f \in Runs
    BY DEF Runs
  <2>5. CASE Known(request) /\ want' = [want EXCEPT ![g] = Resolve(request)]
    <3>1. Resolve(request) \subseteq Protocols
      BY <2>5 DEF Known, Resolve
    <3>. QED
      BY <2>2, <2>3, <2>4, <2>5, <3>1
  <2>6. CASE want' = want
    BY <2>2, <2>3, <2>6
  <2>. QED
    BY <2>1, <2>5, <2>6 DEF Begin
<1>. QED
  BY <1>1, <1>2, <1>3
     DEF Next, SyncStep, FetchStep, Tick, Inspect, Discover, Stamp, Set, SyncFails,
         StartFetch, Get, Decide, AppendPositions, ChainFails, vars, requestVars

\* Nothing is stamped or begun in the future.
LEMMA StepClock ==
  ASSUME Shape, Kept, Clock, [Next]_vars
  PROVE  Clock' /\ now' >= now
<1>1. now' \in Nat /\ now' >= now
  <2>1. CASE Tick
    BY <2>1, CommandsAssumption DEF Tick, Clock
  <2>2. CASE now' = now
    BY <2>2 DEF Clock
  <2>. QED
    BY <2>1, <2>2
       DEF Next, SyncStep, FetchStep, BeginSync, BeginPositions, Inspect, Discover, Stamp, Set,
           SyncFails, StartFetch, Get, Decide, AppendPositions, ChainFails, vars
<1>2. \A f \in Fetches : began'[f] \in {began[f], now}
  BY StepTerms
<1>3. \A s \in Syncs, p \in Protocols : stamp'[s][p] \in {stamp[s][p], now}
  BY StepStamped DEF Shape
<1>. QED
  BY <1>1, <1>2, <1>3 DEF Clock

\* Whoever sets a row has stamped it, and whoever is got has set one.
LEMMA StepBacked ==
  ASSUME Framed, Backed, [Next]_vars
  PROVE  Backed'
<1> SUFFICES ASSUME NEW p \in Protocols, NEW n \in 1..NS[p]
             PROVE  /\ rows'[p][n] \in Syncs => spc'[rows'[p][n]][p] \in Stamped
                    /\ \A f \in Fetches :
                         got'[f][p][n] \in Syncs => spc'[got'[f][p][n]][p] \in Stamped
  BY DEF Backed
<1>. USE DEF Framed, Shape
<1>1. \A s \in Syncs : spc[s][p] \in Stamped => spc'[s][p] \in Stamped
  BY StepStamped
<1>2. rows'[p][n] \in Syncs => spc[rows'[p][n]][p] \in Stamped
  BY StepRow DEF Backed, Stamped
<1>3. ASSUME NEW f \in Fetches, got'[f][p][n] \in Syncs
      PROVE  spc[got'[f][p][n]][p] \in Stamped
  <2>1. got'[f][p][n] \in {got[f][p][n], rows[p][n], ReadError}
    BY StepGet
  <2>. QED
    BY <1>3, <2>1, CommandsAssumption DEF Backed
<1>. QED
  BY <1>1, <1>2, <1>3

\* The stage of a run of positions is its own.
LEMMA StepStage ==
  ASSUME Shape, [Next]_vars, NEW f \in Fetches
  PROVE  pc'[f] = pc[f] \/ BeginPositions(f) \/ FetchStep(f)
<1>. USE DEF Shape
<1>. f \in Runs /\ f \notin Syncs
  BY CommandsAssumption DEF Runs
<1>1. ASSUME NEW s \in Syncs, BeginSync(s) \/ SyncStep(s)
      PROVE  pc'[f] = pc[f]
  <2>1. CASE BeginSync(s)
    BY <2>1 DEF BeginSync, Begin, Fail
  <2>2. CASE Discover(s) \/ Stamp(s)
    BY <2>2 DEF Discover, Stamp
  <2>3. CASE Set(s)
    BY <2>3 DEF Set
  <2>4. CASE SyncFails(s)
    BY <2>4 DEF SyncFails, Fail
  <2>5. CASE Inspect(s)
    BY <2>5 DEF Inspect
  <2>. QED
    BY <1>1, <2>1, <2>2, <2>3, <2>4, <2>5 DEF SyncStep
<1>2. ASSUME NEW g \in Fetches \ {f}, BeginPositions(g) \/ FetchStep(g)
      PROVE  pc'[f] = pc[f]
  <2>1. CASE BeginPositions(g)
    BY <2>1 DEF BeginPositions, Begin, Fail
  <2>2. CASE Inspect(g)
    BY <2>2 DEF Inspect
  <2>3. CASE StartFetch(g)
    BY <2>3 DEF StartFetch, Fail
  <2>4. CASE Get(g)
    BY <2>4 DEF Get
  <2>5. CASE Decide(g)
    BY <2>5 DEF Decide, Fail
  <2>6. CASE AppendPositions(g)
    BY <2>6 DEF AppendPositions
  <2>7. CASE ChainFails(g)
    BY <2>7 DEF ChainFails, Fail
  <2>. QED
    BY <1>2, <2>1, <2>2, <2>3, <2>4, <2>5, <2>6, <2>7 DEF FetchStep
<1>3. CASE Tick \/ UNCHANGED vars
  BY <1>3 DEF Tick, vars
<1>. QED
  BY <1>1, <1>2, <1>3 DEF Next

\* A command that goes on was asked for some protocol, and for none that is unknown.
LEMMA StepResolved ==
  ASSUME Shape, Kept, Resolved, [Next]_vars
  PROVE  Resolved'
<1> SUFFICES ASSUME NEW f \in Fetches, pc'[f] \notin {"idle", "failed"}
             PROVE  want'[f] # {}
  BY StepTerms DEF Resolved
<1>. USE DEF Shape, Kept
<1>. f \in Runs /\ f \notin Syncs
  BY CommandsAssumption DEF Runs
<1>1. CASE pc[f] \notin {"idle", "failed"}
  BY <1>1, StepTerms DEF Resolved
<1>2. CASE pc[f] \in {"idle", "failed"}
  <2>1. BeginPositions(f)
    <3>1. ~FetchStep(f)
      BY <1>2 DEF FetchStep, Inspect, StartFetch, Get, Decide, AppendPositions, ChainFails
    <3>2. pc'[f] # pc[f]
      BY <1>2
    <3>. QED
      BY <3>1, <3>2, StepStage
  <2>2. PICK request \in Requests[f] : Begin(f, request)
    BY <2>1 DEF BeginPositions
  <2>3. Known(request)
    BY <2>2 DEF Begin, Fail
  <2>4. Resolve(request) # {}
    BY CommandsAssumption DEF Resolve
  <2>5. want'[f] = Resolve(request)
    BY <2>2, <2>3 DEF Begin
  <2>. QED
    BY <2>4, <2>5
<1>. QED
  BY <1>1, <1>2

\* A run of positions is done when it has appended its last protocol.
LEMMA StepDone ==
  ASSUME Shape, Kept, [Next]_vars, NEW f \in Fetches
  PROVE  /\ \A p \in report'[f] : p \in report[f] \/ fpc[f][p] = "accepted"
         /\ pc'[f] = "done" => \/ pc[f] = "done" /\ UNCHANGED report[f]
                               \/ UNCHANGED want[f] /\ report'[f] = want[f]
<1>. USE DEF Shape, Kept
<1>. f \in Runs /\ f \notin Syncs
  BY CommandsAssumption DEF Runs
<1>1. CASE AppendPositions(f)
  <2>. DEFINE b == Fetching(f)
  <2>1. /\ pc[f] = "fetch" /\ fpc[f][b] = "accepted"
        /\ report' = [report EXCEPT ![f] = @ \cup {b}]
        /\ pc' = [pc EXCEPT ![f] = IF report'[f] = want[f] THEN "done" ELSE @]
        /\ want' = want
    BY <1>1 DEF AppendPositions, requestVars
  <2>. HIDE DEF b
  <2>. QED
    BY <2>1
<1>2. CASE ~AppendPositions(f)
  <2>1. report'[f] = report[f]
    <3>1. ASSUME NEW g \in Fetches \ {f}, AppendPositions(g)
          PROVE  report'[f] = report[f]
      BY <3>1 DEF AppendPositions
    <3>. QED
      BY <1>2, <3>1
         DEF Next, SyncStep, FetchStep, Tick, BeginSync, BeginPositions, Inspect, Discover, Stamp,
             Set, SyncFails, StartFetch, Get, Decide, ChainFails, vars
  <2>2. BeginPositions(f) => pc'[f] # "done"
    BY DEF BeginPositions, Begin, Fail
  <2>3. Inspect(f) => pc'[f] # "done"
    BY DEF Inspect
  <2>4. StartFetch(f) \/ Get(f) => pc'[f] # "done"
    BY DEF StartFetch, Get, Fail
  <2>5. Decide(f) \/ ChainFails(f) => pc'[f] # "done"
    BY DEF Decide, ChainFails, Fail
  <2>. QED
    BY <1>2, <2>1, <2>2, <2>3, <2>4, <2>5, StepStage DEF FetchStep
<1>. QED
  BY <1>1, <1>2

\* Only what is accepted is appended, and a command is done when that is all.
LEMMA StepAppended ==
  ASSUME Framed, Kept, Appended, [Next]_vars
  PROVE  Appended'
<1> SUFFICES ASSUME NEW f \in Fetches
             PROVE  /\ \A p \in report'[f] \cap Protocols : fpc'[f][p] = "accepted"
                    /\ pc'[f] = "done" => report'[f] = want'[f]
  BY DEF Appended
<1>. USE DEF Framed, Shape
<1>1. ASSUME NEW p \in report'[f] \cap Protocols PROVE fpc'[f][p] = "accepted"
  <2>1. fpc[f][p] = "accepted"
    BY StepDone DEF Appended
  <2>. QED
    BY <2>1, StepAccepted
<1>2. ASSUME pc'[f] = "done" PROVE report'[f] = want'[f]
  <2>1. pc[f] = "done" => UNCHANGED want[f]
    BY StepTerms
  <2>. QED
    BY <1>2, <2>1, StepDone DEF Appended
<1>. QED
  BY <1>1, <1>2

\* What sufficed when it was accepted still does: rows got, stamps and terms stay.
LEMMA StepFit ==
  ASSUME Framed, Kept, Clock, Backed, Accepted, [Next]_vars
  PROVE  Accepted'
<1> SUFFICES ASSUME NEW f \in Fetches, NEW p \in Checked, fpc'[f][p] = "accepted",
                    NEW n \in 1..NS[p]
             PROVE  /\ got'[f][p][n] \in Syncs
                    /\ EffectiveAge(age'[f]) > 0 =>
                         began'[f] - stamp'[got'[f][p][n]][p] <= EffectiveAge(age'[f])
  BY DEF Accepted, Fit, EffectiveAge
<1>. USE DEF Framed, Shape
<1>. p \in Protocols
  BY DEF Checked
<1>. DEFINE row == got[f][p][n]
            maxAge == EffectiveAge(age[f])
<1>1. CASE fpc[f][p] = "accepted"
  <2>1. row \in Syncs /\ (maxAge > 0 => began[f] - stamp[row][p] <= maxAge)
    BY <1>1 DEF Accepted, Fit
  <2>2. UNCHANGED <<got[f][p], age[f], began[f]>>
    <3>1. pc[f] # "idle"
      BY <1>1 DEF Flags
    <3>. QED
      BY <1>1, <3>1, StepGet, StepTerms
  <2>3. stamp'[row][p] = stamp[row][p]
    BY <2>1, StepStamped DEF Backed
  <2>. QED
    BY <2>1, <2>2, <2>3 DEF EffectiveAge
<1>2. CASE fpc[f][p] # "accepted"
  <2>1. /\ pc[f] = "fetch" /\ Verdict(f, p) = "accepted"
        /\ UNCHANGED <<now, age, began, stamp, got>>
    BY <1>2, StepAccepted DEF requestVars, syncVars
  <2>2. maxAge \in Int
    <3>1. age[f] \in Int
      BY <2>1, CommandsAssumption DEF Flags
    <3>2. DefaultAge \in Int
      BY CommandsAssumption
    <3>. QED
      BY <3>1, <3>2 DEF EffectiveAge
  <2>3. row \in Syncs /\ (maxAge > 0 => now - stamp[row][p] <= maxAge)
    <3>1. row \notin {NoRow, ReadError}
      BY <2>1, CommandsAssumption DEF Verdict
    <3>2. row \in Syncs
      BY <3>1 DEF GotTyped, Results
    <3>3. maxAge > 0 => ~(now - stamp[row][p] > maxAge)
      BY <2>1 DEF Verdict, Older
    <3>4. now \in Int /\ stamp[row][p] \in Int
      BY <3>2 DEF Clock
    <3>. QED
      BY <2>2, <3>2, <3>3, <3>4
  <2>4. EffectiveAge(age'[f]) = maxAge /\ began'[f] = began[f]
    BY <2>1 DEF EffectiveAge
  <2>. HIDE DEF maxAge
  <2>5. maxAge > 0 => began[f] - stamp[row][p] <= maxAge
    BY <2>2, <2>3 DEF Clock
  <2>. QED
    BY <2>1, <2>3, <2>4, <2>5
<1>. QED
  BY <1>1, <1>2

\* The inductive invariant of a whole report.
THEOREM WholeInvHolds == Spec => []WholeInv
<1>1. Init => WholeInv
  BY InitWhole
<1>2. WholeInv /\ [Next]_vars => WholeInv'
  <2> SUFFICES ASSUME WholeInv, [Next]_vars PROVE WholeInv'
    OBVIOUS
  <2>. USE DEF WholeInv
  <2>1. Framed'
    BY StepGrids, StepRows, StepGot, StepFlags DEF Framed, Shape
  <2>2. Kept'
    BY StepKept DEF Framed
  <2>3. Clock' /\ Backed' /\ Accepted'
    BY StepClock, StepBacked, StepFit DEF Framed
  <2>4. Resolved' /\ Appended'
    BY StepResolved, StepAppended DEF Framed
  <2>. QED
    BY <2>1, <2>2, <2>3, <2>4
<1>. QED
  BY <1>1, <1>2, PTL DEF Spec

\* A report that is printed is complete, whatever the protocols, the number of
\* their namespaces, the other commands and the failures: it has the positions
\* of every protocol asked for, each from rows that were all there and not too
\* old when the command began.  (FetchPositions and loadMetadata.)
THEOREM ReportIsWholeHolds == Spec => []ReportIsWhole
<1>1. WholeInv => ReportIsWhole
  <2> SUFFICES ASSUME WholeInv, NEW f \in Fetches, pc[f] = "done"
               PROVE  /\ report[f] = want[f]
                      /\ want[f] # {}
                      /\ \A p \in want[f] \cap Checked : Fit(f, p)
    BY DEF ReportIsWhole, Fit
  <2>1. report[f] = want[f] /\ want[f] # {}
    BY DEF WholeInv, Appended, Resolved
  <2>2. ASSUME NEW p \in want[f] \cap Checked PROVE Fit(f, p)
    BY <2>1, <2>2 DEF WholeInv, Appended, Accepted, Checked
  <2>. QED
    BY <2>1, <2>2
<1>. QED
  BY <1>1, WholeInvHolds, PTL

-----------------------------------------------------------------------------
(* Least elements: what comes first among some protocols. *)

\* A set of natural numbers has a least element.
LEMMA LeastNat ==
  ASSUME NEW T, T \subseteq Nat, T # {}
  PROVE  \E x \in T : \A y \in T : x <= y
<1> DEFINE F == {0..n : n \in T}
<1>1. \A n \in T : n \in Nat /\ 0..n \in FiniteSubsetsOf(Nat)
  BY FS_Interval, SMT DEF FiniteSubsetsOf
<1>2. F \subseteq FiniteSubsetsOf(Nat) /\ F # {}
  BY <1>1
<1>3. \E X \in F : \A Y \in F : ~ (<<Y, X>> \in StrictSubsetOrdering(Nat))
  BY <1>2, WFMin, FS_StrictSubsetOrderingWellFounded
<1>4. PICK n \in T : \A m \in T : ~ (<<0..m, 0..n>> \in StrictSubsetOrdering(Nat))
  BY <1>3
<1>5. ASSUME NEW m \in T, m < n
      PROVE  FALSE
  <2>1. 0..m \subseteq 0..n /\ 0..m # 0..n /\ 0..m \subseteq Nat /\ 0..n \subseteq Nat
    BY <1>5
  <2>2. <<0..m, 0..n>> \in StrictSubsetOrdering(Nat)
    BY <2>1 DEF StrictSubsetOrdering
  <2>. QED
    BY <2>2, <1>4
<1>. QED
  BY <1>5

\* The first of some protocols is one of them, and none comes before it.
LEMMA FirstFacts ==
  ASSUME NEW S \in SUBSET Protocols, S # {}
  PROVE  First(S) \in S /\ \A q \in S : First(S) <= q
<1>1. \E p \in S : \A q \in S : p <= q
  BY LeastNat, CommandsAssumption
<1>. QED
  BY <1>1 DEF First

-----------------------------------------------------------------------------
(* The order of things.  A sync goes through the protocols it was asked for *)
(* one after the other, and through the namespaces of each; an inspection   *)
(* does; and positions fetches what is left.                                *)

SyncsInOrder(s) ==
  /\ \A p \in Protocols : spc[s][p] # "idle" =>
       p \in want[s] /\ \A q \in want[s] : q < p => spc[s][q] = "done"
  /\ pc[s] = "idle" => \A p \in Protocols : spc[s][p] = "idle"
  /\ pc[s] = "sync" => \E p \in want[s] : spc[s][p] # "done"
  /\ pc[s] \in {"inspect", "done"} => \A p \in want[s] : spc[s][p] = "done"

SetsInOrder(s) ==
  \A p \in Protocols :
    /\ spc[s][p] \in {"idle", "discover"} => next[s][p] = 1
    /\ spc[s][p] = "write" => next[s][p] <= NS[p]
    /\ spc[s][p] = "done" => next[s][p] = NS[p] + 1

InspectsInOrder(c) ==
  /\ pc[c] \in {"idle", "sync"} => \A p \in Protocols : shown[c][p] = <<>>
  /\ pc[c] = "inspect" =>
       /\ \E p \in want[c] : Len(shown[c][p]) < NS[p]
       /\ \A p, q \in want[c] : q < p /\ shown[c][p] # <<>> => Len(shown[c][q]) = NS[q]
  /\ pc[c] \in {"fetch", "done"} => \A p \in want[c] : Len(shown[c][p]) = NS[p]

FetchesInOrder(f) ==
  /\ report[f] \subseteq want[f]
  /\ pc[f] \in {"idle", "inspect"} => report[f] = {} /\ \A p \in Protocols : fpc[f][p] = "idle"
  /\ pc[f] = "fetch" => report[f] # want[f]
  /\ \A p \in Protocols : fpc[f][p] = "idle" => gnext[f][p] = 1

SyncOrder == \A s \in Syncs : SyncsInOrder(s)
NextOrder == \A s \in Syncs : SetsInOrder(s)
InspectOrder == IsGrid(shown, Runs) /\ \A c \in Runs : InspectsInOrder(c)
FetchOrder == \A f \in Fetches : FetchesInOrder(f)

Ordered == SyncOrder /\ NextOrder /\ InspectOrder /\ FetchOrder

\* Nothing is stamped in the future, and what is not stamped is of the time zero.
Timely ==
  \A s \in Syncs, p \in Protocols :
    /\ stamp[s][p] <= now
    /\ spc[s][p] \in {"idle", "discover"} => stamp[s][p] = 0

\* A row of p as good as the one s has set, or is about to set: of a run that
\* stamped p when s had, or that writes p when s does.
AsGood(t, s, p) ==
  /\ t \in Syncs
  /\ stamp[t][p] >= stamp[s][p] \/ t \in clash[s][p]

Met == \A s, t \in Syncs, p \in Protocols : spc[t][p] = "write" => AsGood(t, s, p)

\* What s has set holds its own row or one as good, and while s runs its own or
\* that of a process that came in between.
Refreshed ==
  \A s \in Syncs, p \in Protocols : \A n \in 1..NS[p] :
    n < next[s][p] => AsGood(rows[p][n], s, p)

OwnRows ==
  \A s \in Syncs, p \in Protocols : \A n \in 1..NS[p] :
    pc[s] \in {"sync", "inspect"} /\ n < next[s][p] => rows[p][n] \in {s} \cup during[s][p]

OwnShown ==
  \A s \in Syncs, p \in Protocols : \A n \in 1..Len(shown[s][p]) :
    shown[s][p][n].row \in {s, ReadError} \cup during[s][p]

\* A row that is shown has been stamped, and one called stale is older than the
\* age that was given.
ShownBacked ==
  \A f \in Fetches, p \in Protocols : \A n \in 1..Len(shown[f][p]) :
    LET entry == shown[f][p][n]
    IN /\ entry.row \in Syncs => spc[entry.row][p] \in Stamped
       /\ entry.stale => entry.row \in Syncs /\ age[f] > 0 /\ Older(entry.row, p, age[f])

\* What has been shown is still so, or another process came in between; and so
\* it is with what has been got since.
StillShown ==
  \A f \in Fetches, p \in Protocols : \A n \in 1..Len(shown[f][p]) :
    LET entry == shown[f][p][n]
    IN pc[f] \in {"inspect", "fetch"} =>
         entry.row = ReadError \/ rows[p][n] \in {entry.row} \cup during[f][p]

GotShown ==
  \A f \in Fetches, p \in Protocols : \A n \in 1..Len(shown[f][p]) :
    LET entry == shown[f][p][n]
        used  == got[f][p][n]
    IN n < gnext[f][p] => {entry.row, used} \cap {ReadError} # {} \/ used \in {entry.row} \cup during[f][p]

Explained(f, p) ==
  \A n \in 1..NS[p] :
    LET entry == shown[f][p][n]
        used  == got[f][p][n]
    IN \/ used = entry.row /\ (p \in Checked => used # NoRow /\ ~entry.stale)
       \/ entry.row = ReadError
       \/ used \in during[f][p]

AcceptedExplained ==
  \A f \in Fetches : pc[f] \in {"fetch", "done"} =>
    \A p \in want[f] : fpc[f][p] = "accepted" => Explained(f, p)

-----------------------------------------------------------------------------
(* Whose turn it is. *)

\* The protocol s is syncing is the first it has not synced; it has begun none
\* after that.
LEMMA SyncTurn ==
  ASSUME TypeOK, SyncOrder, NEW s \in Syncs, pc[s] = "sync"
  PROVE  /\ Syncing(s) \in want[s] /\ Syncing(s) \in Protocols /\ Syncing(s) \in Nat
         /\ spc[s][Syncing(s)] # "done"
         /\ \A q \in want[s] : q < Syncing(s) => spc[s][q] = "done"
         /\ \A q \in Protocols : q > Syncing(s) => spc[s][q] = "idle"
<1>. DEFINE S == {p \in want[s] : spc[s][p] # "done"}
<1>1. want[s] \subseteq Protocols
  BY DEF TypeOK, Runs
<1>2. S \in SUBSET Protocols /\ S # {}
  BY <1>1 DEF SyncOrder, SyncsInOrder
<1>. HIDE DEF S
<1>3. First(S) \in S /\ \A q \in S : First(S) <= q
  BY <1>2, FirstFacts
<1>4. Syncing(s) = First(S)
  BY DEF Syncing, S
<1>5. \A q \in want[s] : q \in Nat /\ (q \in S \/ spc[s][q] = "done")
  BY <1>1, CommandsAssumption DEF S
<1>6. Syncing(s) \in want[s] /\ Syncing(s) \in Protocols /\ Syncing(s) \in Nat /\ spc[s][Syncing(s)] # "done"
  BY <1>1, <1>3, <1>4, CommandsAssumption DEF S
<1>7. \A q \in want[s] : q < Syncing(s) => spc[s][q] = "done"
  BY <1>3, <1>4, <1>5, <1>6
<1>8. \A q \in Protocols : q > Syncing(s) => spc[s][q] = "idle"
  BY <1>6 DEF SyncOrder, SyncsInOrder
<1>. QED
  BY <1>6, <1>7, <1>8

\* The protocol f is fetching is one it has not fetched.
LEMMA FetchTurn ==
  ASSUME TypeOK, FetchOrder, NEW f \in Fetches, pc[f] = "fetch"
  PROVE  Fetching(f) \in want[f] /\ Fetching(f) \notin report[f] /\ Fetching(f) \in Protocols
<1>1. want[f] \subseteq Protocols
  BY DEF TypeOK, Runs
<1>2. want[f] \ report[f] \in SUBSET Protocols /\ want[f] \ report[f] # {}
  BY <1>1 DEF FetchOrder, FetchesInOrder
<1>3. Fetching(f) \in want[f] \ report[f]
  BY <1>2, FirstFacts DEF Fetching
<1>. QED
  BY <1>1, <1>3

\* The protocol that c inspects next.
Inspecting(c) == First({q \in want[c] : Len(shown[c][q]) < NS[q]})

\* What is shown of a protocol is a sequence no longer than its namespaces.
LEMMA ShownType ==
  ASSUME TypeOK, NEW c \in Runs, NEW p \in Protocols
  PROVE  /\ shown[c][p] \in Seq(Snapshots)
         /\ Len(shown[c][p]) \in Nat /\ Len(shown[c][p]) <= NS[p]
         /\ NS[p] \in Nat /\ NS[p] >= 1 /\ p \in Nat
<1>1. shown[c][p] \in Seq(Snapshots) /\ Len(shown[c][p]) <= NS[p]
  BY DEF TypeOK
<1>2. NS[p] \in Nat /\ NS[p] >= 1 /\ p \in Nat
  BY CommandsAssumption
<1>3. Len(shown[c][p]) \in Nat
  BY <1>1
<1>. QED
  BY <1>1, <1>2, <1>3

\* It is the first it has not inspected to the end.
LEMMA InspectTurn ==
  ASSUME TypeOK, InspectOrder, NEW c \in Runs, pc[c] = "inspect"
  PROVE  /\ Inspecting(c) \in want[c] /\ Inspecting(c) \in Protocols
         /\ Len(shown[c][Inspecting(c)]) < NS[Inspecting(c)]
         /\ \A q \in want[c] : q < Inspecting(c) => Len(shown[c][q]) = NS[q]
<1>. DEFINE S == {q \in want[c] : Len(shown[c][q]) < NS[q]}
<1>1. want[c] \subseteq Protocols
  BY DEF TypeOK
<1>2. S \in SUBSET Protocols /\ S # {}
  BY <1>1 DEF InspectOrder, InspectsInOrder
<1>. HIDE DEF S
<1>3. First(S) \in S /\ \A q \in S : First(S) <= q
  BY <1>2, FirstFacts
<1>4. Inspecting(c) = First(S)
  BY DEF Inspecting, S
<1>5. Inspecting(c) \in want[c] /\ Inspecting(c) \in Protocols /\ Inspecting(c) \in Nat
      /\ Len(shown[c][Inspecting(c)]) < NS[Inspecting(c)]
  BY <1>1, <1>3, <1>4, CommandsAssumption DEF S
<1>6. ASSUME NEW q \in want[c], q < Inspecting(c)
      PROVE  Len(shown[c][q]) = NS[q]
  <2>. DEFINE b == Inspecting(c)
  <2>1. q \in Protocols /\ q \in Nat /\ b \in Nat /\ q < b
    BY <1>1, <1>5, <1>6, CommandsAssumption
  <2>. HIDE DEF b
  <2>2. q \in S => b <= q
    BY <1>3, <1>4 DEF b
  <2>3. q \notin S
    BY <2>1, <2>2
  <2>4. ~(Len(shown[c][q]) < NS[q])
    BY <1>6, <2>3 DEF S
  <2>. QED
    BY <2>1, <2>4, ShownType
<1>. QED
  BY <1>5, <1>6

-----------------------------------------------------------------------------
(* What an action changes, entry by entry. *)

\* An update of one entry.
LEMMA PutEntry ==
  ASSUME NEW S, NEW v, IsGrid(v, S), NEW a \in S, NEW b \in Protocols, NEW x
  PROVE  \A c \in S, p \in Protocols :
           [v EXCEPT ![a][b] = x][c][p] = IF c = a /\ p = b THEN x ELSE v[c][p]
  BY DEF IsGrid

\* An update of one entry keeps its type.
LEMMA PutType ==
  ASSUME NEW S, NEW T, NEW v \in [S -> [Protocols -> T]], NEW a, NEW b, NEW x \in T
  PROVE  [v EXCEPT ![a][b] = x] \in [S -> [Protocols -> T]]
  OBVIOUS

\* So do peers that meet.
LEMMA MeetType ==
  ASSUME NEW v \in [Syncs -> [Protocols -> SUBSET Syncs]],
         NEW s \in Syncs, NEW p, NEW others \in SUBSET Syncs
  PROVE  Meet(v, s, p, others) \in [Syncs -> [Protocols -> SUBSET Syncs]]
  BY DEF Meet

\* Who gains whom as a peer.
LEMMA MeetEntry ==
  ASSUME NEW v, IsGrid(v, Syncs), NEW s \in Syncs, NEW b \in Protocols, NEW others
  PROVE  \A t \in Syncs, p \in Protocols :
           /\ v[t][p] \subseteq Meet(v, s, b, others)[t][p]
           /\ p = b /\ t = s => others \subseteq Meet(v, s, b, others)[t][p]
           /\ p = b /\ t \in others => t = s \/ s \in Meet(v, s, b, others)[t][p]
  BY DEF Meet, IsGrid

-----------------------------------------------------------------------------
(* Type correctness. *)

\* A command that fails shows nothing.
LEMMA TypeFail ==
  ASSUME TypeOK, InspectOrder, NEW c \in Runs, Fail(c)
  PROVE  /\ pc' \in [Runs -> {"idle", "sync", "inspect", "fetch"} \cup Ended]
         /\ \A s \in Syncs : pc'[s] # "fetch"
         /\ \A f \in Fetches : pc'[f] # "sync"
         /\ \A d \in Runs, p \in Protocols :
              shown'[d][p] \in Seq(Snapshots) /\ Len(shown'[d][p]) <= NS[p]
<1>1. pc' = [pc EXCEPT ![c] = "failed"]
      /\ shown' = [shown EXCEPT ![c] = [p \in Protocols |-> <<>>]]
  BY DEF Fail
<1>2. /\ pc' \in [Runs -> {"idle", "sync", "inspect", "fetch"} \cup Ended]
      /\ \A s \in Syncs : pc'[s] # "fetch"
      /\ \A f \in Fetches : pc'[f] # "sync"
  BY <1>1 DEF TypeOK, Runs, Ended
<1>3. ASSUME NEW d \in Runs, NEW p \in Protocols
      PROVE  shown'[d][p] \in Seq(Snapshots) /\ Len(shown'[d][p]) <= NS[p]
  <2>1. <<>> \in Seq(Snapshots) /\ Len(<<>>) = 0
    OBVIOUS
  <2>2. shown'[d][p] \in {shown[d][p], <<>>}
    BY <1>1 DEF InspectOrder, IsGrid
  <2>3. NS[p] \in Nat /\ shown[d][p] \in Seq(Snapshots) /\ Len(shown[d][p]) <= NS[p]
    BY ShownType
  <2>4. CASE shown'[d][p] = <<>>
    <3>1. 0 <= NS[p]
      BY <2>3
    <3>. QED
      BY <2>1, <2>4, <3>1
  <2>. QED
    BY <2>2, <2>3, <2>4
<1>. QED
  BY <1>2, <1>3

\* A command keeps to its stages; what a stage shows fits its namespaces.
LEMMA TypeBegin ==
  ASSUME TypeOK, InspectOrder, NEW c \in Runs, NEW request, Begin(c, request)
  PROVE  /\ pc' \in [Runs -> {"idle", "sync", "inspect", "fetch"} \cup Ended]
         /\ \A s \in Syncs : pc'[s] # "fetch"
         /\ \A f \in Fetches : pc'[f] # "sync"
         /\ want' \in [Runs -> SUBSET Protocols]
         /\ \A d \in Runs, p \in Protocols :
              shown'[d][p] \in Seq(Snapshots) /\ Len(shown'[d][p]) <= NS[p]
<1>. c \in Syncs => c \notin Fetches
  BY CommandsAssumption
<1>1. CASE Known(request)
  <2>1. Resolve(request) \subseteq Protocols
    BY <1>1 DEF Known, Resolve
  <2>2. /\ want' = [want EXCEPT ![c] = Resolve(request)]
        /\ pc' = [pc EXCEPT ![c] = IF c \in Syncs THEN "sync" ELSE "inspect"]
        /\ shown' = shown
    BY <1>1 DEF Begin
  <2>3. \A d \in Runs, p \in Protocols :
          shown'[d][p] \in Seq(Snapshots) /\ Len(shown'[d][p]) <= NS[p]
    BY <2>2 DEF TypeOK
  <2>4. want' \in [Runs -> SUBSET Protocols]
    BY <2>1, <2>2 DEF TypeOK
  <2>5. /\ pc' \in [Runs -> {"idle", "sync", "inspect", "fetch"} \cup Ended]
        /\ \A s \in Syncs : pc'[s] # "fetch"
        /\ \A f \in Fetches : pc'[f] # "sync"
    BY <2>2 DEF TypeOK, Runs
  <2>. QED
    BY <2>3, <2>4, <2>5
<1>2. CASE ~Known(request)
  <2>1. Fail(c) /\ want' = want
    BY <1>2 DEF Begin
  <2>. QED
    BY <2>1, TypeFail DEF TypeOK
<1>. QED
  BY <1>1, <1>2

\* The parts of TypeOK that a step of a sync, of positions, and of the commands
\* concern; rows and what was got are in Framed.
CommandTyped ==
  /\ pc \in [Runs -> {"idle", "sync", "inspect", "fetch"} \cup Ended]
  /\ \A s \in Syncs : pc[s] # "fetch"
  /\ \A f \in Fetches : pc[f] # "sync"
  /\ want \in [Runs -> SUBSET Protocols]
  /\ age \in [Fetches -> AgeFlags \cup {0}]
  /\ owner \in [Fetches -> Owners \cup {"empty"}]
  /\ began \in [Fetches -> Time]
  /\ \A c \in Runs, p \in Protocols : shown[c][p] \in Seq(Snapshots) /\ Len(shown[c][p]) <= NS[p]

SyncTyped ==
  /\ spc \in [Syncs -> [Protocols -> {"idle", "discover", "write"} \cup Ended]]
  /\ {seen, stamp} \subseteq [Syncs -> [Protocols -> Time]]
  /\ overlap \in [Syncs -> [Protocols -> SUBSET Syncs]]
  /\ clash \in [Syncs -> [Protocols -> SUBSET Syncs]]
  /\ during \in [Runs -> [Protocols -> SUBSET Syncs]]
  /\ \A s \in Syncs, p \in Protocols : next[s][p] \in 1..(NS[p] + 1)

FetchTyped ==
  /\ report \in [Fetches -> SUBSET Protocols]
  /\ fpc \in [Fetches -> [Protocols -> {"idle", "read"} \cup Verdicts]]
  /\ {after, race} \subseteq [Fetches -> [Protocols -> SUBSET Syncs]]
  /\ \A f \in Fetches, p \in Protocols : gnext[f][p] \in 1..(NS[p] + 1)

\* The type invariant, by what it is about.
LEMMA TypeParts ==
  TypeOK <=> /\ now \in Time /\ faults \in 0..MaxFaults
             /\ CommandTyped /\ SyncTyped /\ FetchTyped /\ RowsTyped /\ GotTyped
  BY DEF TypeOK, CommandTyped, SyncTyped, FetchTyped, RowsTyped, GotTyped

\* A fault is one of at most MaxFaults, and the clock shows instants of Time.
LEMMA TypeClock ==
  ASSUME TypeOK, [Next]_vars
  PROVE  now' \in Time /\ faults' \in 0..MaxFaults
<1>1. now' \in Time
  <2>1. CASE Tick
    BY <2>1 DEF Tick
  <2>2. CASE now' = now
    BY <2>2 DEF TypeOK
  <2>. QED
    BY <2>1, <2>2
       DEF Next, SyncStep, FetchStep, BeginSync, BeginPositions, Inspect, Discover, Stamp, Set,
           SyncFails, StartFetch, Get, Decide, AppendPositions, ChainFails, vars
<1>2. faults' = faults \/ Fault
  BY DEF Next, SyncStep, FetchStep, Tick, BeginSync, BeginPositions, Inspect, Discover, Stamp, Set,
         SyncFails, StartFetch, Get, Decide, AppendPositions, ChainFails, vars
<1>3. Fault => faults' \in 0..MaxFaults
  BY CommandsAssumption DEF Fault, TypeOK
<1>. QED
  BY <1>1, <1>2, <1>3 DEF TypeOK

\* The steps of a sync.
LEMMA TypeSync ==
  ASSUME TypeOK, Grids, Ordered, [Next]_vars
  PROVE  SyncTyped'
<1>. USE DEF Ordered
<1>0. SyncTyped
  BY TypeParts
<1>1. CASE UNCHANGED <<spc, seen, stamp, next, overlap, clash, during>>
  BY <1>0, <1>1 DEF SyncTyped
<1>2. ASSUME NEW s \in Syncs, Discover(s) PROVE SyncTyped'
  <2>. DEFINE b == Syncing(s)
  <2>1. /\ spc' = [spc EXCEPT ![s][b] = "discover"]
        /\ seen' = [seen EXCEPT ![s][b] = now]
        /\ overlap' = Meet(overlap, s, b, Alive(b))
        /\ UNCHANGED <<stamp, next, clash, during>>
    BY <1>2 DEF Discover
  <2>2. Alive(b) \in SUBSET Syncs
    BY DEF Alive
  <2>. HIDE DEF b
  <2>3. overlap' \in [Syncs -> [Protocols -> SUBSET Syncs]]
    BY <1>0, <2>1, <2>2, MeetType DEF SyncTyped
  <2>4. spc' \in [Syncs -> [Protocols -> {"idle", "discover", "write"} \cup Ended]]
    BY <1>0, <2>1, PutType DEF SyncTyped
  <2>5. seen' \in [Syncs -> [Protocols -> Time]]
    BY <1>0, <2>1, PutType DEF SyncTyped, TypeOK
  <2>. QED
    BY <1>0, <2>1, <2>3, <2>4, <2>5 DEF SyncTyped
<1>3. ASSUME NEW s \in Syncs, Stamp(s) PROVE SyncTyped'
  <2>. DEFINE b == Syncing(s)
  <2>1. /\ spc' = [spc EXCEPT ![s][b] = "write"]
        /\ stamp' = [stamp EXCEPT ![s][b] = now]
        /\ clash' = Meet(clash, s, b, Writing(b))
        /\ UNCHANGED <<seen, next, overlap, during>>
    BY <1>3 DEF Stamp
  <2>2. Writing(b) \in SUBSET Syncs
    BY DEF Writing
  <2>. HIDE DEF b
  <2>3. clash' \in [Syncs -> [Protocols -> SUBSET Syncs]]
    BY <1>0, <2>1, <2>2, MeetType DEF SyncTyped
  <2>4. spc' \in [Syncs -> [Protocols -> {"idle", "discover", "write"} \cup Ended]]
    BY <1>0, <2>1, PutType DEF SyncTyped
  <2>5. stamp' \in [Syncs -> [Protocols -> Time]]
    BY <1>0, <2>1, PutType DEF SyncTyped, TypeOK
  <2>. QED
    BY <1>0, <2>1, <2>3, <2>4, <2>5 DEF SyncTyped
<1>4. ASSUME NEW s \in Syncs, Set(s) PROVE SyncTyped'
  <2>. DEFINE b == Syncing(s)
              end == IF next[s][b] = NS[b] THEN "done" ELSE "write"
  <2>1. /\ pc[s] = "sync" /\ spc[s][b] = "write"
        /\ spc' = [spc EXCEPT ![s][b] = end]
        /\ next' = [next EXCEPT ![s][b] = @ + 1]
        /\ during' = [c \in Runs |-> IF c \in Active \ {s}
                        THEN [during[c] EXCEPT ![b] = @ \cup {s}] ELSE during[c]]
        /\ UNCHANGED <<seen, stamp, overlap, clash>>
    BY <1>4 DEF Set, Grids, IsGrid
  <2>2. b \in Protocols
    BY <2>1, SyncTurn
  <2>3. end \in {"idle", "discover", "write"} \cup Ended
    BY DEF Ended
  <2>. HIDE DEF b, end
  <2>4. spc' \in [Syncs -> [Protocols -> {"idle", "discover", "write"} \cup Ended]]
    BY <1>0, <2>1, <2>3, PutType DEF SyncTyped
  <2>5. during' \in [Runs -> [Protocols -> SUBSET Syncs]]
    BY <1>0, <2>1, <2>2 DEF SyncTyped
  <2>6. ASSUME NEW t \in Syncs, NEW p \in Protocols
        PROVE  next'[t][p] \in 1..(NS[p] + 1)
    <3>1. next[t][p] \in 1..(NS[p] + 1) /\ NS[p] \in Nat
      BY <1>0, CommandsAssumption DEF SyncTyped
    <3>2. t = s /\ p = b => next[t][p] <= NS[p]
      BY <2>1 DEF NextOrder, SetsInOrder
    <3>3. next'[t][p] = IF t = s /\ p = b THEN next[t][p] + 1 ELSE next[t][p]
      BY <2>1, <2>2 DEF Grids, IsGrid
    <3>. QED
      BY <3>1, <3>2, <3>3
  <2>. QED
    BY <1>0, <2>1, <2>4, <2>5, <2>6 DEF SyncTyped
<1>5. ASSUME NEW s \in Syncs, SyncFails(s) PROVE SyncTyped'
  <2>. DEFINE b == Syncing(s)
  <2>1. spc' = [spc EXCEPT ![s][b] = "failed"] /\ UNCHANGED <<seen, stamp, next, overlap, clash, during>>
    BY <1>5 DEF SyncFails
  <2>. HIDE DEF b
  <2>2. spc' \in [Syncs -> [Protocols -> {"idle", "discover", "write"} \cup Ended]]
    BY <1>0, <2>1, PutType DEF SyncTyped, Ended
  <2>. QED
    BY <1>0, <2>1, <2>2 DEF SyncTyped
<1>. QED
  BY <1>1, <1>2, <1>3, <1>4, <1>5
     DEF Next, SyncStep, FetchStep, Tick, BeginSync, BeginPositions, Inspect, StartFetch, Get,
         Decide, AppendPositions, ChainFails, vars, syncVars

\* The steps of positions.
LEMMA TypeFetch ==
  ASSUME TypeOK, Grids, Ordered, [Next]_vars
  PROVE  FetchTyped'
<1>. USE DEF Ordered
<1>0. FetchTyped
  BY TypeParts
<1>1. CASE UNCHANGED <<report, fpc, after, race, gnext>>
  BY <1>0, <1>1 DEF FetchTyped
<1>2. ASSUME NEW s \in Syncs, Stamp(s) PROVE FetchTyped'
  <2>. DEFINE b == Syncing(s)
  <2>1. /\ race' = [f \in Fetches |->
                      IF f \in Reading(b) THEN [race[f] EXCEPT ![b] = @ \cup {s}] ELSE race[f]]
        /\ UNCHANGED <<report, fpc, after, gnext>>
    BY <1>2 DEF Stamp, fetchVars
  <2>. HIDE DEF b
  <2>2. race' \in [Fetches -> [Protocols -> SUBSET Syncs]]
    BY <1>0, <2>1 DEF FetchTyped
  <2>. QED
    BY <1>0, <2>1, <2>2 DEF FetchTyped
<1>3. ASSUME NEW f \in Fetches, StartFetch(f) PROVE FetchTyped'
  <2>. DEFINE b == Fetching(f)
              done == {s \in Syncs : spc[s][b] = "done"}
  <2>1. UNCHANGED <<report, gnext>>
    BY <1>3 DEF StartFetch
  <2>2. \/ UNCHANGED <<fpc, after, race>>
        \/ /\ fpc' = [fpc EXCEPT ![f][b] = "read"]
           /\ after' = [after EXCEPT ![f][b] = done]
           /\ race' = [race EXCEPT ![f][b] = Writing(b)]
    BY <1>3 DEF StartFetch
  <2>3. done \in SUBSET Syncs /\ Writing(b) \in SUBSET Syncs
    BY DEF Writing
  <2>. HIDE DEF b, done
  <2>4. CASE /\ fpc' = [fpc EXCEPT ![f][b] = "read"]
             /\ after' = [after EXCEPT ![f][b] = done]
             /\ race' = [race EXCEPT ![f][b] = Writing(b)]
    <3>1. fpc' \in [Fetches -> [Protocols -> {"idle", "read"} \cup Verdicts]]
      BY <1>0, <2>4, PutType DEF FetchTyped
    <3>2. after' \in [Fetches -> [Protocols -> SUBSET Syncs]]
      BY <1>0, <2>3, <2>4, PutType DEF FetchTyped
    <3>3. race' \in [Fetches -> [Protocols -> SUBSET Syncs]]
      BY <1>0, <2>3, <2>4, PutType DEF FetchTyped
    <3>. QED
      BY <1>0, <2>1, <3>1, <3>2, <3>3 DEF FetchTyped
  <2>. QED
    BY <1>1, <2>1, <2>2, <2>4
<1>4. ASSUME NEW f \in Fetches, Get(f) PROVE FetchTyped'
  <2>. DEFINE b == Fetching(f)
              n == gnext[f][b]
  <2>1. /\ n <= NS[b] /\ pc[f] = "fetch"
        /\ gnext' = [gnext EXCEPT ![f][b] = n + 1]
        /\ UNCHANGED <<report, fpc, after, race>>
    BY <1>4 DEF Get
  <2>2. b \in Protocols
    BY <2>1, FetchTurn
  <2>3. n \in 1..(NS[b] + 1) /\ NS[b] \in Nat
    BY <1>0, <2>2, CommandsAssumption DEF FetchTyped
  <2>. HIDE DEF b, n
  <2>4. n + 1 \in 1..(NS[b] + 1)
    BY <2>1, <2>3
  <2>5. \A g \in Fetches, p \in Protocols : gnext'[g][p] \in 1..(NS[p] + 1)
    BY <1>0, <2>1, <2>2, <2>4, PutEntry DEF FetchTyped, Grids
  <2>. QED
    BY <1>0, <2>1, <2>5 DEF FetchTyped
<1>5. ASSUME NEW f \in Fetches, Decide(f) PROVE FetchTyped'
  <2>. DEFINE b == Fetching(f)
              verdict == Verdict(f, b)
  <2>1. fpc' = [fpc EXCEPT ![f][b] = verdict] /\ UNCHANGED <<report, after, race, gnext>>
    BY <1>5 DEF Decide
  <2>2. verdict \in {"idle", "read"} \cup Verdicts
    BY DEF Verdict, Verdicts
  <2>. HIDE DEF b, verdict
  <2>3. fpc' \in [Fetches -> [Protocols -> {"idle", "read"} \cup Verdicts]]
    BY <1>0, <2>1, <2>2, PutType DEF FetchTyped
  <2>. QED
    BY <1>0, <2>1, <2>3 DEF FetchTyped
<1>6. ASSUME NEW f \in Fetches, AppendPositions(f) PROVE FetchTyped'
  <2>. DEFINE b == Fetching(f)
  <2>1. /\ pc[f] = "fetch"
        /\ report' = [report EXCEPT ![f] = @ \cup {b}]
        /\ UNCHANGED <<fpc, after, race, gnext>>
    BY <1>6 DEF AppendPositions, fetchVars
  <2>2. b \in Protocols
    BY <2>1, FetchTurn
  <2>. HIDE DEF b
  <2>3. report' \in [Fetches -> SUBSET Protocols]
    BY <1>0, <2>1, <2>2 DEF FetchTyped
  <2>. QED
    BY <1>0, <2>1, <2>3 DEF FetchTyped
<1>. QED
  BY <1>1, <1>2, <1>3, <1>4, <1>5, <1>6
     DEF Next, SyncStep, FetchStep, Tick, BeginSync, BeginPositions, Inspect, Discover, Set,
         SyncFails, ChainFails, vars, fetchVars

\* What an inspection appends is a snapshot, and there is room for it.
LEMMA InspectShows ==
  ASSUME TypeOK, Framed, InspectOrder, NEW c \in Runs, Inspect(c)
  PROVE  \E b \in want[c] : \E entry \in Snapshots :
           /\ pc[c] = "inspect" /\ b \in Protocols
           /\ Len(shown[c][b]) < NS[b]
           /\ \A q \in want[c] : q < b => Len(shown[c][q]) = NS[q]
           /\ entry.row \in {rows[b][Len(shown[c][b]) + 1], ReadError}
           /\ entry.stale <=> StaleIn(entry.row, b, IF c \in Syncs THEN 0 ELSE age[c])
           /\ shown' = [shown EXCEPT ![c][b] = Append(@, entry)]
           /\ pc' = [pc EXCEPT ![c] =
                IF ~(Len(shown[c][b]) + 1 = NS[b] /\ \A q \in want[c] : q <= b) THEN "inspect"
                ELSE IF c \in Syncs THEN "done" ELSE "fetch"]
<1>. DEFINE b == Inspecting(c)
            n == Len(shown[c][b]) + 1
            flag == IF c \in Syncs THEN 0 ELSE age[c]
            Entry(row) == [row |-> row, stale |-> StaleIn(row, b, flag)]
<1>1. /\ pc[c] = "inspect"
      /\ \/ shown' = [shown EXCEPT ![c][b] = Append(@, Entry(rows[b][n]))]
         \/ shown' = [shown EXCEPT ![c][b] = Append(@, Entry(ReadError))]
      /\ pc' = [pc EXCEPT ![c] =
           IF ~(n = NS[b] /\ \A q \in want[c] : q <= b) THEN "inspect"
           ELSE IF c \in Syncs THEN "done" ELSE "fetch"]
  BY DEF Inspect, Inspecting
<1>2. /\ b \in want[c] /\ b \in Protocols /\ Len(shown[c][b]) < NS[b]
      /\ \A q \in want[c] : q < b => Len(shown[c][q]) = NS[q]
  BY <1>1, InspectTurn
<1>3. rows[b][n] \in Syncs \cup {NoRow}
  <2>1. Len(shown[c][b]) \in Nat /\ NS[b] \in Nat
    BY <1>2, ShownType
  <2>2. n \in 1..NS[b]
    BY <1>2, <2>1
  <2>. HIDE DEF n
  <2>. QED
    BY <1>2, <2>2 DEF Framed, RowsTyped
<1>4. \A row \in Syncs \cup {NoRow, ReadError} : StaleIn(row, b, flag) \in BOOLEAN
  BY DEF StaleIn
<1>5. \A row \in Syncs \cup {NoRow, ReadError} :
        /\ Entry(row) \in Snapshots
        /\ Entry(row).row = row
        /\ Entry(row).stale <=> StaleIn(row, b, flag)
  BY <1>4 DEF Snapshots
<1>. HIDE DEF flag, b, Entry
<1>6. PICK row \in {rows[b][n], ReadError} : shown' = [shown EXCEPT ![c][b] = Append(@, Entry(row))]
  BY <1>1
<1>7. row \in Syncs \cup {NoRow, ReadError}
  BY <1>3, <1>6
<1>8. Entry(row) \in Snapshots /\ Entry(row).row \in {rows[b][n], ReadError}
  BY <1>5, <1>6, <1>7
<1>9. Entry(row).stale <=> StaleIn(Entry(row).row, b, flag)
  BY <1>5, <1>7
<1>10. ASSUME NEW entry \in Snapshots, entry = Entry(row)
      PROVE  /\ entry.row \in {rows[b][n], ReadError}
             /\ entry.stale <=> StaleIn(entry.row, b, flag)
             /\ shown' = [shown EXCEPT ![c][b] = Append(@, entry)]
  BY <1>6, <1>8, <1>9, <1>10
<1>. QED
  BY <1>1, <1>2, <1>8, <1>10 DEF flag

\* The steps of the commands.
LEMMA TypeCommand ==
  ASSUME TypeOK, Framed, Kept, Ordered, [Next]_vars
  PROVE  CommandTyped'
<1>. USE DEF Ordered
<1>0. CommandTyped
  BY TypeParts
<1>. DEFINE Terms == <<want, age, owner, began>>
            Stages == /\ pc' \in [Runs -> {"idle", "sync", "inspect", "fetch"} \cup Ended]
                      /\ \A s \in Syncs : pc'[s] # "fetch"
                      /\ \A f \in Fetches : pc'[f] # "sync"
            Shows == \A c \in Runs, p \in Protocols :
                       shown'[c][p] \in Seq(Snapshots) /\ Len(shown'[c][p]) <= NS[p]
<1>1. CASE UNCHANGED <<pc, Terms, shown>>
  BY <1>0, <1>1 DEF CommandTyped
<1>2. ASSUME Stages, Shows, UNCHANGED Terms PROVE CommandTyped'
  BY <1>0, <1>2 DEF CommandTyped
<1>3. Runs = Syncs \cup Fetches /\ Syncs \cap Fetches = {}
  BY CommandsAssumption DEF Runs
<1>4. ASSUME UNCHANGED shown PROVE Shows
  BY <1>0, <1>4 DEF CommandTyped
<1>5. ASSUME UNCHANGED pc PROVE Stages
  BY <1>0, <1>5 DEF CommandTyped
<1>6. ASSUME NEW c \in Runs, NEW stage \in {"inspect", "done"}, pc' = [pc EXCEPT ![c] = stage]
      PROVE  Stages
  BY <1>0, <1>3, <1>6 DEF CommandTyped, Ended
<1>7. ASSUME NEW c \in Runs, Fail(c) PROVE Stages /\ Shows
  BY <1>7, TypeFail
<1>. HIDE DEF Stages, Shows
<1>8. ASSUME NEW s \in Syncs, BeginSync(s) PROVE CommandTyped'
  <2>1. PICK request \in Requests[s] : Begin(s, request)
    BY <1>8 DEF BeginSync
  <2>2. UNCHANGED <<age, owner, began>>
    BY <1>8 DEF BeginSync
  <2>3. s \in Runs
    BY <1>3
  <2>. QED
    BY <1>0, <2>1, <2>2, <2>3, TypeBegin DEF CommandTyped
<1>9. ASSUME NEW f \in Fetches, BeginPositions(f) PROVE CommandTyped'
  <2>1. PICK request \in Requests[f] : Begin(f, request)
    BY <1>9 DEF BeginPositions
  <2>2. PICK flag \in AgeFlags, address \in Owners :
          age' = [age EXCEPT ![f] = flag] /\ owner' = [owner EXCEPT ![f] = address]
    BY <1>9 DEF BeginPositions
  <2>3. began' = [began EXCEPT ![f] = now] /\ now \in Time
    BY <1>9 DEF BeginPositions, TypeOK
  <2>4. /\ age' \in [Fetches -> AgeFlags \cup {0}]
        /\ owner' \in [Fetches -> Owners \cup {"empty"}]
        /\ began' \in [Fetches -> Time]
    BY <1>0, <2>2, <2>3 DEF CommandTyped
  <2>5. f \in Runs
    BY <1>3
  <2>. QED
    BY <1>0, <2>1, <2>4, <2>5, TypeBegin DEF CommandTyped
<1>10. ASSUME NEW c \in Runs, Inspect(c) PROVE CommandTyped'
  <2>1. PICK b \in want[c] : \E entry \in Snapshots :
           /\ pc[c] = "inspect" /\ b \in Protocols
           /\ Len(shown[c][b]) < NS[b]
           /\ shown' = [shown EXCEPT ![c][b] = Append(@, entry)]
           /\ pc' = [pc EXCEPT ![c] =
                IF ~(Len(shown[c][b]) + 1 = NS[b] /\ \A q \in want[c] : q <= b) THEN "inspect"
                ELSE IF c \in Syncs THEN "done" ELSE "fetch"]
    BY <1>10, InspectShows
  <2>2. PICK entry \in Snapshots : shown' = [shown EXCEPT ![c][b] = Append(@, entry)]
    BY <2>1
  <2>3. Stages
    BY <1>0, <1>3, <2>1 DEF CommandTyped, Stages, Ended
  <2>4. Shows
    <3>1. ASSUME NEW d \in Runs, NEW p \in Protocols
          PROVE  shown'[d][p] \in Seq(Snapshots) /\ Len(shown'[d][p]) <= NS[p]
      <4>1. /\ shown[d][p] \in Seq(Snapshots) /\ Len(shown[d][p]) \in Nat
            /\ Len(shown[d][p]) <= NS[p] /\ NS[p] \in Nat
        BY ShownType
      <4>2. CASE d = c /\ p = b
        <5>1. shown'[d][p] = Append(shown[d][p], entry)
          BY <2>2, <4>2 DEF InspectOrder, IsGrid
        <5>2. Append(shown[d][p], entry) \in Seq(Snapshots)
              /\ Len(Append(shown[d][p], entry)) = Len(shown[d][p]) + 1
          BY <4>1
        <5>3. Len(shown[d][p]) + 1 <= NS[p]
          BY <2>1, <4>1, <4>2
        <5>. QED
          BY <5>1, <5>2, <5>3
      <4>3. CASE ~(d = c /\ p = b)
        <5>1. shown'[d][p] = shown[d][p]
          BY <2>2, <4>3 DEF InspectOrder, IsGrid
        <5>. QED
          BY <4>1, <5>1
      <4>. QED
        BY <4>2, <4>3
    <3>. QED
      BY <3>1 DEF Shows
  <2>5. UNCHANGED Terms
    BY <1>10 DEF Inspect, requestVars
  <2>. QED
    BY <1>2, <2>3, <2>4, <2>5
<1>11. ASSUME NEW s \in Syncs, Set(s) PROVE CommandTyped'
  <2>1. UNCHANGED <<shown, Terms>>
    BY <1>11 DEF Set, requestVars
  <2>2. s \in Runs /\ (pc' = pc \/ pc' = [pc EXCEPT ![s] = "inspect"])
    BY <1>0, <1>3, <1>11 DEF Set, CommandTyped
  <2>3. Stages
    BY <1>5, <1>6, <2>2
  <2>. QED
    BY <1>2, <1>4, <2>1, <2>3
<1>12. ASSUME NEW f \in Fetches, AppendPositions(f) PROVE CommandTyped'
  <2>1. UNCHANGED <<shown, Terms>>
    BY <1>12 DEF AppendPositions, requestVars
  <2>2. f \in Runs /\ (pc' = pc \/ pc' = [pc EXCEPT ![f] = "done"])
    BY <1>0, <1>3, <1>12 DEF AppendPositions, CommandTyped
  <2>3. Stages
    BY <1>5, <1>6, <2>2
  <2>. QED
    BY <1>2, <1>4, <2>1, <2>3
<1>13. ASSUME NEW c \in Runs, Fail(c), UNCHANGED Terms PROVE CommandTyped'
  BY <1>2, <1>7, <1>13
<1>14. ASSUME NEW s \in Syncs, SyncFails(s) PROVE CommandTyped'
  BY <1>3, <1>13, <1>14 DEF SyncFails, requestVars
<1>15. ASSUME NEW f \in Fetches, StartFetch(f) \/ Decide(f) \/ ChainFails(f) PROVE CommandTyped'
  <2>1. UNCHANGED Terms /\ (Fail(f) \/ UNCHANGED <<pc, shown>>)
    BY <1>15 DEF StartFetch, Decide, ChainFails, requestVars
  <2>. QED
    BY <1>1, <1>3, <1>13, <2>1
<1>. QED
  BY <1>1, <1>3, <1>8, <1>9, <1>10, <1>11, <1>12, <1>14, <1>15
     DEF Next, SyncStep, FetchStep, Tick, Discover, Stamp, Get, vars, requestVars

-----------------------------------------------------------------------------
(* The order is kept. *)

\* What a command keeps for itself.
OwnState(c) == <<pc[c], want[c], shown[c]>>
OwnSync(s)  == <<spc[s], next[s], stamp[s]>>
OwnFetch(f) == <<fpc[f], got[f], gnext[f], report[f], age[f]>>

\* No command touches what another keeps for itself.
LEMMA OwnStep ==
  ASSUME Framed, Kept, IsGrid(shown, Runs), [Next]_vars, NEW c \in Runs
  PROVE  \/ /\ UNCHANGED OwnState(c)
            /\ c \in Syncs => UNCHANGED OwnSync(c)
            /\ c \in Fetches => UNCHANGED OwnFetch(c)
         \/ c \in Syncs /\ (BeginSync(c) \/ SyncStep(c))
         \/ c \in Fetches /\ (BeginPositions(c) \/ FetchStep(c))
<1>. DEFINE Alone == /\ UNCHANGED OwnState(c)
                     /\ c \in Syncs => UNCHANGED OwnSync(c)
                     /\ c \in Fetches => UNCHANGED OwnFetch(c)
<1>. USE CommandsAssumption DEF Framed, Shape, Grids, IsGrid, Kept, OwnState, OwnSync, OwnFetch, Runs
<1>1. CASE UNCHANGED <<pc, want, shown, spc, next, stamp, fpc, got, gnext, report, age>>
  BY <1>1
<1>2. ASSUME NEW d \in Runs, d # c, NEW request, Begin(d, request)
      PROVE  UNCHANGED OwnState(c)
  BY <1>2 DEF Begin, Fail
<1>3. ASSUME NEW d \in Runs, d # c, Inspect(d)
      PROVE  Alone
  BY <1>3 DEF Inspect, requestVars, syncVars, fetchVars
<1>4. ASSUME NEW s \in Syncs, s # c, BeginSync(s)
      PROVE  Alone
  BY <1>2, <1>4 DEF BeginSync, syncVars, fetchVars
<1>5. ASSUME NEW s \in Syncs, s # c, Discover(s) \/ Stamp(s)
      PROVE  Alone
  BY <1>5 DEF Discover, Stamp, requestVars, fetchVars
<1>6. ASSUME NEW s \in Syncs, s # c, Set(s)
      PROVE  Alone
  BY <1>6 DEF Set, requestVars, fetchVars
<1>7. ASSUME NEW s \in Syncs, s # c, SyncFails(s)
      PROVE  Alone
  BY <1>7 DEF SyncFails, Fail, requestVars, fetchVars
<1>8. ASSUME NEW f \in Fetches, f # c, BeginPositions(f)
      PROVE  Alone
  <2>1. UNCHANGED OwnState(c)
    BY <1>2, <1>8 DEF BeginPositions
  <2>. QED
    BY <1>8, <2>1 DEF BeginPositions, syncVars, fetchVars
<1>9. ASSUME NEW f \in Fetches, f # c, StartFetch(f)
      PROVE  Alone
  BY <1>9 DEF StartFetch, Fail, requestVars, syncVars
<1>10. ASSUME NEW f \in Fetches, f # c, Get(f)
      PROVE  Alone
  BY <1>10 DEF Get, requestVars, syncVars
<1>11. ASSUME NEW f \in Fetches, f # c, Decide(f)
      PROVE  Alone
  BY <1>11 DEF Decide, Fail, requestVars, syncVars
<1>12. ASSUME NEW f \in Fetches, f # c, AppendPositions(f)
      PROVE  Alone
  BY <1>12 DEF AppendPositions, requestVars, syncVars, fetchVars
<1>13. ASSUME NEW f \in Fetches, f # c, ChainFails(f)
      PROVE  Alone
  BY <1>13 DEF ChainFails, Fail, requestVars, syncVars, fetchVars
<1>14. CASE Tick \/ UNCHANGED vars
  BY <1>1, <1>14 DEF Tick, vars, requestVars, syncVars, fetchVars
<1>15. ASSUME NEW s \in Syncs, BeginSync(s) \/ SyncStep(s), s # c
       PROVE  Alone
  BY <1>3, <1>4, <1>5, <1>6, <1>7, <1>15 DEF SyncStep
<1>16. ASSUME NEW f \in Fetches, BeginPositions(f) \/ FetchStep(f), f # c
       PROVE  Alone
  BY <1>3, <1>8, <1>9, <1>10, <1>11, <1>12, <1>13, <1>16 DEF FetchStep
<1>. HIDE DEF Alone, Framed, Shape, Grids, IsGrid, Kept, Runs
<1>17. CASE \E s \in Syncs : BeginSync(s) \/ SyncStep(s)
  <2>1. PICK s \in Syncs : BeginSync(s) \/ SyncStep(s)
    BY <1>17
  <2>2. CASE s # c
    BY <1>15, <2>1, <2>2 DEF Alone
  <2>3. CASE s = c
    BY <2>1, <2>3
  <2>. QED
    BY <2>2, <2>3
<1>18. CASE \E f \in Fetches : BeginPositions(f) \/ FetchStep(f)
  <2>1. PICK f \in Fetches : BeginPositions(f) \/ FetchStep(f)
    BY <1>18
  <2>2. CASE f # c
    BY <1>16, <2>1, <2>2 DEF Alone
  <2>3. CASE f = c
    BY <2>1, <2>3
  <2>. QED
    BY <2>2, <2>3
<1>. QED
  BY <1>14, <1>17, <1>18 DEF Next, Alone

\* A sync goes through its protocols and their namespaces in order.
LEMMA StepSyncs ==
  ASSUME TypeOK, Framed, Kept, Ordered, [Next]_vars, NEW s \in Syncs
  PROVE  SyncsInOrder(s)' /\ SetsInOrder(s)'
<1>0. /\ SyncsInOrder(s) /\ SetsInOrder(s) /\ s \in Runs /\ s \notin Fetches
      /\ want[s] \subseteq Protocols
      /\ \A p \in Protocols : NS[p] \in Nat /\ NS[p] >= 1 /\ p \in Nat
  BY CommandsAssumption DEF Ordered, SyncOrder, NextOrder, Runs, TypeOK
<1>. USE DEF SyncsInOrder, SetsInOrder
<1>1. CASE UNCHANGED OwnState(s) /\ UNCHANGED OwnSync(s)
  BY <1>0, <1>1 DEF OwnState, OwnSync
<1>2. CASE BeginSync(s)
  <2>1. UNCHANGED <<spc, next>>
    BY <1>2 DEF BeginSync, syncVars
  <2>2. PICK request \in Requests[s] : Begin(s, request)
    BY <1>2 DEF BeginSync
  <2>3. pc[s] = "idle" /\ \A p \in Protocols : spc[s][p] = "idle"
    BY <1>0, <2>2 DEF Begin
  <2>4. CASE Known(request)
    <3>1. pc'[s] = "sync" /\ want'[s] = Resolve(request)
      BY <1>0, <2>2, <2>4 DEF Begin, Framed, Shape, Kept
    <3>2. PICK p \in want'[s] : p \in Protocols
      BY <2>4, <3>1, CommandsAssumption DEF Known, Resolve
    <3>. QED
      BY <1>0, <2>1, <2>3, <3>1, <3>2
  <2>5. CASE ~Known(request)
    <3>1. pc'[s] = "failed"
      BY <1>0, <2>2, <2>5 DEF Begin, Fail, Framed, Shape
    <3>. QED
      BY <1>0, <2>1, <2>3, <3>1
  <2>. QED
    BY <2>4, <2>5
<1>3. ASSUME NEW b \in Protocols, pc[s] = "sync", spc[s][b] \notin {"done", "failed"},
             b \in want[s], \A q \in want[s] : q < b => spc[s][q] = "done",
             \A q \in Protocols : q > b => spc[s][q] = "idle",
             NEW x, x # "idle", want'[s] = want[s],
             \A p \in Protocols : spc'[s][p] = IF p = b THEN x ELSE spc[s][p],
             pc'[s] \notin {"idle", "inspect", "done"},
             pc'[s] = "sync" => x # "done" \/ \E q \in want[s] : q > b
      PROVE  SyncsInOrder(s)'
  <2>1. ASSUME NEW p \in Protocols, spc'[s][p] # "idle"
        PROVE  p \in want'[s] /\ \A q \in want'[s] : q < p => spc'[s][q] = "done"
    <3>1. p <= b
      BY <1>0, <1>3, <2>1
    <3>2. p \in want[s]
      BY <1>0, <1>3, <2>1
    <3>3. ASSUME NEW q \in want[s], q < p PROVE spc'[s][q] = "done"
      <4>1. q \in Protocols /\ q \in Nat /\ q < b
        BY <1>0, <3>1, <3>3
      <4>. QED
        BY <1>3, <4>1
    <3>. QED
      BY <1>3, <3>2, <3>3
  <2>2. pc'[s] = "sync" => \E p \in want'[s] : spc'[s][p] # "done"
    <3>1. ASSUME NEW q \in want[s], q > b PROVE spc'[s][q] # "done"
      <4>1. q \in Protocols /\ q # b
        BY <1>0, <3>1
      <4>. QED
        BY <1>3, <3>1, <4>1
    <3>. QED
      BY <1>3, <3>1
  <2>. QED
    BY <1>3, <2>1, <2>2
<1>4. ASSUME pc[s] = "sync"
      PROVE  /\ Syncing(s) \in want[s] /\ Syncing(s) \in Protocols
             /\ \A q \in want[s] : q < Syncing(s) => spc[s][q] = "done"
             /\ \A q \in Protocols : q > Syncing(s) => spc[s][q] = "idle"
  BY <1>4, SyncTurn DEF Ordered
<1>5. CASE Discover(s)
  <2>. DEFINE b == Syncing(s)
  <2>1. /\ pc[s] = "sync" /\ spc[s][b] = "idle"
        /\ spc' = [spc EXCEPT ![s][b] = "discover"]
        /\ UNCHANGED <<pc, want, next>>
    BY <1>5 DEF Discover, requestVars
  <2>2. /\ b \in want[s] /\ b \in Protocols
        /\ \A q \in want[s] : q < b => spc[s][q] = "done"
        /\ \A q \in Protocols : q > b => spc[s][q] = "idle"
    BY <1>4, <2>1
  <2>. HIDE DEF b
  <2>3. \A p \in Protocols : spc'[s][p] = IF p = b THEN "discover" ELSE spc[s][p]
    BY <2>1, <2>2 DEF Framed, Shape, Grids, IsGrid
  <2>4. SyncsInOrder(s)'
    BY <1>3, <2>1, <2>2, <2>3
  <2>5. SetsInOrder(s)'
    BY <1>0, <2>1, <2>2, <2>3
  <2>. QED
    BY <2>4, <2>5
<1>6. CASE Stamp(s)
  <2>. DEFINE b == Syncing(s)
  <2>1. /\ pc[s] = "sync" /\ spc[s][b] = "discover"
        /\ spc' = [spc EXCEPT ![s][b] = "write"]
        /\ UNCHANGED <<pc, want, next>>
    BY <1>6 DEF Stamp, requestVars
  <2>2. /\ b \in want[s] /\ b \in Protocols
        /\ \A q \in want[s] : q < b => spc[s][q] = "done"
        /\ \A q \in Protocols : q > b => spc[s][q] = "idle"
    BY <1>4, <2>1
  <2>. HIDE DEF b
  <2>3. \A p \in Protocols : spc'[s][p] = IF p = b THEN "write" ELSE spc[s][p]
    BY <2>1, <2>2 DEF Framed, Shape, Grids, IsGrid
  <2>4. SyncsInOrder(s)'
    BY <1>3, <2>1, <2>2, <2>3
  <2>5. SetsInOrder(s)'
    BY <1>0, <2>1, <2>2, <2>3
  <2>. QED
    BY <2>4, <2>5
<1>7. CASE SyncFails(s)
  <2>. DEFINE b == Syncing(s)
  <2>1. /\ pc[s] = "sync" /\ spc[s][b] \in {"discover", "write"}
        /\ spc' = [spc EXCEPT ![s][b] = "failed"]
        /\ Fail(s) /\ UNCHANGED <<want, next>>
    BY <1>7 DEF SyncFails, requestVars
  <2>2. /\ b \in want[s] /\ b \in Protocols
        /\ \A q \in want[s] : q < b => spc[s][q] = "done"
        /\ \A q \in Protocols : q > b => spc[s][q] = "idle"
    BY <1>4, <2>1
  <2>. HIDE DEF b
  <2>3. \A p \in Protocols : spc'[s][p] = IF p = b THEN "failed" ELSE spc[s][p]
    BY <2>1, <2>2 DEF Framed, Shape, Grids, IsGrid
  <2>4. pc'[s] = "failed"
    BY <1>0, <2>1 DEF Fail, Framed, Shape
  <2>5. SyncsInOrder(s)'
    BY <1>3, <2>1, <2>2, <2>3, <2>4
  <2>6. SetsInOrder(s)'
    BY <1>0, <2>1, <2>2, <2>3
  <2>. QED
    BY <2>5, <2>6
<1>8. CASE Set(s)
  <2>. DEFINE b == Syncing(s)
              synced == next[s][b] = NS[b]
              last == \A q \in want[s] : q <= b
  <2>1. /\ pc[s] = "sync" /\ spc[s][b] = "write"
        /\ spc' = [spc EXCEPT ![s][b] = IF synced THEN "done" ELSE @]
        /\ next' = [next EXCEPT ![s][b] = @ + 1]
        /\ pc' = [pc EXCEPT ![s] = IF synced /\ last THEN "inspect" ELSE @]
        /\ UNCHANGED want
    BY <1>8 DEF Set, requestVars
  <2>2. /\ b \in want[s] /\ b \in Protocols
        /\ \A q \in want[s] : q < b => spc[s][q] = "done"
        /\ \A q \in Protocols : q > b => spc[s][q] = "idle"
    BY <1>4, <2>1
  <2>3. next[s][b] \in Nat /\ next[s][b] <= NS[b]
    BY <1>0, <2>1, <2>2 DEF TypeOK
  <2>4. synced <=> next[s][b] = NS[b]
    OBVIOUS
  <2>5. last <=> \A q \in want[s] : q <= b
    OBVIOUS
  <2>. HIDE DEF b, synced, last
  <2>6. \A p \in Protocols : spc'[s][p] = IF p = b THEN IF synced THEN "done" ELSE "write"
                                          ELSE spc[s][p]
    BY <2>1, <2>2 DEF Framed, Shape, Grids, IsGrid
  <2>7. \A p \in Protocols : next'[s][p] = IF p = b THEN next[s][p] + 1 ELSE next[s][p]
    BY <2>1, <2>2 DEF Framed, Shape, Grids, IsGrid
  <2>8. pc'[s] = IF synced /\ last THEN "inspect" ELSE "sync"
    BY <1>0, <2>1 DEF Framed, Shape
  <2>9. SetsInOrder(s)'
    BY <1>0, <2>1, <2>2, <2>3, <2>4, <2>6, <2>7
  <2>10. CASE synced /\ last
    <3>1. \A p \in want[s] : p \in Protocols /\ (p = b \/ p < b)
      BY <1>0, <2>2, <2>5, <2>10
    <3>2. \A p \in want[s] : spc'[s][p] = "done"
      BY <2>2, <2>6, <2>10, <3>1
    <3>3. \A p \in Protocols : spc'[s][p] # "idle" => p \in want[s]
      BY <1>0, <2>2, <2>6
    <3>. QED
      BY <2>1, <2>8, <2>9, <2>10, <3>2, <3>3
  <2>11. CASE ~(synced /\ last)
    <3>1. synced => \E q \in want[s] : q > b
      BY <1>0, <2>2, <2>5, <2>11
    <3>. DEFINE x == IF synced THEN "done" ELSE "write"
    <3>2. x # "idle" /\ (x # "done" \/ \E q \in want[s] : q > b)
      BY <3>1
    <3>3. \A p \in Protocols : spc'[s][p] = IF p = b THEN x ELSE spc[s][p]
      BY <2>6
    <3>. HIDE DEF x
    <3>4. SyncsInOrder(s)'
      BY <1>3, <2>1, <2>2, <2>8, <2>11, <3>2, <3>3
    <3>. QED
      BY <2>9, <3>4
  <2>. QED
    BY <2>10, <2>11
<1>9. CASE Inspect(s)
  <2>1. UNCHANGED <<want, spc, next>>
    BY <1>9 DEF Inspect, requestVars, syncVars
  <2>2. pc[s] = "inspect" /\ pc'[s] \in {"inspect", "done"}
    BY <1>0, <1>9 DEF Inspect, Framed, Shape
  <2>. QED
    BY <1>0, <2>1, <2>2
<1>. QED
  BY <1>0, <1>1, <1>2, <1>5, <1>6, <1>7, <1>8, <1>9, OwnStep DEF Ordered, InspectOrder, SyncStep

\* An inspection goes through its protocols in order, and ends after the last.
LEMMA StepInspects ==
  ASSUME TypeOK, Framed, Kept, Ordered, [Next]_vars, NEW c \in Runs
  PROVE  InspectsInOrder(c)'
<1>0. /\ InspectsInOrder(c) /\ want[c] \subseteq Protocols
      /\ \A p \in Protocols : /\ NS[p] \in Nat /\ NS[p] >= 1 /\ p \in Nat
                              /\ Len(shown[c][p]) \in Nat
  BY ShownType DEF Ordered, InspectOrder, TypeOK
<1>. Len(<<>>) = 0
  OBVIOUS
<1>. USE DEF InspectsInOrder
<1>1. CASE UNCHANGED OwnState(c)
  BY <1>0, <1>1 DEF OwnState
<1>2. CASE pc'[c] = "failed"
  BY <1>2
<1>3. ASSUME NEW request, Begin(c, request)
      PROVE  InspectsInOrder(c)'
  <2>1. CASE Known(request)
    <3>1. /\ pc[c] = "idle" /\ pc'[c] \in {"sync", "inspect"}
          /\ want'[c] = Resolve(request) /\ shown' = shown
      BY <1>3, <2>1 DEF Begin, Framed, Shape, Kept
    <3>2. want'[c] \subseteq Protocols /\ want'[c] # {}
      BY <2>1, <3>1, CommandsAssumption DEF Known, Resolve
    <3>3. \A p \in Protocols : shown'[c][p] = <<>>
      BY <1>0, <3>1
    <3>4. \A p \in want'[c] : Len(shown'[c][p]) < NS[p]
      BY <1>0, <3>2, <3>3
    <3>. QED
      BY <3>1, <3>2, <3>3, <3>4
  <2>2. CASE ~Known(request)
    <3>1. pc'[c] = "failed"
      BY <1>3, <2>2 DEF Begin, Fail, Framed, Shape
    <3>. QED
      BY <1>2, <3>1
  <2>. QED
    BY <2>1, <2>2
<1>4. CASE Fail(c)
  BY <1>2, <1>4 DEF Fail, Framed, Shape
<1>5. CASE Inspect(c)
  <2>1. PICK b \in want[c] : \E entry \in Snapshots :
           /\ pc[c] = "inspect" /\ b \in Protocols
           /\ Len(shown[c][b]) < NS[b]
           /\ \A q \in want[c] : q < b => Len(shown[c][q]) = NS[q]
           /\ shown' = [shown EXCEPT ![c][b] = Append(@, entry)]
           /\ pc' = [pc EXCEPT ![c] =
                IF ~(Len(shown[c][b]) + 1 = NS[b] /\ \A q \in want[c] : q <= b) THEN "inspect"
                ELSE IF c \in Syncs THEN "done" ELSE "fetch"]
    BY <1>5, InspectShows DEF Ordered
  <2>2. PICK entry \in Snapshots : shown' = [shown EXCEPT ![c][b] = Append(@, entry)]
    BY <2>1
  <2>3. want' = want
    BY <1>5 DEF Inspect, requestVars
  <2>. DEFINE n == Len(shown[c][b]) + 1
              last == \A q \in want[c] : q <= b
  <2>4. last <=> \A q \in want[c] : q <= b
    OBVIOUS
  <2>5. n \in Nat /\ n <= NS[b] /\ NS[b] \in Nat
    BY <1>0, <2>1
  <2>6. \A p \in Protocols : p # b => shown'[c][p] = shown[c][p]
    BY <2>2 DEF Ordered, InspectOrder, IsGrid
  <2>7. Len(shown'[c][b]) = n
    <3>1. shown'[c][b] = Append(shown[c][b], entry)
      BY <2>1, <2>2 DEF Ordered, InspectOrder, IsGrid
    <3>2. shown[c][b] \in Seq(Snapshots)
      BY <2>1, ShownType
    <3>. QED
      BY <3>1, <3>2
  <2>8. \A p \in want[c] : p < b => Len(shown'[c][p]) = NS[p]
    BY <1>0, <2>1, <2>6
  <2>9. pc'[c] = IF ~(n = NS[b] /\ last) THEN "inspect" ELSE IF c \in Syncs THEN "done" ELSE "fetch"
    BY <2>1 DEF Framed, Shape
  <2>10. ASSUME NEW p \in want[c], p > b
         PROVE  shown'[c][p] = <<>>
    <3>1. p \in Protocols /\ p # b
      BY <1>0, <2>1, <2>10
    <3>2. shown[c][p] # <<>> => Len(shown[c][b]) = NS[b]
      BY <1>0, <2>1, <2>10
    <3>. QED
      BY <2>1, <2>6, <3>1, <3>2
  <2>. HIDE DEF n, last
  <2>11. CASE n = NS[b] /\ last
    <3>1. ASSUME NEW p \in want[c] PROVE Len(shown'[c][p]) = NS[p]
      <4>1. p = b \/ p < b
        BY <1>0, <2>1, <2>4, <2>11
      <4>. QED
        BY <2>7, <2>8, <2>11, <4>1
    <3>. QED
      BY <2>3, <2>9, <2>11, <3>1
  <2>12. CASE ~(n = NS[b] /\ last)
    <3>1. \E p \in want'[c] : Len(shown'[c][p]) < NS[p]
      <4>1. CASE n # NS[b]
        BY <2>3, <2>5, <2>7, <4>1
      <4>2. CASE ~last
        <5>1. PICK p \in want[c] : p > b
          BY <1>0, <2>1, <2>4, <4>2
        <5>2. shown'[c][p] = <<>> /\ p \in Protocols
          BY <1>0, <2>10, <5>1
        <5>3. Len(shown'[c][p]) < NS[p]
          BY <1>0, <5>2
        <5>. QED
          BY <2>3, <5>3
      <4>. QED
        BY <2>12, <4>1, <4>2
    <3>2. ASSUME NEW p \in want[c], NEW q \in want[c], q < p, shown'[c][p] # <<>>
          PROVE  Len(shown'[c][q]) = NS[q]
      <4>1. p <= b /\ q < b
        BY <1>0, <2>1, <2>10, <3>2
      <4>. QED
        BY <2>8, <4>1
    <3>. QED
      BY <2>3, <2>9, <2>12, <3>1, <3>2
  <2>. QED
    BY <2>11, <2>12
<1>6. CASE c \in Syncs /\ Set(c)
  <2>1. pc[c] = "sync" /\ pc'[c] \in {"sync", "inspect"} /\ UNCHANGED <<want, shown>>
    BY <1>6 DEF Set, requestVars, Framed, Shape
  <2>2. Syncing(c) \in want[c]
    BY <1>6, <2>1, SyncTurn DEF Ordered
  <2>3. \A p \in Protocols : shown'[c][p] = <<>>
    BY <1>0, <2>1
  <2>4. \A p \in want'[c] : p \in Protocols /\ Len(shown'[c][p]) < NS[p]
    BY <1>0, <2>1, <2>3
  <2>. QED
    BY <2>1, <2>2, <2>3, <2>4
<1>7. CASE AppendPositions(c)
  <2>1. pc[c] = "fetch" /\ pc'[c] \in {"fetch", "done"} /\ UNCHANGED <<want, shown>>
    BY <1>7 DEF AppendPositions, requestVars, Framed, Shape
  <2>. QED
    BY <1>0, <2>1
<1>8. CASE c \in Syncs /\ (BeginSync(c) \/ SyncStep(c))
  <2>1. CASE BeginSync(c)
    BY <1>3, <2>1 DEF BeginSync
  <2>2. CASE Discover(c) \/ Stamp(c)
    BY <1>1, <2>2 DEF Discover, Stamp, requestVars, OwnState
  <2>3. CASE SyncFails(c)
    BY <1>4, <2>3 DEF SyncFails
  <2>. QED
    BY <1>5, <1>6, <1>8, <2>1, <2>2, <2>3 DEF SyncStep
<1>9. CASE c \in Fetches /\ (BeginPositions(c) \/ FetchStep(c))
  <2>1. CASE BeginPositions(c)
    BY <1>3, <2>1 DEF BeginPositions
  <2>2. CASE StartFetch(c) \/ Decide(c) \/ ChainFails(c)
    <3>1. Fail(c) \/ UNCHANGED OwnState(c)
      BY <2>2 DEF StartFetch, Decide, ChainFails, requestVars, OwnState
    <3>. QED
      BY <1>1, <1>4, <3>1
  <2>3. CASE Get(c)
    BY <1>1, <2>3 DEF Get, requestVars, OwnState
  <2>. QED
    BY <1>5, <1>7, <1>9, <2>1, <2>2, <2>3 DEF FetchStep
<1>. QED
  BY <1>1, <1>8, <1>9, OwnStep DEF Ordered, InspectOrder

\* What is shown stays a table of commands and protocols.
LEMMA StepShown ==
  ASSUME IsGrid(shown, Runs), [Next]_vars
  PROVE  IsGrid(shown', Runs)
<1>1. CASE UNCHANGED shown
  BY <1>1
<1>2. ASSUME NEW c, Fail(c) PROVE IsGrid(shown', Runs)
  BY <1>2 DEF Fail, IsGrid
<1>3. ASSUME NEW c, Inspect(c) PROVE IsGrid(shown', Runs)
  BY <1>3 DEF Inspect, IsGrid
<1>. QED
  BY <1>1, <1>2, <1>3
     DEF Next, SyncStep, FetchStep, Tick, BeginSync, BeginPositions, Begin, Discover, Stamp, Set,
         SyncFails, StartFetch, Get, Decide, AppendPositions, ChainFails, vars

\* Positions are fetched protocol by protocol, until none is left.
LEMMA StepFetches ==
  ASSUME TypeOK, Framed, Kept, Ordered, [Next]_vars, NEW f \in Fetches
  PROVE  FetchesInOrder(f)'
<1>0. /\ FetchesInOrder(f) /\ InspectsInOrder(f) /\ f \in Runs /\ f \notin Syncs
      /\ want[f] \subseteq Protocols
  BY CommandsAssumption DEF Ordered, FetchOrder, InspectOrder, Runs, TypeOK
<1>. USE DEF FetchesInOrder
<1>1. CASE UNCHANGED OwnState(f) /\ UNCHANGED OwnFetch(f)
  BY <1>0, <1>1 DEF OwnState, OwnFetch
<1>2. CASE BeginPositions(f)
  <2>1. UNCHANGED <<fpc, gnext, report>>
    BY <1>2 DEF BeginPositions, fetchVars
  <2>2. PICK request \in Requests[f] : Begin(f, request)
    BY <1>2 DEF BeginPositions
  <2>3. pc[f] = "idle" /\ pc'[f] \in {"inspect", "failed"}
    BY <1>0, <2>2 DEF Begin, Fail, Framed, Shape
  <2>. QED
    BY <1>0, <2>1, <2>3
<1>3. CASE Inspect(f)
  <2>1. UNCHANGED <<want, fpc, gnext, report>>
    BY <1>3 DEF Inspect, requestVars, fetchVars
  <2>2. pc[f] = "inspect" /\ pc'[f] \in {"inspect", "fetch"}
    BY <1>0, <1>3 DEF Inspect, Framed, Shape
  <2>3. want[f] # {}
    BY <1>0, <2>2 DEF InspectsInOrder
  <2>. QED
    BY <1>0, <2>1, <2>2, <2>3
<1>4. ASSUME pc[f] = "fetch" PROVE Fetching(f) \in want[f] /\ Fetching(f) \in Protocols
  BY <1>4, FetchTurn DEF Ordered
<1>5. CASE StartFetch(f)
  <2>1. /\ pc[f] = "fetch" /\ pc'[f] \in {"fetch", "failed"}
        /\ UNCHANGED <<want, gnext, report>>
    BY <1>0, <1>5 DEF StartFetch, Fail, requestVars, Framed, Shape
  <2>2. \A p \in Protocols : fpc'[f][p] \in {fpc[f][p], "read"}
    BY <1>5 DEF StartFetch, Framed, Shape, Grids, IsGrid
  <2>. QED
    BY <1>0, <2>1, <2>2
<1>6. CASE Get(f)
  <2>. DEFINE b == Fetching(f)
              n == gnext[f][b]
  <2>1. /\ pc[f] = "fetch" /\ fpc[f][b] = "read"
        /\ gnext' = [gnext EXCEPT ![f][b] = n + 1]
        /\ UNCHANGED <<pc, want, fpc, report>>
    BY <1>6 DEF Get, requestVars
  <2>. HIDE DEF b, n
  <2>2. \A p \in Protocols : p # b => gnext'[f][p] = gnext[f][p]
    BY <2>1 DEF Framed, Shape, Grids, IsGrid
  <2>. QED
    BY <1>0, <2>1, <2>2
<1>7. CASE Decide(f)
  <2>. DEFINE b == Fetching(f)
              verdict == Verdict(f, b)
  <2>1. /\ pc[f] = "fetch" /\ pc'[f] \in {"fetch", "failed"}
        /\ fpc' = [fpc EXCEPT ![f][b] = verdict]
        /\ UNCHANGED <<want, gnext, report>>
    BY <1>0, <1>7 DEF Decide, Fail, requestVars, Framed, Shape
  <2>2. verdict # "idle"
    BY DEF Verdict
  <2>. HIDE DEF b, verdict
  <2>3. \A p \in Protocols : fpc'[f][p] = "idle" => fpc[f][p] = "idle"
    BY <2>1, <2>2 DEF Framed, Shape, Grids, IsGrid
  <2>. QED
    BY <1>0, <2>1, <2>3
<1>8. CASE AppendPositions(f)
  <2>. DEFINE b == Fetching(f)
  <2>1. /\ pc[f] = "fetch"
        /\ report' = [report EXCEPT ![f] = @ \cup {b}]
        /\ pc' = [pc EXCEPT ![f] = IF report'[f] = want[f] THEN "done" ELSE @]
        /\ UNCHANGED <<want, fpc, gnext>>
    BY <1>8 DEF AppendPositions, requestVars, fetchVars
  <2>2. b \in want[f]
    BY <1>4, <2>1
  <2>. HIDE DEF b
  <2>3. report'[f] = report[f] \cup {b}
    BY <2>1 DEF Kept
  <2>4. pc'[f] = IF report'[f] = want[f] THEN "done" ELSE "fetch"
    BY <1>0, <2>1 DEF Framed, Shape
  <2>. QED
    BY <1>0, <2>1, <2>2, <2>3, <2>4
<1>9. CASE ChainFails(f)
  <2>1. pc'[f] = "failed" /\ UNCHANGED <<want, fpc, gnext, report>>
    BY <1>0, <1>9 DEF ChainFails, Fail, requestVars, fetchVars, Framed, Shape
  <2>. QED
    BY <1>0, <2>1
<1>. QED
  BY <1>0, <1>1, <1>2, <1>3, <1>5, <1>6, <1>7, <1>8, <1>9, OwnStep
     DEF Ordered, InspectOrder, FetchStep

\* Nothing has begun.
LEMMA InitOrdered == Init => TypeOK /\ Ordered
<1> SUFFICES ASSUME Init PROVE TypeOK /\ Ordered
  OBVIOUS
<1>1. Ordered
  BY CommandsAssumption
     DEF Init, Ordered, SyncOrder, NextOrder, InspectOrder, FetchOrder, SyncsInOrder, SetsInOrder,
         InspectsInOrder, FetchesInOrder, Each, IsGrid, Runs
<1>2. CommandTyped
  <2>1. \A c \in Runs, p \in Protocols : shown[c][p] \in Seq(Snapshots) /\ Len(shown[c][p]) <= NS[p]
    BY CommandsAssumption DEF Init, Each
  <2>. QED
    BY <2>1, CommandsAssumption DEF Init, CommandTyped, Runs
<1>3. SyncTyped
  BY CommandsAssumption DEF Init, SyncTyped, Each
<1>4. FetchTyped
  BY CommandsAssumption DEF Init, FetchTyped, Each
<1>5. now \in Time /\ faults \in 0..MaxFaults
  BY CommandsAssumption DEF Init
<1>6. RowsTyped /\ GotTyped
  BY InitFramed DEF Framed
<1>. QED
  BY <1>1, <1>2, <1>3, <1>4, <1>5, <1>6, TypeParts

\* The state of the commands is well formed and their work in order.
THEOREM OrderedHolds == Spec => [](WholeInv /\ TypeOK /\ Ordered)
<1>1. Init => TypeOK /\ Ordered
  BY InitOrdered
<1>2. WholeInv /\ WholeInv' /\ TypeOK /\ Ordered /\ [Next]_vars => (TypeOK /\ Ordered)'
  <2> SUFFICES ASSUME WholeInv, WholeInv', TypeOK, Ordered, [Next]_vars
               PROVE  TypeOK' /\ Ordered'
    OBVIOUS
  <2>1. Framed /\ Kept /\ Grids /\ Framed'
    BY DEF WholeInv, Framed, Shape
  <2>2. now' \in Time /\ faults' \in 0..MaxFaults
    BY TypeClock
  <2>3. CommandTyped' /\ SyncTyped' /\ FetchTyped'
    BY <2>1, TypeCommand, TypeSync, TypeFetch
  <2>4. RowsTyped' /\ GotTyped'
    BY <2>1 DEF Framed
  <2>5. TypeOK'
    BY <2>2, <2>3, <2>4 DEF TypeOK, CommandTyped, SyncTyped, FetchTyped, RowsTyped, GotTyped
  <2>6. SyncOrder' /\ NextOrder'
    BY <2>1, StepSyncs DEF SyncOrder, NextOrder
  <2>7. InspectOrder'
    BY <2>1, StepInspects, StepShown DEF InspectOrder, Ordered
  <2>8. FetchOrder'
    BY <2>1, StepFetches DEF FetchOrder
  <2>. QED
    BY <2>5, <2>6, <2>7, <2>8 DEF Ordered
<1>3. Spec => []WholeInv
  BY WholeInvHolds
<1>. QED
  BY <1>1, <1>2, <1>3, PTL DEF Spec

\* In every state of every behaviour the variables are what the code's are: no
\* namespace is set, got or inspected beyond the last of its protocol, and no
\* stage is reached that the command does not have.
THEOREM CommandsTypeOK == Spec => []TypeOK
  BY OrderedHolds, PTL

-----------------------------------------------------------------------------
(* What a sync leaves behind. *)

\* A command that has ended stays so.
LEMMA StepEnded ==
  ASSUME Framed, Kept, IsGrid(shown, Runs), [Next]_vars, NEW c \in Runs, pc[c] \in Ended
  PROVE  UNCHANGED pc[c]
<1>1. CASE UNCHANGED OwnState(c)
  BY <1>1 DEF OwnState
<1>2. ~(BeginSync(c) \/ SyncStep(c) \/ BeginPositions(c) \/ FetchStep(c))
  BY DEF Ended, BeginSync, BeginPositions, Begin, SyncStep, FetchStep, Discover, Stamp, Set,
         SyncFails, Inspect, StartFetch, Get, Decide, AppendPositions, ChainFails
<1>. QED
  BY <1>1, <1>2, OwnStep

\* A Set, entry by entry.
LEMMA SetFacts ==
  ASSUME TypeOK, Framed, Ordered, NEW s \in Syncs, Set(s)
  PROVE  \E b \in Protocols :
           /\ pc[s] = "sync" /\ spc[s][b] = "write" /\ next[s][b] \in 1..NS[b]
           /\ \A p \in Protocols : \A n \in 1..NS[p] :
                rows'[p][n] = IF p = b /\ n = next[s][b] THEN s ELSE rows[p][n]
           /\ \A t \in Syncs, p \in Protocols :
                next'[t][p] = IF t = s /\ p = b THEN next[t][p] + 1 ELSE next[t][p]
           /\ \A c \in Runs, p \in Protocols :
                during'[c][p] = IF p = b /\ c \in Active \ {s} THEN during[c][p] \cup {s}
                                ELSE during[c][p]
<1>. DEFINE b == Syncing(s)
            m == next[s][b]
<1>1. /\ pc[s] = "sync" /\ spc[s][b] = "write"
      /\ rows' = [rows EXCEPT ![b][m] = s]
      /\ next' = [next EXCEPT ![s][b] = @ + 1]
      /\ during' = [c \in Runs |->
                      IF c \in Active \ {s} THEN [during[c] EXCEPT ![b] = @ \cup {s}] ELSE during[c]]
  BY DEF Set
<1>2. b \in Protocols
  BY <1>1, SyncTurn DEF Ordered
<1>3. m \in 1..NS[b]
  <2>1. m \in 1..(NS[b] + 1) /\ NS[b] \in Nat
    BY <1>2, CommandsAssumption DEF TypeOK
  <2>2. m <= NS[b]
    BY <1>1, <1>2 DEF Ordered, NextOrder, SetsInOrder
  <2>. HIDE DEF m
  <2>. QED
    BY <2>1, <2>2
<1>4. \A p \in Protocols : \A n \in 1..NS[p] :
        rows'[p][n] = IF p = b /\ n = m THEN s ELSE rows[p][n]
  <2>. HIDE DEF b, m
  <2> SUFFICES ASSUME NEW p \in Protocols, NEW n \in 1..NS[p]
               PROVE  rows'[p][n] = IF p = b /\ n = m THEN s ELSE rows[p][n]
    OBVIOUS
  <2>1. CASE p = b
    <3>1. rows'[p] = [rows[p] EXCEPT ![m] = s]
      BY <1>1, <2>1 DEF Framed, Shape, Grids
    <3>. QED
      BY <2>1, <3>1 DEF Framed, RowsTyped
  <2>2. CASE p # b
    BY <1>1, <2>2 DEF Framed, Shape, Grids
  <2>. QED
    BY <2>1, <2>2
<1>5. \A t \in Syncs, p \in Protocols :
        next'[t][p] = IF t = s /\ p = b THEN next[t][p] + 1 ELSE next[t][p]
  <2>. HIDE DEF b, m
  <2>. QED
    BY <1>1 DEF Framed, Shape, Grids, IsGrid
<1>6. \A c \in Runs, p \in Protocols :
        during'[c][p] = IF p = b /\ c \in Active \ {s} THEN during[c][p] \cup {s} ELSE during[c][p]
  <2>. HIDE DEF b, m
  <2>. QED
    BY <1>1, <1>2 DEF TypeOK
<1>. HIDE DEF b
<1>. QED
  BY <1>1, <1>2, <1>3, <1>4, <1>5, <1>6

\* A Stamp, entry by entry.
LEMMA StampFacts ==
  ASSUME TypeOK, Framed, Ordered, NEW s \in Syncs, Stamp(s)
  PROVE  \E b \in Protocols :
           /\ spc[s][b] = "discover"
           /\ UNCHANGED <<now, rows, next, during>>
           /\ \A t \in Syncs, p \in Protocols :
                /\ spc'[t][p] = IF t = s /\ p = b THEN "write" ELSE spc[t][p]
                /\ stamp'[t][p] = IF t = s /\ p = b THEN now ELSE stamp[t][p]
                /\ clash[t][p] \subseteq clash'[t][p]
           /\ \A t \in Syncs : spc[t][b] = "write" => t \in clash'[s][b]
<1>. DEFINE b == Syncing(s)
<1>1. /\ pc[s] = "sync" /\ spc[s][b] = "discover"
      /\ spc' = [spc EXCEPT ![s][b] = "write"]
      /\ stamp' = [stamp EXCEPT ![s][b] = now]
      /\ clash' = Meet(clash, s, b, Writing(b))
      /\ UNCHANGED <<now, rows, next, during>>
  BY DEF Stamp
<1>2. b \in Protocols
  BY <1>1, SyncTurn DEF Ordered
<1>. HIDE DEF b
<1>3. \A t \in Syncs, p \in Protocols :
        /\ spc'[t][p] = IF t = s /\ p = b THEN "write" ELSE spc[t][p]
        /\ stamp'[t][p] = IF t = s /\ p = b THEN now ELSE stamp[t][p]
  BY <1>1 DEF Framed, Shape, Grids, IsGrid
<1>4. /\ \A t \in Syncs, p \in Protocols : clash[t][p] \subseteq clash'[t][p]
      /\ Writing(b) \subseteq clash'[s][b]
  BY <1>1, <1>2, MeetEntry DEF Framed, Shape, Grids
<1>5. \A t \in Syncs : spc[t][b] = "write" => t \in clash'[s][b]
  BY <1>4 DEF Writing
<1>. QED
  BY <1>1, <1>2, <1>3, <1>4, <1>5

\* Any other step leaves the stamps and the rows alone.
LEMMA StepElse ==
  ASSUME Framed, [Next]_vars, \A s \in Syncs : ~Set(s) /\ ~Stamp(s)
  PROVE  /\ UNCHANGED <<rows, next, stamp, clash, during>>
         /\ \A t \in Syncs, p \in Protocols :
              /\ spc'[t][p] = "write" => spc[t][p] = "write"
              /\ spc'[t][p] \in {"idle", "discover"} => spc[t][p] \in {"idle", "discover"}
<1>. DEFINE Still == UNCHANGED <<rows, next, stamp, clash, during>>
            Sync == \A t \in Syncs, p \in Protocols :
              /\ spc'[t][p] = "write" => spc[t][p] = "write"
              /\ spc'[t][p] \in {"idle", "discover"} => spc[t][p] \in {"idle", "discover"}
<1>1. CASE UNCHANGED <<syncVars, during>>
  BY <1>1 DEF syncVars
<1>2. ASSUME NEW s \in Syncs, Discover(s) PROVE Still /\ Sync
  BY <1>2 DEF Discover, Framed, Shape, Grids, IsGrid
<1>3. ASSUME NEW s \in Syncs, SyncFails(s) PROVE Still /\ Sync
  BY <1>3 DEF SyncFails, Framed, Shape, Grids, IsGrid
<1>. QED
  BY <1>1, <1>2, <1>3
     DEF Next, SyncStep, FetchStep, Tick, BeginSync, BeginPositions, Inspect, StartFetch, Get,
         Decide, AppendPositions, ChainFails, vars

\* The clock goes on, and a stamp is of its moment.
LEMMA StepTimely ==
  ASSUME TypeOK, Framed, Kept, Clock, Ordered, Timely, [Next]_vars
  PROVE  Timely'
<1>0. now \in Nat /\ now' \in Nat /\ now' >= now
  BY StepClock DEF Framed, Clock
<1> SUFFICES ASSUME NEW s \in Syncs, NEW p \in Protocols
             PROVE  /\ stamp'[s][p] <= now'
                    /\ spc'[s][p] \in {"idle", "discover"} => stamp'[s][p] = 0
  BY DEF Timely
<1>1. stamp[s][p] \in Nat /\ stamp[s][p] <= now
      /\ (spc[s][p] \in {"idle", "discover"} => stamp[s][p] = 0)
  BY DEF Timely, Clock
<1>2. stamp'[s][p] \in {stamp[s][p], now}
  BY StepStamped DEF Framed, Shape
<1>3. stamp'[s][p] <= now'
  BY <1>0, <1>1, <1>2
<1>4. ASSUME NEW u \in Syncs, Stamp(u)
      PROVE  spc'[s][p] \in {"idle", "discover"} => stamp'[s][p] = 0
  BY <1>1, <1>4, StampFacts
<1>5. ASSUME NEW u \in Syncs, Set(u)
      PROVE  spc'[s][p] \in {"idle", "discover"} => stamp'[s][p] = 0
  <2>1. stamp' = stamp
    BY <1>5 DEF Set
  <2>2. spc'[s][p] \in {spc[s][p], "done"}
    BY <1>5 DEF Set, Framed, Shape, Grids, IsGrid
  <2>. QED
    BY <1>1, <2>1, <2>2
<1>6. CASE \A u \in Syncs : ~Set(u) /\ ~Stamp(u)
  BY <1>1, <1>3, <1>6, StepElse
<1>. QED
  BY <1>3, <1>4, <1>5, <1>6

\* Whoever writes now stamped last, or knows of the one that did.
LEMMA StepMet ==
  ASSUME TypeOK, Framed, Clock, Ordered, Timely, Met, [Next]_vars
  PROVE  Met'
<1> SUFFICES ASSUME NEW s \in Syncs, NEW t \in Syncs, NEW p \in Protocols, spc'[t][p] = "write"
             PROVE  stamp'[t][p] >= stamp'[s][p] \/ t \in clash'[s][p]
  BY DEF Met, AsGood
<1>1. ASSUME spc[t][p] = "write"
      PROVE  stamp[t][p] >= stamp[s][p] \/ t \in clash[s][p]
  BY <1>1 DEF Met, AsGood
<1>2. now \in Nat /\ \A u \in Syncs : stamp[u][p] \in Nat /\ stamp[u][p] <= now
  BY DEF Clock, Timely
<1>3. ASSUME NEW u \in Syncs, Stamp(u)
      PROVE  stamp'[t][p] >= stamp'[s][p] \/ t \in clash'[s][p]
  <2>1. PICK b \in Protocols :
           /\ \A v \in Syncs, q \in Protocols :
                /\ spc'[v][q] = IF v = u /\ q = b THEN "write" ELSE spc[v][q]
                /\ stamp'[v][q] = IF v = u /\ q = b THEN now ELSE stamp[v][q]
                /\ clash[v][q] \subseteq clash'[v][q]
           /\ \A v \in Syncs : spc[v][b] = "write" => v \in clash'[u][b]
    BY <1>3, StampFacts
  <2>2. CASE t = u /\ p = b
    BY <1>2, <2>1, <2>2
  <2>3. CASE ~(t = u /\ p = b)
    <3>1. spc[t][p] = "write" /\ stamp'[t][p] = stamp[t][p]
      BY <2>1, <2>3
    <3>. QED
      BY <1>1, <2>1, <3>1
  <2>. QED
    BY <2>2, <2>3
<1>4. ASSUME NEW u \in Syncs, Set(u)
      PROVE  stamp'[t][p] >= stamp'[s][p] \/ t \in clash'[s][p]
  <2>1. stamp' = stamp /\ clash' = clash
    BY <1>4 DEF Set
  <2>2. PICK b : spc[u][b] = "write" /\ spc'[t][p] \in {spc[t][p], IF t = u /\ p = b THEN "write" ELSE "done"}
    BY <1>4 DEF Set, Framed, Shape, Grids, IsGrid
  <2>. QED
    BY <1>1, <2>1, <2>2
<1>5. CASE \A u \in Syncs : ~Set(u) /\ ~Stamp(u)
  BY <1>1, <1>5, StepElse
<1>. QED
  BY <1>3, <1>4, <1>5

\* What is set stays as good as it was when it is set again.
LEMMA StepRefreshed ==
  ASSUME TypeOK, Framed, Clock, Backed, Ordered, Met, Refreshed, [Next]_vars
  PROVE  Refreshed'
<1> SUFFICES ASSUME NEW s \in Syncs, NEW p \in Protocols, NEW n \in 1..NS[p], n < next'[s][p]
             PROVE  /\ rows'[p][n] \in Syncs
                    /\ \/ stamp'[rows'[p][n]][p] >= stamp'[s][p]
                       \/ rows'[p][n] \in clash'[s][p]
  BY DEF Refreshed, AsGood
<1>. DEFINE row == rows[p][n]
<1>1. ASSUME n < next[s][p]
      PROVE  row \in Syncs /\ (stamp[row][p] >= stamp[s][p] \/ row \in clash[s][p])
  BY <1>1 DEF Refreshed, AsGood
<1>2. ASSUME NEW u \in Syncs, Set(u)
      PROVE  /\ rows'[p][n] \in Syncs
             /\ \/ stamp'[rows'[p][n]][p] >= stamp'[s][p]
                \/ rows'[p][n] \in clash'[s][p]
  <2>1. PICK b \in Protocols :
           /\ spc[u][b] = "write" /\ next[u][b] \in 1..NS[b]
           /\ \A q \in Protocols : \A m \in 1..NS[q] :
                rows'[q][m] = IF q = b /\ m = next[u][b] THEN u ELSE rows[q][m]
           /\ \A t \in Syncs, q \in Protocols :
                next'[t][q] = IF t = u /\ q = b THEN next[t][q] + 1 ELSE next[t][q]
    BY <1>2, SetFacts
  <2>2. stamp' = stamp /\ clash' = clash
    BY <1>2 DEF Set
  <2>3. CASE p = b /\ n = next[u][b]
    BY <2>1, <2>2, <2>3 DEF Met, AsGood
  <2>4. CASE ~(p = b /\ n = next[u][b])
    <3>1. rows'[p][n] = row
      BY <2>1, <2>4
    <3>2. n < next[s][p]
      <4>1. next[s][p] \in 1..(NS[p] + 1) /\ NS[p] \in Nat /\ n \in Nat
        BY CommandsAssumption DEF TypeOK
      <4>2. next'[s][p] = IF s = u /\ p = b THEN next[s][p] + 1 ELSE next[s][p]
        BY <2>1
      <4>. QED
        BY <2>4, <4>1, <4>2
    <3>. QED
      BY <1>1, <2>2, <3>1, <3>2
  <2>. QED
    BY <2>3, <2>4
<1>3. ASSUME NEW u \in Syncs, Stamp(u)
      PROVE  /\ rows'[p][n] \in Syncs
             /\ \/ stamp'[rows'[p][n]][p] >= stamp'[s][p]
                \/ rows'[p][n] \in clash'[s][p]
  <2>1. PICK b \in Protocols :
           /\ spc[u][b] = "discover"
           /\ UNCHANGED <<rows, next>>
           /\ \A v \in Syncs, q \in Protocols :
                /\ stamp'[v][q] = IF v = u /\ q = b THEN now ELSE stamp[v][q]
                /\ clash[v][q] \subseteq clash'[v][q]
    BY <1>3, StampFacts
  <2>2. row \in Syncs /\ (stamp[row][p] >= stamp[s][p] \/ row \in clash[s][p])
    BY <1>1, <2>1
  <2>3. stamp'[row][p] = stamp[row][p]
    <3>1. spc[row][p] \in Stamped
      BY <2>2 DEF Backed
    <3>. QED
      BY <2>2, <3>1, StepStamped DEF Framed, Shape
  <2>4. ~(s = u /\ p = b)
    <3>1. next[u][b] = 1
      BY <2>1 DEF Ordered, NextOrder, SetsInOrder
    <3>. QED
      BY <2>1, <3>1
  <2>. QED
    BY <2>1, <2>2, <2>3, <2>4
<1>4. CASE \A u \in Syncs : ~Set(u) /\ ~Stamp(u)
  BY <1>1, <1>4, StepElse
<1>. QED
  BY <1>2, <1>3, <1>4

\* Whoever else sets a row of p while s runs is remembered.
LEMMA StepOwnRows ==
  ASSUME TypeOK, Framed, Kept, Ordered, OwnRows, [Next]_vars
  PROVE  OwnRows'
<1> SUFFICES ASSUME NEW s \in Syncs, NEW p \in Protocols, NEW n \in 1..NS[p],
                    pc'[s] \in {"sync", "inspect"}, n < next'[s][p]
             PROVE  rows'[p][n] \in {s} \cup during'[s][p]
  BY DEF OwnRows
<1>0. s \in Runs
  BY DEF Runs
<1>1. pc[s] \in {"idle", "sync", "inspect"}
  <2>1. pc[s] \notin Ended
    BY <1>0, StepEnded DEF Ended, Ordered, InspectOrder
  <2>. QED
    BY <1>0, <2>1 DEF TypeOK
<1>2. ASSUME n < next[s][p]
      PROVE  pc[s] \in {"sync", "inspect"} /\ rows[p][n] \in {s} \cup during[s][p]
  <2>1. pc[s] # "idle"
    BY <1>2 DEF Ordered, SyncOrder, NextOrder, SyncsInOrder, SetsInOrder
  <2>. QED
    BY <1>1, <1>2, <2>1 DEF OwnRows
<1>3. ASSUME NEW u \in Syncs, Set(u)
      PROVE  rows'[p][n] \in {s} \cup during'[s][p]
  <2>1. PICK b \in Protocols :
           /\ pc[u] = "sync" /\ spc[u][b] = "write" /\ next[u][b] \in 1..NS[b]
           /\ \A q \in Protocols : \A m \in 1..NS[q] :
                rows'[q][m] = IF q = b /\ m = next[u][b] THEN u ELSE rows[q][m]
           /\ \A t \in Syncs, q \in Protocols :
                next'[t][q] = IF t = u /\ q = b THEN next[t][q] + 1 ELSE next[t][q]
           /\ \A c \in Runs, q \in Protocols :
                during'[c][q] = IF q = b /\ c \in Active \ {u} THEN during[c][q] \cup {u}
                                ELSE during[c][q]
    BY <1>3, SetFacts
  <2>2. during[s][p] \subseteq during'[s][p]
    BY <1>0, <2>1
  <2>3. CASE p = b /\ n = next[u][b]
    <3>1. rows'[p][n] = u
      BY <2>1, <2>3
    <3>2. CASE u # s
      <4>1. pc'[s] = pc[s]
        BY <1>3, <3>2 DEF Set, Framed, Shape
      <4>2. s \in Active \ {u}
        BY <1>0, <3>2, <4>1 DEF Active, Ended
      <4>. QED
        BY <1>0, <2>1, <2>3, <3>1, <4>2
    <3>. QED
      BY <3>1, <3>2
  <2>4. CASE ~(p = b /\ n = next[u][b])
    <3>1. rows'[p][n] = rows[p][n]
      BY <2>1, <2>4
    <3>2. n < next[s][p]
      <4>1. next[s][p] \in 1..(NS[p] + 1) /\ NS[p] \in Nat /\ n \in Nat
        BY CommandsAssumption DEF TypeOK
      <4>2. next'[s][p] = IF s = u /\ p = b THEN next[s][p] + 1 ELSE next[s][p]
        BY <2>1
      <4>. QED
        BY <2>4, <4>1, <4>2
    <3>. QED
      BY <1>2, <2>2, <3>1, <3>2
  <2>. QED
    BY <2>3, <2>4
<1>4. ASSUME UNCHANGED <<rows, next, during>>
      PROVE  rows'[p][n] \in {s} \cup during'[s][p]
  BY <1>2, <1>4
<1>5. ASSUME NEW u \in Syncs, Stamp(u)
      PROVE  rows'[p][n] \in {s} \cup during'[s][p]
  BY <1>4, <1>5, StampFacts
<1>6. CASE \A u \in Syncs : ~Set(u) /\ ~Stamp(u)
  BY <1>4, <1>6, StepElse
<1>. QED
  BY <1>3, <1>5, <1>6

\* What other processes did while a command runs is not forgotten.
LEMMA StepDuring ==
  ASSUME TypeOK, Framed, Ordered, [Next]_vars, NEW c \in Runs, NEW p \in Protocols
  PROVE  during[c][p] \subseteq during'[c][p]
<1>1. ASSUME NEW u \in Syncs, Set(u) PROVE during[c][p] \subseteq during'[c][p]
  <2>1. PICK b \in Protocols :
           /\ pc[u] = "sync" /\ spc[u][b] = "write"
           /\ \A d \in Runs, q \in Protocols :
                during'[d][q] = IF q = b /\ d \in Active \ {u} THEN during[d][q] \cup {u}
                                ELSE during[d][q]
    BY <1>1, SetFacts
  <2>. QED
    BY <2>1
<1>2. ASSUME NEW u \in Syncs, Stamp(u) PROVE during[c][p] \subseteq during'[c][p]
  BY <1>2, StampFacts
<1>3. CASE \A u \in Syncs : ~Set(u) /\ ~Stamp(u)
  BY <1>3, StepElse
<1>. QED
  BY <1>1, <1>2, <1>3

\* An inspection adds one entry, for the next namespace; what is shown before
\* it stays.
LEMMA InspectEntry ==
  ASSUME TypeOK, Framed, Ordered, NEW c \in Runs, Inspect(c),
         NEW p \in Protocols, NEW n \in 1..Len(shown'[c][p])
  PROVE  \/ n \in 1..Len(shown[c][p]) /\ shown'[c][p][n] = shown[c][p][n]
         \/ /\ n \in 1..NS[p] /\ p \in want[c]
            /\ shown'[c][p][n].row \in {rows[p][n], ReadError}
            /\ shown'[c][p][n].stale <=>
                 StaleIn(shown'[c][p][n].row, p, IF c \in Syncs THEN 0 ELSE age[c])
<1>1. PICK b \in want[c], entry \in Snapshots :
         /\ b \in Protocols
         /\ Len(shown[c][b]) < NS[b]
         /\ entry.row \in {rows[b][Len(shown[c][b]) + 1], ReadError}
         /\ entry.stale <=> StaleIn(entry.row, b, IF c \in Syncs THEN 0 ELSE age[c])
         /\ shown' = [shown EXCEPT ![c][b] = Append(@, entry)]
  BY InspectShows DEF Ordered
<1>2. shown[c][p] \in Seq(Snapshots) /\ Len(shown[c][p]) \in Nat /\ NS[p] \in Nat
  BY ShownType
<1>3. CASE p = b
  <2>1. shown'[c][p] = Append(shown[c][p], entry)
    BY <1>1, <1>3 DEF Ordered, InspectOrder, IsGrid
  <2>. DEFINE q == shown[c][p]
  <2>2. /\ n \in 1..(Len(q) + 1)
        /\ n <= Len(q) => shown'[c][p][n] = q[n]
        /\ n = Len(q) + 1 => shown'[c][p][n] = entry
    BY <1>2, <2>1
  <2>. HIDE DEF q
  <2>3. CASE n <= Len(q)
    BY <1>2, <2>2, <2>3 DEF q
  <2>4. CASE n = Len(q) + 1
    <3>1. n \in 1..NS[p]
      BY <1>1, <1>2, <1>3, <2>4 DEF q
    <3>2. shown'[c][p][n] = entry
      BY <2>2, <2>4
    <3>3. entry.row \in {rows[p][n], ReadError}
      BY <1>1, <1>3, <2>4 DEF q
    <3>. QED
      BY <1>1, <1>3, <3>1, <3>2, <3>3
  <2>. QED
    BY <1>2, <2>2, <2>3, <2>4 DEF q
<1>4. CASE p # b
  <2>1. shown'[c][p] = shown[c][p]
    BY <1>1, <1>4 DEF Ordered, InspectOrder, IsGrid
  <2>. QED
    BY <2>1
<1>. QED
  BY <1>3, <1>4

\* A command that fails shows nothing any more.
LEMMA FailShows ==
  ASSUME Ordered, NEW c \in Runs, Fail(c), NEW p \in Protocols
  PROVE  shown'[c][p] = <<>>
  BY DEF Fail, Ordered, InspectOrder, IsGrid

\* Only an inspection shows anything.
LEMMA StepShows ==
  ASSUME TypeOK, Framed, Kept, Ordered, [Next]_vars, NEW c \in Runs, NEW p \in Protocols
  PROVE  \/ UNCHANGED shown[c][p]
         \/ shown'[c][p] = <<>>
         \/ Inspect(c)
<1>1. CASE UNCHANGED OwnState(c)
  BY <1>1 DEF OwnState
<1>2. CASE Fail(c)
  BY <1>2, FailShows
<1>3. ASSUME NEW request, Begin(c, request) PROVE Fail(c) \/ UNCHANGED shown
  BY <1>3 DEF Begin
<1>4. CASE BeginSync(c) \/ BeginPositions(c)
  BY <1>2, <1>3, <1>4 DEF BeginSync, BeginPositions
<1>5. CASE Discover(c) \/ Stamp(c) \/ Set(c) \/ SyncFails(c)
  BY <1>2, <1>5 DEF Discover, Stamp, Set, SyncFails
<1>6. CASE StartFetch(c) \/ Get(c) \/ Decide(c) \/ AppendPositions(c) \/ ChainFails(c)
  BY <1>2, <1>6 DEF StartFetch, Get, Decide, AppendPositions, ChainFails
<1>. QED
  BY <1>1, <1>4, <1>5, <1>6, OwnStep DEF Ordered, InspectOrder, SyncStep, FetchStep

\* A sync shows the rows it left.
LEMMA StepOwnShown ==
  ASSUME TypeOK, Framed, Kept, Ordered, OwnRows, OwnShown, [Next]_vars
  PROVE  OwnShown'
<1> SUFFICES ASSUME NEW s \in Syncs, NEW p \in Protocols, NEW n \in 1..Len(shown'[s][p])
             PROVE  shown'[s][p][n].row \in {s, ReadError} \cup during'[s][p]
  BY DEF OwnShown
<1>0. s \in Runs /\ Len(<<>>) = 0
  BY DEF Runs
<1>1. during[s][p] \subseteq during'[s][p]
  BY <1>0, StepDuring
<1>2. CASE n \in 1..Len(shown[s][p]) /\ shown'[s][p][n] = shown[s][p][n]
  BY <1>1, <1>2 DEF OwnShown
<1>3. CASE Inspect(s)
  <2>1. CASE shown'[s][p][n].row = rows[p][n] /\ p \in want[s] /\ n \in 1..NS[p]
    <3>1. pc[s] = "inspect"
      BY <1>3 DEF Inspect
    <3>2. next[s][p] = NS[p] + 1 /\ NS[p] \in Nat
      BY <2>1, <3>1, CommandsAssumption
         DEF Ordered, SyncOrder, NextOrder, SyncsInOrder, SetsInOrder
    <3>3. rows[p][n] \in {s} \cup during[s][p]
      BY <2>1, <3>1, <3>2 DEF OwnRows
    <3>. QED
      BY <1>1, <2>1, <3>3
  <2>2. CASE shown'[s][p][n].row = ReadError
    BY <2>2
  <2>. QED
    BY <1>0, <1>2, <1>3, <2>1, <2>2, InspectEntry
<1>4. CASE UNCHANGED shown[s][p]
  BY <1>2, <1>4
<1>5. CASE shown'[s][p] = <<>>
  BY <1>0, <1>5
<1>. QED
  BY <1>0, <1>3, <1>4, <1>5, StepShows

\* What is left of the rows that a sync has set.
RefreshInv == Timely /\ Met /\ Refreshed /\ OwnRows /\ OwnShown

\* Nothing is set yet.
LEMMA InitRefresh == Init => RefreshInv
<1> SUFFICES ASSUME Init PROVE RefreshInv
  OBVIOUS
<1>1. Timely /\ Met
  BY DEF Init, Timely, Met, Each
<1>2. Refreshed /\ OwnRows
  BY CommandsAssumption DEF Init, Refreshed, OwnRows, Each
<1>3. OwnShown
  <2>1. \A s \in Syncs, p \in Protocols : shown[s][p] = <<>>
    BY DEF Init, Each, Runs
  <2>2. Len(<<>>) = 0
    OBVIOUS
  <2>. QED
    BY <2>1, <2>2 DEF OwnShown
<1>. QED
  BY <1>1, <1>2, <1>3 DEF RefreshInv

\* What a sync leaves behind is its own or as good, however the others go on.
THEOREM RefreshHolds == Spec => [](WholeInv /\ TypeOK /\ Ordered /\ RefreshInv)
<1>1. Init => RefreshInv
  BY InitRefresh
<1>2. WholeInv /\ TypeOK /\ Ordered /\ RefreshInv /\ [Next]_vars => RefreshInv'
  BY StepTimely, StepMet, StepRefreshed, StepOwnRows, StepOwnShown DEF WholeInv, RefreshInv
<1>. QED
  BY <1>1, <1>2, OrderedHolds, PTL DEF Spec

\* What a sync refreshes is a prefix of the protocols it was asked for: a row of
\* its own in one means that all the earlier ones hold rows as fresh as its own;
\* and a sync that succeeds shows its own rows or those of whoever set one in
\* between.  (SyncMetadata, which stops at the first error, and the loops of Set.)
THEOREM RefreshedInOrderHolds == Spec => []RefreshedInOrder
<1>1. WholeInv /\ TypeOK /\ Ordered /\ RefreshInv => RefreshedInOrder
  <2> SUFFICES ASSUME WholeInv, TypeOK, Ordered, RefreshInv PROVE RefreshedInOrder
    OBVIOUS
  <2>1. ASSUME NEW s \in Syncs, NEW p \in Protocols, NEW q \in Protocols, p < q, p \in want[s],
               NEW m \in 1..NS[q], rows[q][m] = s, NEW n \in 1..NS[p]
        PROVE  /\ rows[p][n] # NoRow
               /\ \/ stamp[rows[p][n]][p] >= stamp[s][p]
                  \/ rows[p][n] \in clash[s][p]
    <3>1. spc[s][q] \in Stamped
      BY <2>1 DEF WholeInv, Backed
    <3>2. spc[s][p] = "done"
      BY <2>1, <3>1 DEF Stamped, Ordered, SyncOrder, SyncsInOrder
    <3>3. next[s][p] = NS[p] + 1 /\ NS[p] \in Nat
      BY <3>2, CommandsAssumption DEF Ordered, NextOrder, SetsInOrder
    <3>4. AsGood(rows[p][n], s, p)
      BY <3>3 DEF RefreshInv, Refreshed
    <3>. QED
      BY <3>4, CommandsAssumption DEF AsGood
  <2>2. ASSUME NEW s \in Syncs, pc[s] = "done", NEW p \in want[s], NEW n \in 1..NS[p]
        PROVE  shown[s][p][n].row \in {s, ReadError} \cup during[s][p]
    <3>1. p \in Protocols /\ s \in Runs
      BY DEF TypeOK, Runs
    <3>2. Len(shown[s][p]) = NS[p]
      BY <2>2, <3>1 DEF Ordered, InspectOrder, InspectsInOrder
    <3>. QED
      BY <3>1, <3>2 DEF RefreshInv, OwnShown
  <2>. QED
    BY <2>1, <2>2 DEF RefreshedInOrder
<1>. QED
  BY <1>1, RefreshHolds, PTL

-----------------------------------------------------------------------------
(* What positions shows. *)

\* A process that sets a row while f runs is remembered.
LEMMA StepRowDuring ==
  ASSUME TypeOK, Framed, Ordered, [Next]_vars, NEW f \in Fetches, f \in Active,
         NEW p \in Protocols, NEW n \in 1..NS[p]
  PROVE  rows'[p][n] = rows[p][n] \/ rows'[p][n] \in during'[f][p]
<1>0. f \in Runs /\ f \notin Syncs
  BY CommandsAssumption DEF Runs
<1>1. ASSUME NEW u \in Syncs, Set(u)
      PROVE  rows'[p][n] = rows[p][n] \/ rows'[p][n] \in during'[f][p]
  <2>1. PICK b \in Protocols :
           /\ pc[u] = "sync" /\ spc[u][b] = "write" /\ next[u][b] \in 1..NS[b]
           /\ \A q \in Protocols : \A m \in 1..NS[q] :
                rows'[q][m] = IF q = b /\ m = next[u][b] THEN u ELSE rows[q][m]
           /\ \A t \in Syncs, q \in Protocols :
                next'[t][q] = IF t = u /\ q = b THEN next[t][q] + 1 ELSE next[t][q]
           /\ \A c \in Runs, q \in Protocols :
                during'[c][q] = IF q = b /\ c \in Active \ {u} THEN during[c][q] \cup {u}
                                ELSE during[c][q]
    BY <1>1, SetFacts
  <2>2. f \in Active \ {u}
    BY <1>0
  <2>3. CASE p = b /\ n = next[u][b]
    BY <1>0, <2>1, <2>2, <2>3
  <2>4. CASE ~(p = b /\ n = next[u][b])
    BY <2>1, <2>4
  <2>. QED
    BY <2>3, <2>4
<1>2. ASSUME NEW u \in Syncs, Stamp(u) PROVE rows'[p][n] = rows[p][n]
  BY <1>2 DEF Stamp
<1>3. CASE \A u \in Syncs : ~Set(u) /\ ~Stamp(u)
  BY <1>3, StepElse
<1>. QED
  BY <1>1, <1>2, <1>3

\* What a run of positions gets is what is there.
LEMMA StepGets ==
  ASSUME TypeOK, Framed, Kept, Ordered, [Next]_vars, NEW f \in Fetches, NEW p \in Protocols
  PROVE  \/ UNCHANGED <<got[f][p], gnext[f][p]>>
         \/ /\ pc[f] = "fetch" /\ gnext'[f][p] = gnext[f][p] + 1
            /\ UNCHANGED <<shown, during>>
            /\ \A n \in 1..NS[p] :
                 IF n = gnext[f][p] THEN got'[f][p][n] \in {rows[p][n], ReadError}
                                    ELSE got'[f][p][n] = got[f][p][n]
<1>0. f \in Runs /\ f \notin Syncs
  BY CommandsAssumption DEF Runs
<1>1. CASE UNCHANGED OwnFetch(f)
  BY <1>1 DEF OwnFetch
<1>2. CASE Get(f)
  <2>. DEFINE b == Fetching(f)
              m == gnext[f][b]
  <2>1. /\ pc[f] = "fetch" /\ gnext' = [gnext EXCEPT ![f][b] = m + 1]
        /\ UNCHANGED <<shown, during>>
    BY <1>2 DEF Get
  <2>2. PICK x \in {rows[b][m], ReadError} : got' = [got EXCEPT ![f][b][m] = x]
    BY <1>2 DEF Get
  <2>. HIDE DEF b
  <2>3. CASE b = p
    <3>1. gnext'[f][p] = gnext[f][p] + 1
      BY <2>1, <2>3 DEF Framed, Shape, Grids, IsGrid
    <3>2. got'[f][p] = [got[f][p] EXCEPT ![m] = x]
      BY <2>2, <2>3 DEF Framed, Shape, Grids, IsGrid
    <3>3. \A n \in 1..NS[p] : got'[f][p][n] = IF n = m THEN x ELSE got[f][p][n]
      BY <3>2 DEF Framed, GotTyped, Results
    <3>. QED
      BY <2>1, <2>2, <2>3, <3>1, <3>3
  <2>4. CASE b # p
    BY <2>1, <2>2, <2>4 DEF Framed, Shape, Grids, IsGrid
  <2>. QED
    BY <2>3, <2>4
<1>3. CASE BeginPositions(f) \/ Inspect(f) \/ StartFetch(f) \/ Decide(f) \/ AppendPositions(f)
           \/ ChainFails(f)
  BY <1>3 DEF BeginPositions, Inspect, StartFetch, Decide, AppendPositions, ChainFails, fetchVars
<1>. QED
  BY <1>0, <1>1, <1>2, <1>3, OwnStep DEF Ordered, InspectOrder, FetchStep

\* What is shown was stamped, and what is called stale stays so.
LEMMA StepShownBacked ==
  ASSUME TypeOK, Framed, Kept, Clock, Backed, Ordered, ShownBacked, [Next]_vars
  PROVE  ShownBacked'
<1>0. now \in Nat /\ now' \in Nat /\ now' >= now
  BY StepClock DEF Framed, Clock
<1> SUFFICES ASSUME NEW f \in Fetches, NEW p \in Protocols, NEW n \in 1..Len(shown'[f][p]),
                    NEW entry, entry = shown'[f][p][n]
             PROVE  /\ entry.row \in Syncs => spc'[entry.row][p] \in Stamped
                    /\ entry.stale => /\ entry.row \in Syncs /\ age'[f] > 0
                                      /\ now' - stamp'[entry.row][p] > age'[f]
  BY DEF ShownBacked, Older
<1>1. f \in Runs /\ f \notin Syncs /\ Len(<<>>) = 0
  BY CommandsAssumption DEF Runs
<1>2. \A row \in Syncs : /\ stamp[row][p] \in Nat
                         /\ spc[row][p] \in Stamped =>
                              spc'[row][p] \in Stamped /\ stamp'[row][p] = stamp[row][p]
  BY StepStamped DEF Framed, Shape, Clock
<1>3. age[f] \in Int /\ (pc[f] # "idle" => age'[f] = age[f])
  <2>1. age[f] \in AgeFlags \cup {0}
    BY DEF TypeOK
  <2>2. pc[f] # "idle" => age'[f] = age[f]
    BY StepTerms DEF Framed
  <2>3. AgeFlags \subseteq Int
    BY CommandsAssumption
  <2>4. AgeFlags \cup {0} \subseteq Int
    BY <2>3
  <2>5. age[f] \in Int
    BY <2>1, <2>4, Zenon
  <2>. QED
    BY <2>2, <2>5
<1>4. pc[f] # "idle" \/ shown[f][p] = <<>>
  BY <1>1 DEF Ordered, InspectOrder, InspectsInOrder
<1>5. ASSUME entry.row \in Syncs => spc[entry.row][p] \in Stamped,
             entry.stale => entry.row \in Syncs /\ age[f] > 0 /\ now - stamp[entry.row][p] > age[f],
             pc[f] # "idle"
      PROVE  /\ entry.row \in Syncs => spc'[entry.row][p] \in Stamped
             /\ entry.stale => /\ entry.row \in Syncs /\ age'[f] > 0
                               /\ now' - stamp'[entry.row][p] > age'[f]
  <2>1. CASE entry.row \in Syncs
    <3>1. spc'[entry.row][p] \in Stamped /\ stamp'[entry.row][p] = stamp[entry.row][p]
      BY <1>2, <1>5, <2>1
    <3>2. stamp[entry.row][p] \in Nat /\ age'[f] = age[f]
      BY <1>2, <1>3, <1>5, <2>1
    <3>3. now - stamp[entry.row][p] > age[f] => now' - stamp[entry.row][p] > age[f]
      BY <1>0, <1>3, <3>2
    <3>. QED
      BY <1>5, <3>1, <3>2, <3>3
  <2>2. CASE entry.row \notin Syncs
    BY <1>5, <2>2
  <2>. QED
    BY <2>1, <2>2
<1>6. CASE n \in 1..Len(shown[f][p]) /\ entry = shown[f][p][n]
  <2>1. pc[f] # "idle"
    BY <1>1, <1>4, <1>6
  <2>2. /\ entry.row \in Syncs => spc[entry.row][p] \in Stamped
        /\ entry.stale => entry.row \in Syncs /\ age[f] > 0 /\ now - stamp[entry.row][p] > age[f]
    BY <1>6 DEF ShownBacked, Older
  <2>. QED
    BY <1>5, <2>1, <2>2
<1>7. CASE Inspect(f)
  <2>1. CASE /\ n \in 1..NS[p]
             /\ entry.row \in {rows[p][n], ReadError}
             /\ entry.stale <=> StaleIn(entry.row, p, age[f])
    <3>1. pc[f] # "idle"
      BY <1>7 DEF Inspect
    <3>2. entry.row \in Syncs => spc[entry.row][p] \in Stamped
      BY <2>1, CommandsAssumption DEF Backed
    <3>3. entry.stale => entry.row \in Syncs /\ age[f] > 0 /\ now - stamp[entry.row][p] > age[f]
      BY <2>1 DEF StaleIn, Older
    <3>. QED
      BY <1>5, <3>1, <3>2, <3>3
  <2>. QED
    BY <1>1, <1>6, <1>7, <2>1, InspectEntry
<1>8. CASE UNCHANGED shown[f][p]
  BY <1>6, <1>8
<1>9. CASE shown'[f][p] = <<>>
  BY <1>1, <1>9
<1>. QED
  BY <1>1, <1>7, <1>8, <1>9, StepShows

\* A row that was shown is there until another process sets it.
LEMMA StepStillShown ==
  ASSUME TypeOK, Framed, Kept, Ordered, StillShown, [Next]_vars
  PROVE  StillShown'
<1> SUFFICES ASSUME NEW f \in Fetches, NEW p \in Protocols, NEW n \in 1..Len(shown'[f][p]),
                    NEW entry, entry = shown'[f][p][n],
                    pc'[f] \in {"inspect", "fetch"}, entry.row # ReadError
             PROVE  rows'[p][n] \in {entry.row} \cup during'[f][p]
  BY DEF StillShown
<1>1. f \in Runs /\ f \notin Syncs /\ Len(<<>>) = 0
  BY CommandsAssumption DEF Runs
<1>2. during[f][p] \subseteq during'[f][p]
  BY <1>1, StepDuring
<1>3. CASE n \in 1..Len(shown[f][p]) /\ entry = shown[f][p][n]
  <2>1. pc[f] \in {"inspect", "fetch"}
    <3>1. pc[f] \notin Ended
      BY <1>1, StepEnded DEF Ended, Ordered, InspectOrder
    <3>2. pc[f] # "idle"
      BY <1>1, <1>3 DEF Ordered, InspectOrder, InspectsInOrder
    <3>. QED
      BY <1>1, <3>1, <3>2 DEF TypeOK
  <2>2. rows[p][n] \in {entry.row} \cup during[f][p]
    BY <1>3, <2>1 DEF StillShown
  <2>3. n \in 1..NS[p]
    BY <1>1, <1>3, ShownType
  <2>4. f \in Active
    BY <1>1, <2>1 DEF Active, Ended
  <2>. QED
    BY <1>2, <2>2, <2>3, <2>4, StepRowDuring
<1>4. CASE Inspect(f)
  <2>1. rows' = rows
    BY <1>4 DEF Inspect, syncVars
  <2>2. CASE entry.row \in {rows[p][n], ReadError}
    BY <2>1, <2>2
  <2>. QED
    BY <1>1, <1>3, <1>4, <2>2, InspectEntry
<1>5. CASE UNCHANGED shown[f][p]
  BY <1>3, <1>5
<1>6. CASE shown'[f][p] = <<>>
  BY <1>1, <1>6
<1>. QED
  BY <1>1, <1>4, <1>5, <1>6, StepShows

\* What is got is what was shown, or another process came in between.
LEMMA StepGotShown ==
  ASSUME TypeOK, Framed, Kept, Ordered, StillShown, GotShown, [Next]_vars
  PROVE  GotShown'
<1> SUFFICES ASSUME NEW f \in Fetches, NEW p \in Protocols, NEW n \in 1..Len(shown'[f][p]),
                    NEW entry, entry = shown'[f][p][n], NEW used, used = got'[f][p][n],
                    n < gnext'[f][p]
             PROVE  \/ entry.row = ReadError \/ used = ReadError
                    \/ used \in {entry.row} \cup during'[f][p]
  BY DEF GotShown
<1>1. f \in Runs /\ f \notin Syncs /\ Len(<<>>) = 0
  BY CommandsAssumption DEF Runs
<1>2. during[f][p] \subseteq during'[f][p]
  BY <1>1, StepDuring
<1>3. ASSUME n \in 1..Len(shown[f][p]), entry = shown[f][p][n], n < gnext[f][p], used = got[f][p][n]
      PROVE  \/ entry.row = ReadError \/ used = ReadError
             \/ used \in {entry.row} \cup during'[f][p]
  <2>1. {entry.row, used} \cap {ReadError} # {} \/ used \in {entry.row} \cup during[f][p]
    BY <1>3 DEF GotShown
  <2>. QED
    BY <1>2, <2>1
<1>4. CASE n \in 1..Len(shown[f][p]) /\ entry = shown[f][p][n]
  <2>1. CASE UNCHANGED <<got[f][p], gnext[f][p]>>
    BY <1>3, <1>4, <2>1
  <2>2. CASE /\ pc[f] = "fetch" /\ gnext'[f][p] = gnext[f][p] + 1
             /\ \A m \in 1..NS[p] :
                  IF m = gnext[f][p] THEN got'[f][p][m] \in {rows[p][m], ReadError}
                                     ELSE got'[f][p][m] = got[f][p][m]
    <3>1. n \in 1..NS[p] /\ n \in Nat
      BY <1>1, <1>4, ShownType
    <3>2. gnext[f][p] \in Nat
      BY CommandsAssumption DEF TypeOK
    <3>3. CASE n = gnext[f][p]
      <4>1. used \in {rows[p][n], ReadError}
        BY <2>2, <3>1, <3>3
      <4>2. entry.row = ReadError \/ rows[p][n] \in {entry.row} \cup during[f][p]
        BY <1>4, <2>2 DEF StillShown
      <4>. QED
        BY <1>2, <4>1, <4>2
    <3>4. CASE n # gnext[f][p]
      <4>1. n < gnext[f][p]
        BY <2>2, <3>1, <3>2, <3>4
      <4>. QED
        BY <1>3, <1>4, <2>2, <3>1, <3>4, <4>1
    <3>. QED
      BY <3>3, <3>4
  <2>. QED
    BY <2>1, <2>2, StepGets
<1>5. CASE Inspect(f)
  <2>1. CASE n \in 1..NS[p]
    <3>1. pc[f] = "inspect" /\ gnext' = gnext
      BY <1>5 DEF Inspect, fetchVars
    <3>2. gnext[f][p] = 1
      BY <3>1 DEF Ordered, FetchOrder, FetchesInOrder
    <3>. QED
      BY <2>1, <3>1, <3>2
  <2>. QED
    BY <1>1, <1>4, <1>5, <2>1, InspectEntry
<1>6. CASE UNCHANGED shown[f][p]
  BY <1>4, <1>6
<1>7. CASE shown'[f][p] = <<>>
  BY <1>1, <1>7
<1>. QED
  BY <1>1, <1>5, <1>6, <1>7, StepShows

\* What a protocol is accepted for is what was shown, and once accepted it is so.
LEMMA StepAcceptedExplained ==
  ASSUME TypeOK, Framed, Kept, Ordered, TypeOK', Ordered', ShownBacked, GotShown,
         AcceptedExplained, [Next]_vars
  PROVE  AcceptedExplained'
<1> SUFFICES ASSUME NEW f \in Fetches, pc'[f] \in {"fetch", "done"}, NEW p \in want'[f],
                    fpc'[f][p] = "accepted", NEW n \in 1..NS[p],
                    NEW entry, entry = shown'[f][p][n], NEW used, used = got'[f][p][n]
             PROVE  \/ used = entry.row /\ (p \in Checked => used # NoRow /\ ~entry.stale)
                    \/ entry.row = ReadError
                    \/ used \in during'[f][p]
  BY DEF AcceptedExplained, Explained
<1>1. f \in Runs /\ f \notin Syncs /\ Len(<<>>) = 0
  BY CommandsAssumption DEF Runs
<1>2. p \in Protocols /\ NS[p] \in Nat /\ NS[p] >= 1
  BY <1>1, CommandsAssumption DEF TypeOK
<1>3. during[f][p] \subseteq during'[f][p]
  BY <1>1, <1>2, StepDuring
<1>4. \/ fpc[f][p] = "accepted"
      \/ /\ pc[f] = "fetch" /\ fpc[f][p] = "read" /\ gnext[f][p] = NS[p] + 1
         /\ Verdict(f, p) = "accepted" /\ UNCHANGED <<now, requestVars, syncVars, got>>
  BY <1>2, StepAccepted DEF Framed, Shape
<1>5. pc[f] \in {"fetch", "done"}
  <2>1. pc[f] \notin {"idle", "inspect"}
    BY <1>2, <1>4 DEF Ordered, FetchOrder, FetchesInOrder
  <2>2. pc[f] # "failed"
    BY <1>1, StepEnded DEF Ended, Ordered, InspectOrder
  <2>. QED
    BY <1>1, <2>1, <2>2 DEF TypeOK, Ended
<1>6. want'[f] = want[f] /\ age'[f] = age[f]
  BY <1>5, StepTerms DEF Framed
<1>7. Len(shown[f][p]) = NS[p] /\ Len(shown'[f][p]) = NS[p]
  BY <1>1, <1>5, <1>6 DEF Ordered, InspectOrder, InspectsInOrder
<1>8. entry = shown[f][p][n]
  <2>1. ~Inspect(f)
    BY <1>5 DEF Inspect
  <2>2. shown'[f][p] # <<>>
    BY <1>1, <1>2, <1>7
  <2>. QED
    BY <1>1, <1>2, <2>1, <2>2, StepShows
<1>9. CASE fpc[f][p] = "accepted"
  <2>1. got'[f][p] = got[f][p]
    BY <1>2, <1>9, StepGet DEF Framed, Shape
  <2>2. Explained(f, p)
    BY <1>5, <1>6, <1>9 DEF AcceptedExplained
  <2>. QED
    BY <1>3, <1>8, <2>1, <2>2 DEF Explained
<1>10. CASE /\ gnext[f][p] = NS[p] + 1 /\ Verdict(f, p) = "accepted" /\ got' = got
  <2>1. used = got[f][p][n]
    BY <1>10
  <2>2. used # ReadError /\ (p \in Checked => used # NoRow)
    BY <1>10, <2>1 DEF Verdict
  <2>3. entry.row = ReadError \/ used \in {entry.row} \cup during[f][p]
    <3>1. n \in 1..Len(shown[f][p]) /\ n < gnext[f][p]
      BY <1>2, <1>7, <1>10
    <3>. QED
      BY <1>2, <1>8, <2>1, <2>2, <3>1 DEF GotShown
  <2>4. ASSUME p \in Checked, used = entry.row, entry.stale
        PROVE  FALSE
    <3>1. age[f] > 0 /\ Older(used, p, age[f])
      BY <1>2, <1>7, <1>8, <2>4 DEF ShownBacked
    <3>2. EffectiveAge(age[f]) = age[f]
      BY <3>1 DEF EffectiveAge
    <3>. QED
      BY <1>10, <2>1, <2>4, <3>1, <3>2 DEF Verdict
  <2>. QED
    BY <1>3, <2>2, <2>3, <2>4
<1>. QED
  BY <1>4, <1>9, <1>10 DEF syncVars

\* What is left of the rows that were shown.
ShownInv == ShownBacked /\ StillShown /\ GotShown /\ AcceptedExplained

\* Nothing is shown yet.
LEMMA InitShown == Init => ShownInv
<1> SUFFICES ASSUME Init PROVE ShownInv
  OBVIOUS
<1>1. \A f \in Fetches, p \in Protocols : shown[f][p] = <<>> /\ Len(<<>>) = 0
  BY DEF Init, Each, Runs
<1>2. \A f \in Fetches : pc[f] = "idle"
  BY DEF Init, Runs
<1>. QED
  BY <1>1, <1>2 DEF ShownInv, ShownBacked, StillShown, GotShown, AcceptedExplained

\* What is shown is explained, however the others go on.
THEOREM ShownHolds == Spec => [](WholeInv /\ TypeOK /\ Ordered /\ ShownInv)
<1>1. Init => ShownInv
  BY InitShown
<1>2. /\ WholeInv /\ TypeOK /\ Ordered /\ TypeOK' /\ Ordered' /\ ShownInv
      /\ [Next]_vars
      => ShownInv'
  BY StepShownBacked, StepStillShown, StepGotShown, StepAcceptedExplained DEF WholeInv, ShownInv
<1>. QED
  BY <1>1, <1>2, OrderedHolds, PTL DEF Spec

\* Whatever the protocols, the number of their namespaces and the processes
\* that sync meanwhile, a snapshot that is printed with positions says of each
\* namespace what they were computed from, unless it could not be read or
\* another process set that row in between.  (inspectMetadata before
\* FetchPositions, and the Gets of loadMetadata.)
THEOREM SnapshotExplainedHolds == Spec => []SnapshotExplained
<1>1. WholeInv /\ TypeOK /\ Ordered /\ ShownInv => SnapshotExplained
  <2> SUFFICES ASSUME WholeInv, TypeOK, ShownInv, NEW f \in Fetches, pc[f] = "done",
                      NEW p \in want[f]
               PROVE  Explained(f, p)
    BY DEF SnapshotExplained, Explained
  <2>1. p \in Protocols
    BY DEF TypeOK, Runs
  <2>2. fpc[f][p] = "accepted"
    BY <2>1 DEF WholeInv, Appended
  <2>. QED
    BY <2>2 DEF ShownInv, AcceptedExplained
<1>. QED
  BY <1>1, ShownHolds, PTL
=============================================================================
