------------------------ MODULE MetadataCacheProofs ------------------------
(***************************************************************************)
(* What the metadata cache promises for every number of runs, namespaces   *)
(* and ages.  The inductive invariant has a part about the store (what a   *)
(* run that has set k namespaces may still find in them) and a part about  *)
(* the readers (how what a reader holds relates to what is stored now).    *)
(***************************************************************************)
EXTENDS MetadataCache, TLAPS

Started(s) == spc[s] \in {"write", "done", "failed"}

\* Where a run is determines how many namespaces it has set.
Progress ==
  \A s \in Syncers :
    /\ spc[s] \in {"idle", "discover"} => next[s] = 1
    /\ spc[s] = "write" => next[s] \in Namespaces
    /\ spc[s] = "done" => next[s] = N + 1

\* Nothing is stamped or discovered in the future, and a run has set the
\* namespaces whose rows are its own.
Past ==
  /\ \A s \in Syncers : stamp[s] <= now /\ seen[s] <= now
  /\ \A n \in Namespaces : rows[n] # NoRow => n < next[rows[n]]

\* Runs that are alive, or set rows, at the same time know each other.
Met ==
  \A a, b \in Syncers : a # b =>
    /\ (spc[a] = "write" /\ spc[b] = "write") => b \in clash[a]
    /\ (a \in Alive /\ b \in Alive) => b \in overlap[a]

\* A namespace that s has set holds the row of s, of a run that raced with s,
\* or of one that came later; and a run setting rows now has not come earlier.
Landed ==
  \A s \in Syncers :
    /\ \A n \in Namespaces : n < next[s] =>
         /\ rows[n] # NoRow
         /\ \/ rows[n] = s
            \/ rows[n] \in clash[s]
            \/ spc[s] \in Finished /\ stamp[rows[n]] >= stamp[s]
    /\ (spc[s] \in Finished /\ next[s] > 1) =>
         \A b \in Syncers : spc[b] = "write" => b \in clash[s] \/ stamp[b] >= stamp[s]

\* The same for the age of the data.
LandedContent ==
  \A s \in Syncers :
    /\ \A n \in Namespaces : n < next[s] =>
         \/ rows[n] = s
         \/ rows[n] \in overlap[s]
         \/ spc[s] \in Finished /\ seen[rows[n]] >= seen[s]
    /\ spc[s] \in Finished =>
         \A b \in Alive : b \in overlap[s] \/ seen[b] >= seen[s]

StoreInv == Progress /\ Past /\ Met /\ Landed /\ LandedContent

\* Two rows that are both complete and undisturbed come from one run.
Related(a, b) == a = b \/ b \in clash[a] \/ a \in clash[b]
StoreMix ==
  \A i, j \in Namespaces :
    (rows[i] # NoRow /\ rows[j] # NoRow) =>
      Related(rows[i], rows[j]) \/ spc[rows[i]] # "done" \/ spc[rows[j]] # "done"

Raced(f, a, b) ==
  \/ Related(a, b)
  \/ a \in race[f] \/ b \in race[f]
  \/ spc[a] = "failed" \/ spc[b] = "failed"

\* A reader knows every run that sets rows during its Gets, and what it holds
\* agrees, in the sense of Raced, with the rest of it and with the store.
ReaderInv ==
  \A f \in Fetchers :
    /\ fpc[f] = "idle" => gnext[f] = 1
    /\ fpc[f] = "read" => Writing \subseteq race[f]
    /\ fpc[f] \in Verdicts => gnext[f] = N + 1
    /\ fpc[f] = "accepted" => \A n \in Namespaces : got[f][n] \in Syncers
    /\ \A n \in Namespaces : got[f][n] \in Syncers =>
         n < gnext[f] /\ next[got[f][n]] > 1
    /\ \A i, j \in Namespaces : (got[f][i] \in Syncers /\ got[f][j] \in Syncers) =>
         Raced(f, got[f][i], got[f][j])
    /\ fpc[f] = "read" =>
         \A i, j \in Namespaces : (got[f][i] \in Syncers /\ rows[j] # NoRow) =>
           Raced(f, got[f][i], rows[j])

\* What a reader that began after s finished can hold.
AfterInv ==
  \A f \in Fetchers : \A s \in after[f] :
    /\ spc[s] = "done"
    /\ \A n \in Namespaces : n < gnext[f] =>
         /\ got[f][n] # NoRow
         /\ got[f][n] \in Syncers =>
              \/ got[f][n] = s
              \/ got[f][n] \in clash[s]
              \/ stamp[got[f][n]] >= stamp[s]

IInv == TypeOK /\ StoreInv /\ StoreMix /\ ReaderInv /\ AfterInv

-----------------------------------------------------------------------------
USE DEF Namespaces

\* The clock and what is taken from it are numbers.
LEMMA Instants ==
  ASSUME TypeOK
  PROVE  now \in Int /\ \A s \in Syncers : stamp[s] \in Int /\ seen[s] \in Int
<1>1. \A t \in Time : t \in Int
  BY CacheAssumption
<1>2. now \in Time /\ \A s \in Syncers : stamp[s] \in Time /\ seen[s] \in Time
  BY DEF TypeOK
<1>3. QED
  BY <1>1, <1>2

\* Peers are processes that sync.
LEMMA MeetType ==
  ASSUME NEW peers \in [Syncers -> SUBSET Syncers], NEW s \in Syncers,
         NEW others \in SUBSET Syncers
  PROVE  Meet(peers, s, others) \in [Syncers -> SUBSET Syncers]
BY DEF Meet

\* Runs only get to know each other, and after Meet they do so both ways.
LEMMA MeetGrows ==
  ASSUME NEW peers \in [Syncers -> SUBSET Syncers], NEW s \in Syncers,
         NEW others \in SUBSET Syncers
  PROVE  /\ \A t \in Syncers : peers[t] \subseteq Meet(peers, s, others)[t]
         /\ \A t \in others : t \in Meet(peers, s, others)[s]
         /\ \A t \in others : t # s => s \in Meet(peers, s, others)[t]
BY DEF Meet

\* The age in effect is a number.
LEMMA EffectiveAgeType ==
  ASSUME NEW flag \in AgeFlags \cup {0}
  PROVE  EffectiveAge(flag) \in Int
<1>1. flag \in Int
  <2>1. \A x \in AgeFlags : x \in Int
    BY CacheAssumption, Zenon
  <2>2. QED
    BY <2>1
<1>2. DefaultAge \in Int
  BY CacheAssumption
<1>3. QED
  BY <1>1, <1>2 DEF EffectiveAge

\* The variables start with their types.
LEMMA TypeInit == Init => TypeOK
BY CacheAssumption DEF Init, TypeOK, Finished, Verdicts

\* Every step keeps them.
LEMMA TypeStep == TypeOK /\ Progress /\ [Next]_vars => TypeOK'
<1> SUFFICES ASSUME TypeOK, Progress, [Next]_vars PROVE TypeOK'
  OBVIOUS
<1> USE CacheAssumption DEF TypeOK, Finished, Verdicts
<1>1. CASE Tick
  BY <1>1 DEF Tick, syncVars, fetchVars
<1>2. ASSUME NEW s \in Syncers, Discover(s) PROVE TypeOK'
  <2>1. overlap' \in [Syncers -> SUBSET Syncers]
    BY <1>2, MeetType DEF Discover, Alive
  <2>2. QED
    BY <1>2, <2>1 DEF Discover, fetchVars
<1>3. ASSUME NEW s \in Syncers, Stamp(s) PROVE TypeOK'
  <2>1. clash' \in [Syncers -> SUBSET Syncers]
    BY <1>3, MeetType DEF Stamp, Writing
  <2>2. race' \in [Fetchers -> SUBSET Syncers]
    BY <1>3 DEF Stamp, Reading
  <2>3. QED
    BY <1>3, <2>1, <2>2 DEF Stamp, fetchVars
<1>4. ASSUME NEW s \in Syncers, Set(s) PROVE TypeOK'
  BY <1>4 DEF Set, fetchVars, Progress
<1>5. ASSUME NEW s \in Syncers, SyncFails(s) PROVE TypeOK'
  BY <1>5 DEF SyncFails, fetchVars
<1>6. ASSUME NEW f \in Fetchers, StartFetch(f) PROVE TypeOK'
  BY <1>6 DEF StartFetch, syncVars, Writing
<1>7. ASSUME NEW f \in Fetchers, Get(f) PROVE TypeOK'
  BY <1>7 DEF Get, syncVars
<1>8. ASSUME NEW f \in Fetchers, Decide(f) PROVE TypeOK'
  BY <1>8 DEF Decide, syncVars
<1>9. CASE UNCHANGED vars
  BY <1>9 DEF vars, syncVars, fetchVars
<1>10. QED
  BY <1>1, <1>2, <1>3, <1>4, <1>5, <1>6, <1>7, <1>8, <1>9 DEF Next

-----------------------------------------------------------------------------
(* The store. *)

\* Nothing is stored yet.
LEMMA StoreInit == Init => StoreInv /\ StoreMix
<1> SUFFICES ASSUME Init PROVE StoreInv /\ StoreMix
  OBVIOUS
<1>1. Progress
  BY CacheAssumption DEF Init, Progress
<1>2. Past
  BY CacheAssumption DEF Init, Past
<1>3. Met
  BY DEF Init, Met, Alive
<1>4. Landed /\ LandedContent
  BY DEF Init, Landed, LandedContent, Finished
<1>5. StoreMix
  BY DEF Init, StoreMix
<1>6. QED
  BY <1>1, <1>2, <1>3, <1>4, <1>5 DEF StoreInv

\* The steps of positions, and stuttering, leave the store and its clients
\* alone; a tick only makes everything older.
LEMMA StoreQuiet ==
  ASSUME TypeOK, StoreInv, StoreMix, UNCHANGED syncVars, now' >= now, now' \in Time
  PROVE  StoreInv' /\ StoreMix'
<1> USE DEF syncVars
<1>1. Progress' /\ Met' /\ Landed' /\ LandedContent'
  BY DEF StoreInv, Progress, Met, Alive, Landed, LandedContent, Finished
<1>2. Past'
  <2>1. now' \in Int
    BY CacheAssumption
  <2>2. QED
    BY <2>1, Instants DEF StoreInv, Past
<1>3. StoreMix'
  BY DEF StoreMix, Related
<1>4. QED
  BY <1>1, <1>2, <1>3 DEF StoreInv

\* A sync that begins has set nothing.
LEMMA StoreDiscover ==
  ASSUME TypeOK, StoreInv, StoreMix, NEW s \in Syncers, Discover(s)
  PROVE  StoreInv' /\ StoreMix'
<1> USE CacheAssumption DEF StoreInv, TypeOK
<1>0. /\ spc[s] = "idle"
      /\ spc' = [spc EXCEPT ![s] = "discover"]
      /\ seen' = [seen EXCEPT ![s] = now]
      /\ UNCHANGED <<now, rows, stamp, next, clash>>
  BY DEF Discover
<1>1. Alive' = Alive \cup {s} /\ s \notin Alive
  BY <1>0 DEF Alive
<1>2. /\ \A t \in Syncers : overlap[t] \subseteq overlap'[t]
      /\ \A t \in Alive : t \in overlap'[s] /\ s \in overlap'[t]
  BY <1>1, MeetGrows DEF Discover, Alive
<1>3. Progress'
  BY <1>0 DEF Progress
<1>4. Past'
  BY <1>0 DEF Past
<1>5. Met'
  <2>1. ASSUME NEW a \in Syncers, NEW b \in Syncers, a # b,
               spc'[a] = "write", spc'[b] = "write"
        PROVE  b \in clash'[a]
    BY <2>1, <1>0 DEF Met
  <2>2. ASSUME NEW a \in Syncers, NEW b \in Syncers, a # b, a \in Alive', b \in Alive'
        PROVE  b \in overlap'[a]
    BY <2>2, <1>1, <1>2 DEF Met
  <2>3. QED
    BY <2>1, <2>2 DEF Met
<1>6. Landed'
  BY <1>0 DEF Landed, Progress, Finished
<1>7. ASSUME NEW n \in Namespaces, rows[n] = s PROVE FALSE
  <2>1. next[s] = 1
    BY <1>0 DEF Progress
  <2>2. n < next[s]
    BY <1>7 DEF Past
  <2>3. QED
    BY <2>1, <2>2
<1>8. LandedContent'
  <2>1. ASSUME NEW t \in Syncers, NEW n \in Namespaces, n < next'[t]
        PROVE  \/ rows'[n] = t
               \/ rows'[n] \in overlap'[t]
               \/ spc'[t] \in Finished /\ seen'[rows'[n]] >= seen'[t]
    <3>1. t # s
      BY <2>1, <1>0 DEF Progress
    <3>2. rows[n] \in Syncers
      BY <2>1, <1>0 DEF Landed
    <3>3. QED
      BY <2>1, <1>0, <1>2, <1>7, <3>1, <3>2 DEF LandedContent, Finished
  <2>2. ASSUME NEW t \in Syncers, spc'[t] \in Finished, NEW b \in Alive'
        PROVE  b \in overlap'[t] \/ seen'[b] >= seen'[t]
    <3>1. t # s /\ spc[t] \in Finished
      BY <2>2, <1>0 DEF Finished
    <3>2. CASE b = s
      BY <3>1, <3>2, <1>0 DEF Past
    <3>3. CASE b # s
      BY <3>1, <3>3, <2>2, <1>0, <1>1, <1>2 DEF LandedContent, Alive
    <3>4. QED
      BY <3>2, <3>3
  <2>3. QED
    BY <2>1, <2>2 DEF LandedContent
<1>9. StoreMix'
  BY <1>0, <1>7 DEF StoreMix, Related
<1>10. QED
  BY <1>3, <1>4, <1>5, <1>6, <1>8, <1>9

\* Whoever stamps while others write meets them.
LEMMA StoreStamp ==
  ASSUME TypeOK, StoreInv, StoreMix, NEW s \in Syncers, Stamp(s)
  PROVE  StoreInv' /\ StoreMix'
<1> USE CacheAssumption DEF StoreInv, TypeOK
<1>0. /\ spc[s] = "discover"
      /\ spc' = [spc EXCEPT ![s] = "write"]
      /\ stamp' = [stamp EXCEPT ![s] = now]
      /\ UNCHANGED <<now, rows, seen, next, overlap>>
  BY DEF Stamp
<1>1. Alive' = Alive
  BY <1>0 DEF Alive
<1>2. /\ \A t \in Syncers : clash[t] \subseteq clash'[t]
      /\ \A t \in Writing : t \in clash'[s] /\ s \in clash'[t]
  BY <1>0, MeetGrows DEF Stamp, Writing
<1>3. Progress'
  BY <1>0 DEF Progress
<1>4. Past'
  BY <1>0 DEF Past
<1>5. Met'
  <2>1. ASSUME NEW a \in Syncers, NEW b \in Syncers, a # b,
               spc'[a] = "write", spc'[b] = "write"
        PROVE  b \in clash'[a]
    BY <2>1, <1>0, <1>2 DEF Met, Writing
  <2>2. QED
    BY <2>1, <1>0, <1>1 DEF Met
<1>11. next[s] = 1
  BY <1>0 DEF Progress
<1>6. ASSUME NEW n \in Namespaces, rows[n] = s PROVE FALSE
  <2>1. n < next[s]
    BY <1>6 DEF Past
  <2>2. QED
    BY <2>1, <1>11
<1>7. Landed'
  <2>1. ASSUME NEW t \in Syncers, NEW n \in Namespaces, n < next'[t]
        PROVE  /\ rows'[n] # NoRow
               /\ \/ rows'[n] = t
                  \/ rows'[n] \in clash'[t]
                  \/ spc'[t] \in Finished /\ stamp'[rows'[n]] >= stamp'[t]
    <3>1. t # s /\ rows[n] # s /\ rows[n] \in Syncers
      BY <2>1, <1>0, <1>6, <1>11 DEF Landed
    <3>2. QED
      BY <2>1, <1>0, <1>2, <3>1 DEF Landed, Finished
  <2>2. ASSUME NEW t \in Syncers, spc'[t] \in Finished, next'[t] > 1,
               NEW b \in Syncers, spc'[b] = "write"
        PROVE  b \in clash'[t] \/ stamp'[b] >= stamp'[t]
    <3>1. t # s /\ spc[t] \in Finished
      BY <2>2, <1>0 DEF Finished
    <3>2. CASE b = s
      BY <3>1, <3>2, <1>0 DEF Past
    <3>3. CASE b # s
      BY <3>1, <3>3, <2>2, <1>0, <1>2 DEF Landed
    <3>4. QED
      BY <3>2, <3>3
  <2>3. QED
    BY <2>1, <2>2 DEF Landed
<1>8. LandedContent'
  BY <1>0, <1>1, <1>6 DEF LandedContent, Finished
<1>9. StoreMix'
  BY <1>0, <1>2, <1>6 DEF StoreMix, Related
<1>10. QED
  BY <1>3, <1>4, <1>5, <1>7, <1>8, <1>9

\* A Set puts there a row of a run that writes.
LEMMA StoreSet ==
  ASSUME TypeOK, StoreInv, StoreMix, NEW s \in Syncers, Set(s)
  PROVE  StoreInv' /\ StoreMix'
<1> USE CacheAssumption DEF StoreInv, TypeOK
<1>0. /\ spc[s] = "write"
      /\ rows' = [rows EXCEPT ![next[s]] = s]
      /\ next' = [next EXCEPT ![s] = next[s] + 1]
      /\ spc' = [spc EXCEPT ![s] = IF next[s] = N THEN "done" ELSE "write"]
      /\ UNCHANGED <<now, seen, stamp, overlap, clash>>
  BY DEF Set
<1>1. next[s] \in Namespaces
  BY <1>0 DEF Progress
<1>2. Alive' \subseteq Alive
  BY <1>0 DEF Alive
<1>3. Progress'
  BY <1>0, <1>1 DEF Progress
<1>4. Past'
  BY <1>0, <1>1 DEF Past
<1>5. Met'
  BY <1>0, <1>2 DEF Met
<1>6. Landed'
  <2>1. ASSUME NEW t \in Syncers, NEW n \in Namespaces, n < next'[t]
        PROVE  /\ rows'[n] # NoRow
               /\ \/ rows'[n] = t
                  \/ rows'[n] \in clash'[t]
                  \/ spc'[t] \in Finished /\ stamp'[rows'[n]] >= stamp'[t]
    <3>1. CASE n = next[s]
      <4>1. rows'[n] = s
        BY <3>1, <1>0
      <4>2. CASE t # s /\ spc[t] = "write"
        BY <4>1, <4>2, <1>0 DEF Met
      <4>3. CASE t # s /\ spc[t] # "write"
        <5>1. n < next[t]
          BY <4>3, <2>1, <1>0
        <5>2. next[t] # 1
          BY <5>1
        <5>3. spc[t] \in Finished
          BY <4>3, <5>2 DEF Progress, Finished
        <5>4. next[t] > 1
          BY <5>1
        <5>5. s \in clash[t] \/ stamp[s] >= stamp[t]
          BY <5>3, <5>4, <1>0 DEF Landed
        <5>6. QED
          BY <4>1, <4>3, <5>3, <5>5, <1>0 DEF Finished
      <4>4. QED
        BY <4>1, <4>2, <4>3
    <3>2. CASE n # next[s]
      <4>1. rows'[n] = rows[n] /\ n < next[t]
        BY <3>2, <2>1, <1>0
      <4>2. QED
        BY <4>1, <1>0 DEF Landed, Finished
    <3>3. QED
      BY <3>1, <3>2
  <2>2. ASSUME NEW t \in Syncers, spc'[t] \in Finished, next'[t] > 1,
               NEW b \in Syncers, spc'[b] = "write"
        PROVE  b \in clash'[t] \/ stamp'[b] >= stamp'[t]
    <3>1. spc[b] = "write"
      BY <2>2, <1>0
    <3>2. CASE t = s
      BY <3>1, <3>2, <2>2, <1>0 DEF Met, Finished
    <3>3. CASE t # s
      BY <3>1, <3>3, <2>2, <1>0 DEF Landed
    <3>4. QED
      BY <3>2, <3>3
  <2>3. QED
    BY <2>1, <2>2 DEF Landed
<1>7. LandedContent'
  <2>1. ASSUME NEW t \in Syncers, NEW n \in Namespaces, n < next'[t]
        PROVE  \/ rows'[n] = t
               \/ rows'[n] \in overlap'[t]
               \/ spc'[t] \in Finished /\ seen'[rows'[n]] >= seen'[t]
    <3>1. CASE n = next[s]
      <4>1. rows'[n] = s /\ s \in Alive
        BY <3>1, <1>0 DEF Alive
      <4>2. CASE t # s /\ spc[t] = "write"
        BY <4>1, <4>2, <1>0 DEF Met, Alive
      <4>3. CASE t # s /\ spc[t] # "write"
        <5>1. n < next[t]
          BY <4>3, <2>1, <1>0
        <5>2. next[t] # 1
          BY <5>1
        <5>3. spc[t] \in Finished
          BY <4>3, <5>2 DEF Progress, Finished
        <5>4. QED
          BY <4>1, <4>3, <5>1, <5>3, <1>0 DEF LandedContent, Finished
      <4>4. QED
        BY <4>1, <4>2, <4>3
    <3>2. CASE n # next[s]
      <4>1. rows'[n] = rows[n] /\ n < next[t]
        BY <3>2, <2>1, <1>0
      <4>2. QED
        BY <4>1, <1>0 DEF LandedContent, Finished
    <3>3. QED
      BY <3>1, <3>2
  <2>2. ASSUME NEW t \in Syncers, spc'[t] \in Finished, NEW b \in Alive'
        PROVE  b \in overlap'[t] \/ seen'[b] >= seen'[t]
    <3>1. b \in Alive /\ b \in Syncers
      BY <1>2 DEF Alive
    <3>2. CASE t = s
      BY <3>1, <3>2, <2>2, <1>0 DEF Met, Alive, Finished
    <3>3. CASE t # s
      BY <3>1, <3>3, <2>2, <1>0 DEF LandedContent
    <3>4. QED
      BY <3>2, <3>3
  <2>3. QED
    BY <2>1, <2>2 DEF LandedContent
<1>8. StoreMix'
  <2>1. ASSUME NEW i \in Namespaces, NEW j \in Namespaces,
               rows'[i] # NoRow, rows'[j] # NoRow,
               spc'[rows'[i]] = "done", spc'[rows'[j]] = "done"
        PROVE  Related(rows'[i], rows'[j])
    <3>1. \A n \in Namespaces : spc'[s] = "done" => n < next'[s]
      BY <1>0, <1>1
    <3>2. ASSUME NEW n \in Namespaces, spc'[s] = "done" PROVE Related(s, rows'[n])
      <4>1. CASE n = next[s]
        BY <4>1, <1>0 DEF Related
      <4>2. CASE n # next[s]
        <5>1. n < next[s] /\ rows'[n] = rows[n]
          BY <4>2, <3>1, <3>2, <1>0
        <5>2. QED
          BY <5>1, <1>0 DEF Landed, Related, Finished
      <4>3. QED
        BY <4>1, <4>2
    <3>3. CASE rows'[i] = s \/ rows'[j] = s
      BY <3>2, <3>3, <2>1 DEF Related
    <3>4. CASE rows'[i] # s /\ rows'[j] # s
      BY <3>4, <2>1, <1>0 DEF StoreMix, Related
    <3>5. QED
      BY <3>3, <3>4
  <2>2. QED
    BY <2>1, <1>0 DEF StoreMix, Related
<1>9. QED
  BY <1>3, <1>4, <1>5, <1>6, <1>7, <1>8

\* A failure leaves the rows as they are.
LEMMA StoreFails ==
  ASSUME TypeOK, StoreInv, StoreMix, NEW s \in Syncers, SyncFails(s)
  PROVE  StoreInv' /\ StoreMix'
<1> USE CacheAssumption DEF StoreInv, TypeOK
<1>0. /\ spc[s] \in {"discover", "write"}
      /\ spc' = [spc EXCEPT ![s] = "failed"]
      /\ UNCHANGED <<now, rows, next, seen, stamp, overlap, clash>>
  BY DEF SyncFails, Alive
<1>1. Alive' \subseteq Alive /\ s \in Alive
  BY <1>0 DEF Alive
<1>2. Progress' /\ Past' /\ Met'
  BY <1>0, <1>1 DEF Progress, Past, Met
<1>3. Landed'
  <2>1. ASSUME NEW t \in Syncers, spc'[t] \in Finished, next'[t] > 1,
               NEW b \in Syncers, spc'[b] = "write"
        PROVE  b \in clash'[t] \/ stamp'[b] >= stamp'[t]
    <3>1. CASE t = s
      BY <3>1, <2>1, <1>0 DEF Met, Progress
    <3>2. CASE t # s
      BY <3>2, <2>1, <1>0 DEF Landed
    <3>3. QED
      BY <3>1, <3>2
  <2>2. QED
    BY <2>1, <1>0 DEF Landed, Finished
<1>4. LandedContent'
  <2>1. ASSUME NEW t \in Syncers, spc'[t] \in Finished, NEW b \in Alive'
        PROVE  b \in overlap'[t] \/ seen'[b] >= seen'[t]
    <3>1. CASE t = s
      BY <3>1, <2>1, <1>0, <1>1 DEF Met, Alive
    <3>2. CASE t # s
      BY <3>2, <2>1, <1>0, <1>1 DEF LandedContent
    <3>3. QED
      BY <3>1, <3>2
  <2>2. QED
    BY <2>1, <1>0 DEF LandedContent, Finished
<1>5. StoreMix'
  BY <1>0 DEF StoreMix, Related
<1>6. QED
  BY <1>2, <1>3, <1>4, <1>5

\* Every step keeps what is known of the store.
LEMMA StoreStep == IInv /\ [Next]_vars => StoreInv' /\ StoreMix'
<1> SUFFICES ASSUME IInv, [Next]_vars PROVE StoreInv' /\ StoreMix'
  OBVIOUS
<1> USE DEF IInv
<1>1. CASE Tick
  <2>1. now' >= now /\ now' \in Time
    BY <1>1, CacheAssumption DEF Tick, TypeOK
  <2>2. QED
    BY <1>1, <2>1, StoreQuiet DEF Tick
<1>2. ASSUME NEW s \in Syncers, Discover(s) \/ Stamp(s) \/ Set(s) \/ SyncFails(s)
      PROVE  StoreInv' /\ StoreMix'
  BY <1>2, StoreDiscover, StoreStamp, StoreSet, StoreFails
<1>3. ASSUME UNCHANGED <<now, syncVars>>
      PROVE  StoreInv' /\ StoreMix'
  BY <1>3, StoreQuiet, CacheAssumption DEF TypeOK
<1>4. ASSUME NEW f \in Fetchers, StartFetch(f) \/ Get(f) \/ Decide(f)
      PROVE  StoreInv' /\ StoreMix'
  BY <1>3, <1>4 DEF StartFetch, Get, Decide
<1>5. CASE UNCHANGED vars
  BY <1>3, <1>5 DEF vars
<1>6. QED
  BY <1>1, <1>2, <1>4, <1>5 DEF Next

-----------------------------------------------------------------------------
(* The readers. *)

\* A step of sync-metadata, seen by the readers: it adds peers, may hand a
\* namespace to a run that every reader in the middle of its Gets knows, and
\* changes neither a run that has set rows before nor a verdict on one.
ReaderFrame ==
  /\ UNCHANGED fetchVars
  /\ \A f \in Fetchers : race[f] \subseteq race'[f]
  /\ \A f \in Fetchers : fpc[f] = "read" => Writing' \subseteq race'[f]
  /\ \A s \in Syncers :
       /\ clash[s] \subseteq clash'[s]
       /\ next'[s] >= next[s]
       /\ next[s] > 1 => stamp'[s] = stamp[s]
       /\ spc[s] = "failed" => spc'[s] = "failed"
       /\ spc[s] = "done" => spc'[s] = "done"
  /\ \A n \in Namespaces : rows'[n] = rows[n] \/ rows'[n] \in Writing

\* A step that is no fetch leaves what is got alone.
LEMMA SyncFrame ==
  ASSUME IInv, [Next]_vars, UNCHANGED fetchVars
  PROVE  ReaderFrame
<1> USE CacheAssumption DEF IInv, TypeOK, StoreInv
<1>1. CASE Tick
  BY <1>1 DEF Tick, syncVars, ReaderFrame, Writing, ReaderInv
<1>2. ASSUME NEW s \in Syncers, Discover(s) PROVE ReaderFrame
  BY <1>2 DEF Discover, ReaderFrame, Writing, ReaderInv
<1>3. ASSUME NEW s \in Syncers, Stamp(s) PROVE ReaderFrame
  <2>1. \A t \in Syncers : clash[t] \subseteq clash'[t]
    BY <1>3, MeetGrows DEF Stamp, Writing
  <2>2. next[s] = 1
    BY <1>3 DEF Stamp, Progress
  <2>3. Writing' = Writing \cup {s}
    BY <1>3 DEF Stamp, Writing
  <2>4. \A f \in Fetchers : race[f] \subseteq race'[f] /\
          (fpc[f] = "read" => Writing' \subseteq race'[f])
    BY <1>3, <2>3 DEF Stamp, Reading, ReaderInv
  <2>5. QED
    BY <1>3, <2>1, <2>2, <2>4 DEF Stamp, ReaderFrame
<1>4. ASSUME NEW s \in Syncers, Set(s) PROVE ReaderFrame
  <2>1. s \in Writing /\ Writing' \subseteq Writing
    BY <1>4 DEF Set, Writing
  <2>2. \A n \in Namespaces : rows'[n] = rows[n] \/ rows'[n] \in Writing
    BY <1>4, <2>1 DEF Set
  <2>3. \A t \in Syncers : next'[t] >= next[t]
    BY <1>4 DEF Set
  <2>4. QED
    BY <1>4, <2>1, <2>2, <2>3 DEF Set, ReaderFrame, ReaderInv
<1>5. ASSUME NEW s \in Syncers, SyncFails(s) PROVE ReaderFrame
  BY <1>5 DEF SyncFails, ReaderFrame, Writing, ReaderInv, Alive
<1>6. CASE UNCHANGED vars
  BY <1>6 DEF vars, syncVars, ReaderFrame, Writing, ReaderInv
<1>7. ASSUME NEW f \in Fetchers, StartFetch(f) \/ Get(f) \/ Decide(f)
      PROVE  ReaderFrame
  <2>1. fpc'[f] # fpc[f] \/ gnext'[f] # gnext[f]
    BY <1>7 DEF StartFetch, Get, Decide, Verdicts
  <2>2. QED
    BY <2>1 DEF fetchVars
<1>8. QED
  BY <1>1, <1>2, <1>3, <1>4, <1>5, <1>6, <1>7 DEF Next

\* What was got keeps to what syncs leave.
LEMMA ReaderSync ==
  ASSUME IInv, ReaderFrame, TypeOK'
  PROVE  ReaderInv' /\ AfterInv'
<1> USE DEF IInv
<1>1. UNCHANGED <<fpc, got, gnext, after>>
  BY DEF ReaderFrame, fetchVars
<1>2. \A f \in Fetchers : \A a, b \in Syncers :
        Raced(f, a, b) => Raced(f, a, b)'
  BY DEF ReaderFrame, Raced, Related
<1>3. ASSUME NEW f \in Fetchers PROVE
        /\ fpc'[f] = "idle" => gnext'[f] = 1
        /\ fpc'[f] = "read" => Writing' \subseteq race'[f]
        /\ fpc'[f] \in Verdicts => gnext'[f] = N + 1
        /\ fpc'[f] = "accepted" => \A n \in Namespaces : got'[f][n] \in Syncers
  BY <1>1 DEF ReaderFrame, ReaderInv
<1>4. ASSUME NEW f \in Fetchers, NEW n \in Namespaces, got'[f][n] \in Syncers
      PROVE  n < gnext'[f] /\ next'[got'[f][n]] > 1
  BY <1>1, <1>4, CacheAssumption DEF ReaderFrame, ReaderInv, TypeOK
<1>5. ASSUME NEW f \in Fetchers, NEW i \in Namespaces, NEW j \in Namespaces,
             got'[f][i] \in Syncers, got'[f][j] \in Syncers
      PROVE  Raced(f, got[f][i], got[f][j])'
  BY <1>1, <1>2, <1>5 DEF ReaderInv
<1>6. ASSUME NEW f \in Fetchers, NEW i \in Namespaces, NEW j \in Namespaces,
             fpc'[f] = "read", got'[f][i] \in Syncers, rows'[j] # NoRow
      PROVE  Raced(f, got[f][i], rows[j])'
  <2>1. CASE rows'[j] = rows[j]
    <3>1. Raced(f, got[f][i], rows[j])
      BY <1>1, <1>6, <2>1 DEF ReaderInv
    <3>2. rows[j] \in Syncers
      BY <1>6, <2>1 DEF TypeOK
    <3>3. QED
      BY <1>1, <1>2, <1>6, <2>1, <3>1, <3>2 DEF Raced, Related
  <2>2. CASE rows'[j] \in Writing
    <3>1. rows'[j] \in race'[f]
      BY <1>1, <1>6, <2>2 DEF ReaderInv, ReaderFrame
    <3>2. QED
      BY <3>1 DEF Raced
  <2>3. QED
    BY <2>1, <2>2 DEF ReaderFrame
<1>7. ReaderInv'
  BY <1>3, <1>4, <1>5, <1>6 DEF ReaderInv
<1>8. ASSUME NEW f \in Fetchers, NEW s \in after'[f]
      PROVE  /\ spc'[s] = "done"
             /\ \A n \in Namespaces : n < gnext'[f] =>
                  /\ got'[f][n] # NoRow
                  /\ got'[f][n] \in Syncers =>
                       \/ got'[f][n] = s
                       \/ got'[f][n] \in clash'[s]
                       \/ stamp'[got'[f][n]] >= stamp'[s]
  <2>1. s \in Syncers /\ s \in after[f] /\ spc[s] = "done"
    BY <1>1, <1>8 DEF AfterInv, TypeOK
  <2>2. next[s] > 1
    BY <2>1, CacheAssumption DEF StoreInv, Progress
  <2>3. ASSUME NEW n \in Namespaces, got[f][n] \in Syncers
        PROVE  stamp'[got[f][n]] = stamp[got[f][n]]
    BY <2>3 DEF ReaderInv, ReaderFrame
  <2>4. QED
    BY <1>1, <2>1, <2>2, <2>3 DEF AfterInv, ReaderFrame
<1>9. QED
  BY <1>7, <1>8 DEF AfterInv

\* A fetch that begins has got nothing.
LEMMA ReaderStart ==
  ASSUME IInv, NEW f \in Fetchers, StartFetch(f)
  PROVE  ReaderInv' /\ AfterInv'
<1> USE CacheAssumption DEF IInv, TypeOK
<1>0. /\ fpc[f] = "idle"
      /\ fpc' = [fpc EXCEPT ![f] = "read"]
      /\ after' = [after EXCEPT ![f] = {s \in Syncers : spc[s] = "done"}]
      /\ race' = [race EXCEPT ![f] = Writing]
      /\ UNCHANGED <<rows, spc, stamp, next, clash, got, gnext>>
  BY DEF StartFetch, syncVars
<1>1. gnext[f] = 1 /\ \A n \in Namespaces : got[f][n] \notin Syncers
  <2>1. gnext[f] = 1
    BY <1>0 DEF ReaderInv
  <2>2. ASSUME NEW n \in Namespaces, got[f][n] \in Syncers PROVE FALSE
    <3>1. n < gnext[f]
      BY <2>2 DEF ReaderInv
    <3>2. QED
      BY <2>1, <3>1
  <2>3. QED
    BY <2>1, <2>2
<1>2. Writing' = Writing
  BY <1>0 DEF Writing
<1>3. ReaderInv'
  <2>1. ASSUME NEW g \in Fetchers, g # f
        PROVE  /\ fpc'[g] = fpc[g] /\ race'[g] = race[g]
               /\ got'[g] = got[g] /\ gnext'[g] = gnext[g]
    BY <1>0, <2>1
  <2>2. fpc'[f] = "read" /\ race'[f] = Writing /\ gnext'[f] = 1
    BY <1>0, <1>1
  <2>3. QED
    BY <1>0, <1>1, <1>2, <2>1, <2>2 DEF ReaderInv, Raced, Related, Verdicts
<1>4. AfterInv'
  BY <1>0, <1>1 DEF AfterInv
<1>5. QED
  BY <1>3, <1>4

\* A Get returns what the store holds.
LEMMA ReaderGet ==
  ASSUME IInv, NEW f \in Fetchers, Get(f)
  PROVE  ReaderInv' /\ AfterInv'
<1> DEFINE k == gnext[f]
<1> USE CacheAssumption DEF IInv, TypeOK
<1>0. /\ fpc[f] = "read" /\ k \in Namespaces
      /\ gnext' = [gnext EXCEPT ![f] = k + 1]
      /\ UNCHANGED <<rows, spc, stamp, next, clash, fpc, race, after>>
  BY DEF Get, syncVars
<1>1. PICK result \in {rows[k], ReadError} :
        got' = [got EXCEPT ![f][k] = result]
  BY DEF Get
<1>2. /\ \A g \in Fetchers : g # f => got'[g] = got[g] /\ gnext'[g] = gnext[g]
      /\ \A n \in Namespaces : n # k => got'[f][n] = got[f][n]
      /\ got'[f][k] = result /\ gnext'[f] = k + 1
  BY <1>0, <1>1
<1>3. ASSUME result \in Syncers
      PROVE  /\ result = rows[k] /\ rows[k] # NoRow /\ next[result] > 1
             /\ spc[result] \in {"write", "done", "failed"}
             /\ spc[result] = "write" => result \in race[f]
  <2>1. result = rows[k] /\ rows[k] # NoRow
    BY <1>3
  <2>2. k < next[result]
    BY <1>0, <1>3, <2>1 DEF StoreInv, Past
  <2>3. next[result] > 1
    BY <1>0, <1>3, <2>2
  <2>4. spc[result] \notin {"idle", "discover"}
    BY <1>3, <2>3 DEF StoreInv, Progress
  <2>5. spc[result] = "write" => result \in race[f]
    BY <1>0, <1>3 DEF ReaderInv, Writing
  <2>6. QED
    BY <1>3, <2>1, <2>3, <2>4, <2>5 DEF Finished
<1>4. ASSUME result \in Syncers, NEW j \in Namespaces, rows[j] # NoRow
      PROVE  Raced(f, result, rows[j])
  <2>1. rows[j] \in Syncers /\ j < next[rows[j]]
    BY <1>4 DEF StoreInv, Past
  <2>2. next[rows[j]] # 1
    BY <2>1
  <2>3. spc[rows[j]] \notin {"idle", "discover"}
    BY <2>1, <2>2 DEF StoreInv, Progress
  <2>4. spc[rows[j]] = "write" => rows[j] \in race[f]
    BY <1>0, <2>1 DEF ReaderInv, Writing
  <2>5. Related(result, rows[j]) \/ spc[result] # "done" \/ spc[rows[j]] # "done"
    BY <1>0, <1>3, <1>4 DEF StoreMix
  <2>6. spc[rows[j]] \in {"write", "done", "failed"}
    BY <2>1, <2>3 DEF Finished
  <2>7. QED
    BY <1>3, <1>4, <2>4, <2>5, <2>6 DEF Raced
<1>5. ASSUME NEW g \in Fetchers
      PROVE  /\ fpc'[g] = "idle" => gnext'[g] = 1
             /\ fpc'[g] = "read" => Writing' \subseteq race'[g]
             /\ fpc'[g] \in Verdicts => gnext'[g] = N + 1
             /\ fpc'[g] = "accepted" => \A n \in Namespaces : got'[g][n] \in Syncers
  BY <1>0, <1>2 DEF ReaderInv, Writing, Verdicts
<1>6. ASSUME NEW g \in Fetchers, NEW n \in Namespaces, got'[g][n] \in Syncers
      PROVE  n < gnext'[g] /\ next'[got'[g][n]] > 1
  <2>1. CASE g = f /\ n = k
    BY <1>0, <1>2, <1>3, <1>6, <2>1
  <2>2. CASE g # f \/ n # k
    <3>1. got'[g][n] = got[g][n]
      BY <1>2, <2>2
    <3>2. n < gnext[g] /\ next[got[g][n]] > 1
      BY <1>6, <3>1 DEF ReaderInv
    <3>3. QED
      BY <1>0, <1>2, <3>1, <3>2
  <2>3. QED
    BY <2>1, <2>2
<1>7. ASSUME NEW g \in Fetchers, NEW i \in Namespaces, NEW j \in Namespaces,
             fpc'[g] = "read", got'[g][i] \in Syncers, rows'[j] # NoRow
      PROVE  Raced(g, got'[g][i], rows[j])
  <2>1. CASE g = f /\ i = k
    BY <1>0, <1>2, <1>4, <1>7, <2>1
  <2>2. CASE g # f \/ i # k
    <3>1. got'[g][i] = got[g][i]
      BY <1>2, <2>2
    <3>2. fpc[g] = "read" /\ rows[j] # NoRow
      BY <1>0, <1>7
    <3>3. QED
      BY <1>7, <3>1, <3>2 DEF ReaderInv
  <2>3. QED
    BY <2>1, <2>2
<1>8. ASSUME NEW g \in Fetchers, NEW i \in Namespaces, NEW j \in Namespaces,
             got'[g][i] \in Syncers, got'[g][j] \in Syncers
      PROVE  Raced(g, got'[g][i], got'[g][j])
  <2>1. CASE g # f \/ (i # k /\ j # k)
    <3>1. got'[g][i] = got[g][i] /\ got'[g][j] = got[g][j]
      BY <1>2, <2>1
    <3>2. QED
      BY <1>8, <3>1 DEF ReaderInv
  <2>2. CASE g = f /\ i = k
    <3>1. result \in Syncers /\ got'[g][i] = result
      BY <1>2, <1>8, <2>2
    <3>2. CASE j = k
      BY <1>2, <2>2, <3>2 DEF Raced, Related
    <3>3. CASE j # k
      <4>1. got[f][j] \in Syncers /\ got'[f][j] = got[f][j]
        BY <1>2, <1>8, <2>2, <3>3
      <4>2. Raced(f, got[f][j], rows[k])
        BY <1>0, <1>3, <3>1, <4>1 DEF ReaderInv
      <4>3. QED
        BY <1>3, <2>2, <3>1, <4>1, <4>2 DEF Raced, Related
    <3>4. QED
      BY <3>2, <3>3
  <2>3. CASE g = f /\ i # k /\ j = k
    <3>1. result \in Syncers /\ got'[g][j] = result
      BY <1>2, <1>8, <2>3
    <3>2. got[f][i] \in Syncers /\ got'[f][i] = got[f][i]
      BY <1>2, <1>8, <2>3
    <3>3. Raced(f, got[f][i], rows[k])
      BY <1>0, <1>3, <3>1, <3>2 DEF ReaderInv
    <3>4. QED
      BY <1>3, <2>3, <3>1, <3>2, <3>3
  <2>4. QED
    BY <2>1, <2>2, <2>3
<1>9. ReaderInv'
  BY <1>0, <1>5, <1>6, <1>7, <1>8 DEF ReaderInv, Raced, Related
<1>10. ASSUME NEW g \in Fetchers, NEW s \in after'[g], NEW n \in Namespaces, n < gnext'[g]
       PROVE  /\ got'[g][n] # NoRow
              /\ got'[g][n] \in Syncers =>
                   \/ got'[g][n] = s
                   \/ got'[g][n] \in clash[s]
                   \/ stamp[got'[g][n]] >= stamp[s]
  <2>1. s \in Syncers /\ s \in after[g] /\ spc[s] = "done"
    BY <1>0, <1>10 DEF AfterInv
  <2>2. next[s] = N + 1
    BY <2>1 DEF StoreInv, Progress
  <2>3. CASE g = f /\ n = k
    <3>1. /\ rows[k] # NoRow
          /\ rows[k] = s \/ rows[k] \in clash[s] \/ stamp[rows[k]] >= stamp[s]
      BY <1>0, <2>1, <2>2 DEF StoreInv, Landed
    <3>2. got'[g][n] = rows[k] \/ got'[g][n] = ReadError
      BY <1>2, <2>3
    <3>3. QED
      BY <3>1, <3>2
  <2>4. CASE g # f \/ n # k
    <3>1. got'[g][n] = got[g][n] /\ n < gnext[g]
      BY <1>0, <1>2, <1>10, <2>4
    <3>2. QED
      BY <2>1, <3>1 DEF AfterInv
  <2>5. QED
    BY <2>3, <2>4
<1>11. AfterInv'
  BY <1>0, <1>10 DEF AfterInv
<1>12. QED
  BY <1>9, <1>11

\* A verdict changes nothing of what was got.
LEMMA ReaderDecide ==
  ASSUME IInv, NEW f \in Fetchers, Decide(f)
  PROVE  ReaderInv' /\ AfterInv'
<1> USE CacheAssumption DEF IInv, TypeOK
<1>0. /\ fpc[f] = "read" /\ gnext[f] = N + 1
      /\ fpc' = [fpc EXCEPT ![f] = fpc'[f]] /\ fpc'[f] \in Verdicts
      /\ UNCHANGED <<rows, spc, stamp, next, clash, got, gnext, race, after>>
  BY DEF Decide, syncVars, Verdicts
<1>1. fpc'[f] = "accepted" => \A n \in Namespaces : got[f][n] \in Syncers
  BY DEF Decide
<1>2. ReaderInv'
  BY <1>0, <1>1 DEF ReaderInv, Raced, Related, Writing, Verdicts
<1>3. AfterInv'
  BY <1>0 DEF AfterInv
<1>4. QED
  BY <1>2, <1>3

-----------------------------------------------------------------------------
(* The theorems. *)

\* The inductive invariant holds at the start.
LEMMA InvInit == Init => IInv
<1> SUFFICES ASSUME Init PROVE IInv
  OBVIOUS
<1>1. ReaderInv
  BY CacheAssumption DEF Init, ReaderInv, Verdicts, Writing
<1>2. AfterInv
  BY DEF Init, AfterInv
<1>3. QED
  BY <1>1, <1>2, TypeInit, StoreInit DEF IInv

\* Every step keeps it.
LEMMA InvStep == IInv /\ [Next]_vars => IInv'
<1> SUFFICES ASSUME IInv, [Next]_vars PROVE IInv'
  OBVIOUS
<1>1. TypeOK'
  BY TypeStep DEF IInv, StoreInv
<1>2. StoreInv' /\ StoreMix'
  BY StoreStep
<1>3. ReaderInv' /\ AfterInv'
  <2>1. CASE UNCHANGED fetchVars
    BY <2>1, <1>1, SyncFrame, ReaderSync
  <2>2. ASSUME NEW f \in Fetchers, StartFetch(f) \/ Get(f) \/ Decide(f)
        PROVE  ReaderInv' /\ AfterInv'
    BY <2>2, ReaderStart, ReaderGet, ReaderDecide
  <2>3. CASE Tick
    BY <2>1, <2>3 DEF Tick
  <2>4. ASSUME NEW s \in Syncers, Discover(s) \/ Stamp(s) \/ Set(s) \/ SyncFails(s)
        PROVE  UNCHANGED fetchVars
    BY <2>4 DEF Discover, Stamp, Set, SyncFails
  <2>5. CASE UNCHANGED vars
    BY <2>1, <2>5 DEF vars
  <2>6. QED
    BY <2>1, <2>2, <2>3, <2>4, <2>5 DEF Next
<1>4. QED
  BY <1>1, <1>2, <1>3 DEF IInv

\* It holds in every state.
LEMMA Invariance == Spec => []IInv
<1>1. QED
  BY InvInit, InvStep, PTL DEF Spec

\* Every variable keeps its type, for any number of runs and namespaces.
THEOREM TypeCorrect == Spec => []TypeOK
<1>1. IInv => TypeOK
  BY DEF IInv
<1>2. QED
  BY <1>1, Invariance, PTL

\* Metadata of two discoveries is combined only after a race or a failure.
THEOREM MixedOnlyIfRacedHolds == Spec => []MixedOnlyIfRaced
<1>1. IInv => MixedOnlyIfRaced
  <2> SUFFICES ASSUME IInv, NEW f \in Fetchers, fpc[f] = "accepted",
                      NEW i \in Namespaces, NEW j \in Namespaces
               PROVE  Raced(f, got[f][i], got[f][j])
    BY DEF MixedOnlyIfRaced, Raced, Related
  <2>1. QED
    BY DEF IInv, ReaderInv
<1>2. QED
  BY <1>1, Invariance, PTL

\* The row of a parent namespace is at least as recent as that of its children.
THEOREM ParentsNotOlderHolds == Spec => []ParentsNotOlder
<1>1. IInv => ParentsNotOlder
  <2> SUFFICES ASSUME IInv, NEW i \in Namespaces, NEW j \in Namespaces,
                      i < j, rows[j] # NoRow
               PROVE  /\ rows[i] # NoRow
                      /\ stamp[rows[i]] >= stamp[rows[j]] \/ rows[i] \in clash[rows[j]]
    BY DEF ParentsNotOlder
  <2>1. rows[j] \in Syncers /\ j < next[rows[j]]
    BY DEF IInv, TypeOK, StoreInv, Past
  <2>2. i < next[rows[j]]
    BY <2>1, CacheAssumption DEF IInv, TypeOK
  <2>3. QED
    BY <2>1, <2>2, Instants, CacheAssumption DEF IInv, TypeOK, StoreInv, Landed
<1>2. QED
  BY <1>1, Invariance, PTL

\* After a successful sync no older UpdatedAt comes back without a race.
THEOREM NoStampRegressionHolds == Spec => []NoStampRegression
<1>1. IInv => NoStampRegression
  BY Instants, CacheAssumption DEF IInv, TypeOK, StoreInv, Progress, Landed, NoStampRegression
<1>2. QED
  BY <1>1, Invariance, PTL

\* After a successful sync no older data comes back without an overlap.
THEOREM NoContentRegressionHolds == Spec => []NoContentRegression
<1>1. IInv => NoContentRegression
  <2> SUFFICES ASSUME IInv, NEW s \in Syncers, spc[s] = "done", NEW n \in Namespaces
               PROVE  /\ rows[n] # NoRow
                      /\ seen[rows[n]] >= seen[s] \/ rows[n] \in overlap[s]
    BY DEF NoContentRegression
  <2>1. n < next[s]
    BY CacheAssumption DEF IInv, StoreInv, Progress
  <2>2. rows[n] # NoRow
    BY <2>1 DEF IInv, StoreInv, Landed
  <2>3. seen[s] \in Int
    BY Instants DEF IInv
  <2>4. QED
    BY <2>1, <2>2, <2>3 DEF IInv, StoreInv, LandedContent
<1>2. QED
  BY <1>1, Invariance, PTL

\* positions after a successful sync-metadata is not told to run it again,
\* unless the sync has expired or was overwritten by a run that raced with it.
THEOREM SyncThenPositionsHolds == Spec => SyncThenPositions
<1> DEFINE Verdict ==
      \A f \in Fetchers : fpc[f] = "read" =>
        /\ fpc'[f] = "missing" => after[f] = {}
        /\ fpc'[f] = "expired" =>
             \A s \in after[f] :
               \/ now - stamp[s] > EffectiveAge(age[f])
               \/ \E n \in Namespaces : got[f][n] \in clash[s]
<1>1. IInv /\ [Next]_vars => Verdict
  <2> SUFFICES ASSUME IInv, [Next]_vars, NEW f \in Fetchers, fpc[f] = "read",
                      fpc'[f] \in {"missing", "expired"}
               PROVE  /\ fpc'[f] = "missing" => after[f] = {}
                      /\ fpc'[f] = "expired" =>
                           \A s \in after[f] :
                             \/ now - stamp[s] > EffectiveAge(age[f])
                             \/ \E n \in Namespaces : got[f][n] \in clash[s]
    OBVIOUS
  <2> USE CacheAssumption DEF IInv, TypeOK
  <2>1. Decide(f)
    <3>1. ASSUME NEW g \in Fetchers, g # f, Decide(g) PROVE fpc'[f] = fpc[f]
      BY <3>1 DEF Decide
    <3>2. QED
      BY <3>1 DEF Next, vars, syncVars, fetchVars, Tick, Discover, Stamp, Set, SyncFails,
                  StartFetch, Get
  <2>2. gnext[f] = N + 1
    BY <2>1 DEF Decide
  <2>3. ASSUME fpc'[f] = "missing", NEW s \in after[f] PROVE FALSE
    <3>1. \E n \in Namespaces : got[f][n] = NoRow
      BY <2>1, <2>3 DEF Decide
    <3>2. QED
      BY <2>2, <2>3, <3>1 DEF AfterInv
  <2>4. ASSUME fpc'[f] = "expired", NEW s \in after[f],
               \A n \in Namespaces : got[f][n] \notin clash[s]
        PROVE  now - stamp[s] > EffectiveAge(age[f])
    <3>1. PICK n \in Namespaces : /\ Expired(got[f][n], EffectiveAge(age[f]))
                                  /\ got[f][n] # NoRow /\ got[f][n] # ReadError
      BY <2>1, <2>4 DEF Decide
    <3>2. got[f][n] \in Syncers /\ s \in Syncers
      BY <3>1
    <3>3. stamp[got[f][n]] >= stamp[s]
      <4>1. n < gnext[f] /\ stamp[s] \in Int
        BY <2>2, <3>2, Instants
      <4>2. got[f][n] = s \/ got[f][n] \in clash[s] \/ stamp[got[f][n]] >= stamp[s]
        BY <2>4, <3>2, <4>1 DEF AfterInv
      <4>3. QED
        BY <2>4, <4>1, <4>2
    <3>4. EffectiveAge(age[f]) \in Int
      BY EffectiveAgeType
    <3>5. now \in Int /\ stamp[s] \in Int /\ stamp[got[f][n]] \in Int
      BY <3>2, Instants
    <3>6. QED
      BY <3>1, <3>3, <3>4, <3>5 DEF Expired
  <2>5. QED
    BY <2>3, <2>4
<1>2. Verdict => [Verdict]_vars
  OBVIOUS
<1>3. QED
  BY <1>1, Invariance, PTL DEF Spec, SyncThenPositions
=============================================================================
