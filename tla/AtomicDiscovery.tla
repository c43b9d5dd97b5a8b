-------------------------- MODULE AtomicDiscovery --------------------------
(***************************************************************************)
(* What the rest of the program takes a log discovery to be: at one        *)
(* instant the chain is h blocks long, and the discovery returns every     *)
(* matching log from the start block up to h, or an error.                 *)
(***************************************************************************)
EXTENDS Integers

CONSTANT MaxUint

VARIABLES
  start,  \* the block the discovery starts from
  logs,   \* the matching logs of the chain: pairs <<block, query>>
  status, \* "running", "done" or "error"
  found   \* what the discovery returned

absVars == <<start, logs, status, found>>

AInit == status = "running" /\ found = {}

Succeed ==
  /\ status = "running"
  /\ status' = "done"
  /\ \E h \in 0..MaxUint : found' = {l \in logs : l[1] \in start..h}
  /\ UNCHANGED <<start, logs>>

Fail ==
  /\ status = "running"
  /\ status' = "error"
  /\ UNCHANGED <<start, logs, found>>

ASpec == AInit /\ [][Succeed \/ Fail]_absVars
=============================================================================
