----------------------------- MODULE MCCommands -----------------------------
(* Instances of Commands for TLC. *)
EXTENDS Commands

CONSTANTS s1, s2, f1

\* Two protocols in registry order; the first checks its metadata.
Aave == 1
Demo == 2
Registered == {Aave, Demo}

\* One syncs all protocols; the others name one of them, or one that is not
\* registered, or none.
RequestsOf == [c \in {s1, s2, f1} |->
  IF c = s1 THEN {{}} ELSE IF c = s2 THEN {{Aave}} ELSE {{}, {Aave, 3}}]

OneNamespace == [p \in Registered |-> 1]
Flags == {1}
=============================================================================
