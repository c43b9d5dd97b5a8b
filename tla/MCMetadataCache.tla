-------------------------- MODULE MCMetadataCache --------------------------
(* Instances of MetadataCache for TLC. *)
EXTENDS MetadataCache, TLC

\* -metadata-max-age left at the default and set to "no limit".
Flags == {0, -1}

\* The runs of one command are interchangeable.
Symmetry == Permutations(Syncers) \cup Permutations(Fetchers)
=============================================================================
