--------------------------- MODULE MCProfileSwitch ---------------------------
(* Small instances of ProfileSwitch for TLC. *)
EXTENDS ProfileSwitch, TLC

\* Ids are interchangeable: no definition singles one out, and the runs that use this
\* check safety only.
IdSymmetry == Permutations(Ids)
==============================================================================
