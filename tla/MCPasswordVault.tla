--------------------------- MODULE MCPasswordVault ---------------------------
(* A small instance of PasswordVault for TLC. *)
EXTENDS PasswordVault

CONSTANTS r1, r2, r3, s1, s2, k1, k2
MCIds == {r1, r2, r3}
MCSecrets == {s1, s2}
MCKeys == {k1, k2}
==============================================================================
