---------------------------- MODULE MCJenaClient -----------------------------
(* A small instance of JenaClient for TLC. *)
EXTENDS JenaClient

CONSTANTS t1, t2
MCThreads == {t1, t2}
==============================================================================
