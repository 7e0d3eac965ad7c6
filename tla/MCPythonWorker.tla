--------------------------- MODULE MCPythonWorker ----------------------------
(* A small instance of PythonWorker for TLC. *)
EXTENDS PythonWorker

CONSTANTS c1, c2, c3
MCCalls == {c1, c2, c3}
==============================================================================
