-------------------------- MODULE MCAnswerPipeline ---------------------------
(* A small instance of AnswerPipeline for TLC. *)
EXTENDS AnswerPipeline

CONSTANTS memo, note        \* a chunk of each of two types
MCChunks == {memo, note}
MCDocTypes == {"meeting_note", "technical_doc"}
MCTypeOf == [c \in MCChunks |-> IF c = note THEN "meeting_note" ELSE "technical_doc"]
MCIdOrder == [c \in MCChunks |-> IF c = memo THEN 1 ELSE 2]
==============================================================================
