----------------------------- MODULE CallContract -----------------------------
(***************************************************************************)
(* What PythonWorker.call() promises its callers, whatever becomes of the  *)
(* child processes: the promise of a call is settled exactly once, with    *)
(* the answer to this very call or with an error.                          *)
(***************************************************************************)
CONSTANTS Calls, NoCall

VARIABLES
    outcome,    \* what has become of the promise of each call
    answer      \* the call whose answer it was resolved with

contractVars == <<outcome, answer>>

Outcomes == {"uncalled", "waiting", "answered", "failed"}

Init ==
    /\ outcome = [c \in Calls |-> "uncalled"]
    /\ answer = [c \in Calls |-> NoCall]

Make(c) ==
    /\ outcome[c] = "uncalled"
    /\ outcome' = [outcome EXCEPT ![c] = "waiting"]
    /\ UNCHANGED answer

GetAnswer(c) ==
    /\ outcome[c] = "waiting"
    /\ outcome' = [outcome EXCEPT ![c] = "answered"]
    /\ answer' = [answer EXCEPT ![c] = c]

\* An exit or a close() may end many calls at once.
Fail(S) ==
    /\ \A c \in S : outcome[c] = "waiting"
    /\ outcome' = [c \in Calls |-> IF c \in S THEN "failed" ELSE outcome[c]]
    /\ UNCHANGED answer

Next ==
    \/ \E c \in Calls : Make(c) \/ GetAnswer(c)
    \/ \E S \in SUBSET Calls : Fail(S)

Settle(c) == GetAnswer(c) \/ \E S \in SUBSET Calls : c \in S /\ Fail(S)

Safety == Init /\ [][Next]_contractVars

\* Nobody has to call, but a call made is not left waiting.
Spec == Safety /\ \A c \in Calls : WF_contractVars(Settle(c))
==============================================================================
