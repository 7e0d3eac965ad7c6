---------------------------- MODULE PythonWorker -----------------------------
(***************************************************************************)
(* mcp-air/src/python-worker.ts: the bridge that spawns the processes of   *)
(* AirWorker, sends them calls and correlates their answers.  Every action *)
(* is one callback of the event loop; a call races with its timeout, its   *)
(* write error, the exit of a process, restartOnce() and close().          *)
(***************************************************************************)
EXTENDS AirWorker, FiniteSets

CONSTANT NoProc     \* this.proc is null

ASSUME BridgeAssumption == NoProc \notin Nat

VARIABLES
    proc,       \* this.proc
    pending,    \* the keys of this.pending, each with its timer
    restarted,  \* this.restarted
    muted,      \* the processes whose readline interface was closed
    killed,     \* the processes that were sent a signal
    reaped,     \* the processes whose exit event was handled
    unsent,     \* the calls whose write has failed, before its callback
    outcome,    \* what has become of the promise of each call
    answer,     \* the call whose answer it was resolved with
    (* history *)
    sentTo,     \* the process a call was written to
    retired     \* the processes there were at the last restartOnce()

bridgeVars == <<proc, pending, restarted, muted, killed, reaped, unsent, outcome, answer>>
historyVars == <<sentTo, retired>>
vars == <<bridgeVars, historyVars, workerVars>>

Contract == INSTANCE CallContract

TypeOK ==
    /\ WorkerTypeOK
    /\ proc \in Procs \union {NoProc}
    /\ pending \subseteq Calls
    /\ restarted \in BOOLEAN
    /\ muted \subseteq Procs
    /\ killed \subseteq Procs
    /\ reaped \subseteq Procs
    /\ unsent \subseteq Calls
    /\ outcome \in [Calls -> Contract!Outcomes]
    /\ answer \in [Calls -> Calls \union {NoCall}]
    /\ sentTo \in [Calls -> Procs \union {NoProc}]
    /\ retired \subseteq Procs

Init ==
    /\ WorkerInit
    /\ proc = NoProc
    /\ pending = {}
    /\ restarted = FALSE
    /\ muted = {} /\ killed = {} /\ reaped = {}
    /\ unsent = {}
    /\ outcome = [c \in Calls |-> "uncalled"]
    /\ answer = [c \in Calls |-> NoCall]
    /\ sentTo = [c \in Calls |-> NoProc]
    /\ retired = {}

Unborn == {p \in Procs : process[p] = "unborn"}
FirstOf(S) == {p \in S : \A q \in S : p <= q}
Current == {p \in Procs : p = proc}

\* reject(): a promise that is settled already stays as it is.
Rejected(S) ==
    [c \in Calls |-> IF c \in S /\ outcome[c] = "waiting" THEN "failed" ELSE outcome[c]]

------------------------------------------------------------------------------
(* call() *)

\* Variant: a process for each call.
StartedAnew == IF Unborn # {} THEN FirstOf(Unborn) ELSE Current

\* ensureStarted(): the process at hand, or a new one, of which there may be none left
\* (bound: MaxProcs).
Started == IF Current \ killed # {} THEN Current ELSE FirstOf(Unborn)

Call(c) ==
    /\ outcome[c] = "uncalled"
    /\ \E p \in Started :
        /\ proc' = p
        /\ process' = [process EXCEPT ![p] = IF @ = "unborn" THEN "running" ELSE @]
        /\ sentTo' = [sentTo EXCEPT ![c] = p]
        /\ \/ /\ Ended(p)                   \* its exit event is still to come
              /\ unsent' = unsent \union {c}
              /\ UNCHANGED requests
           \/ /\ ~Ended(p)
              /\ requests' = [requests EXCEPT ![p] = Append(@, c)]
              /\ UNCHANGED unsent
    /\ pending' = pending \union {c}
    /\ outcome' = [outcome EXCEPT ![c] = "waiting"]
    /\ UNCHANGED <<restarted, muted, killed, reaped, answer, retired, serving, printed>>

\* The timer of a pending call.
TimeOut(c) ==
    /\ c \in pending
    /\ pending' = pending \ {c}
    /\ outcome' = Rejected({c})
    /\ UNCHANGED <<proc, restarted, muted, killed, reaped, unsent, answer, historyVars, workerVars>>

\* The callback of write() with an error.
WriteFails(c) ==
    /\ c \in unsent
    /\ unsent' = unsent \ {c}
    /\ pending' = pending \ {c}
    /\ outcome' = Rejected({c})
    /\ UNCHANGED <<proc, restarted, muted, killed, reaped, answer, historyVars, workerVars>>

------------------------------------------------------------------------------
(* The listeners of a process *)

\* Variant: answers are taken to arrive in the order of the calls.
AddresseeAny(line) == IF pending = {} THEN {} ELSE {CHOOSE c \in pending : TRUE}

\* this.pending.get(parsed.requestId); a torn line is no JSON.
Addressee(line) == pending \intersect {line}

\* Variant: any answer restores the budget.
RestoresAlways(known) == restarted' = FALSE

\* An answer to a call that is still pending restores the budget.
RestoresBudget(known) == restarted' = (restarted /\ known = {})

OnLine(p) ==
    /\ printed[p] # <<>>
    /\ p \notin muted
    /\ printed' = [printed EXCEPT ![p] = Tail(@)]
    /\ LET line == Head(printed[p])
           known == Addressee(line) IN
        /\ pending' = pending \ known
        /\ RestoresBudget(known)
        /\ outcome' = [c \in Calls |-> IF c \in known THEN "answered" ELSE outcome[c]]
        /\ answer' = [c \in Calls |-> IF c \in known THEN line ELSE answer[c]]
    /\ UNCHANGED <<proc, muted, killed, reaped, unsent, historyVars>>
    /\ UNCHANGED <<process, requests, serving>>

\* The process is forgotten only if it is the current one, but every pending call fails.
OnExit(p) ==
    /\ Ended(p)
    /\ p \notin reaped
    /\ reaped' = reaped \union {p}
    /\ proc' = IF proc = p THEN NoProc ELSE proc
    /\ pending' = {}
    /\ outcome' = Rejected(pending)
    /\ UNCHANGED <<restarted, muted, killed, unsent, answer, historyVars, workerVars>>

------------------------------------------------------------------------------
(* What the owner of the bridge may do *)

\* An unused budget; otherwise it throws and changes nothing.
RestartOnce ==
    /\ ~restarted
    /\ restarted' = TRUE
    /\ killed' = killed \union Current
    /\ muted' = muted \union Current
    /\ proc' = NoProc
    /\ retired' = Procs \ Unborn
    /\ UNCHANGED <<pending, reaped, unsent, outcome, answer, sentTo, workerVars>>

\* Variant: close() forgets the process without a signal.
CloseWithoutKill ==
    /\ pending' = {}
    /\ outcome' = Rejected(pending)
    /\ muted' = muted \union Current
    /\ proc' = NoProc
    /\ UNCHANGED <<restarted, killed, reaped, unsent, answer, historyVars, workerVars>>

Close ==
    /\ pending' = {}
    /\ outcome' = Rejected(pending)
    /\ killed' = killed \union Current
    /\ muted' = muted \union Current
    /\ proc' = NoProc
    /\ UNCHANGED <<restarted, reaped, unsent, answer, historyVars, workerVars>>

------------------------------------------------------------------------------
Worker(p) == WorkerStep(p) /\ UNCHANGED <<bridgeVars, historyVars>>

Next ==
    \/ \E c \in Calls : Call(c) \/ TimeOut(c) \/ WriteFails(c)
    \/ \E p \in Procs : OnLine(p) \/ OnExit(p) \/ Worker(p)
    \/ RestartOnce \/ Close

\* A timer fires unless it is cleared; the child owes nothing.
Fairness == \A c \in Calls : WF_vars(TimeOut(c))

Spec == Init /\ [][Next]_vars /\ Fairness
------------------------------------------------------------------------------
(* Properties *)

\* Every call is settled once, with its own answer or an error, and is not left waiting,
\* whatever the processes do and the owner asks for (the map of pending calls, its
\* timers, and the promises of call()).
KeepsContract == Contract!Spec

\* Only the answer of a process started after the restart shows that the restart helped:
\* nothing a process from before it still prints restores the budget (the readline
\* interface closed by restartOnce(), the calls failed at an exit, and the map lookup
\* that comes before "this.restarted = false").
OnlyNewProcessRestoresBudget ==
    [][restarted /\ ~restarted' =>
        \E p \in Procs \ retired : printed'[p] # printed[p]]_vars

\* A process that ended by itself fails its own calls only: the exit handler, which
\* rejects every pending call, reaches a call of another process only when the owner
\* had killed one of the two.
ExitFailsOwnCalls ==
    [][\A p \in (reaped' \ reaped) \ killed : \A c \in Calls :
        outcome[c] = "waiting" /\ outcome'[c] = "failed" => sentTo[c] \in {p} \union killed]_vars

\* No process is left behind: one that is running is the one calls go to, or it was
\* sent a signal (this.proc is only ever replaced after an exit or a kill()).
NoProcessLeftBehind ==
    \A p \in Procs : process[p] = "running" => p = proc \/ p \in killed

\* Serving a request does not end the worker: whatever the tool returns, the process
\* does not fail ("an exception the adapter missed does not kill the process",
\* air_worker.py:34, and line 52).
ServingKeepsWorkerAlive == \A p \in Procs : process[p] # "failed"
==============================================================================
