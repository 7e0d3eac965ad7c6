------------------------------ MODULE JenaClient ------------------------------
(***************************************************************************)
(* kg/client.py and kg/wire.py: JenaGraphClient, which writes a request to *)
(* a Java runner and reads one line back.  It has no lock: the threads     *)
(* that share a client interleave between its statements; a test of        *)
(* self._proc with poll(), and an assignment to it with the return that    *)
(* follows, are one step each.  The runner is external; its pipes are      *)
(* those of the processes the client spawned.                              *)
(***************************************************************************)
EXTENDS Naturals, Sequences, FiniteSets

CONSTANTS
    Threads,    \* threads that may call the client
    NoProc,     \* self._proc is None
    MaxProcs,   \* bounds the processes spawned
    MaxCalls,   \* bounds the calls made
    MaxStray    \* bounds the lines the runner prints without being asked

ASSUME JenaAssumption ==
    /\ NoProc \notin Nat
    /\ IsFiniteSet(Threads)
    /\ MaxProcs \in Nat /\ MaxCalls \in Nat /\ MaxStray \in Nat

Procs == 1..MaxProcs    \* in the order of their start
Ids == 1..MaxCalls      \* request_id, fresh for each request

\* A line of the runner by the request it answers, well or badly, or none for a line that
\* nobody asked for.
NoRequest == 0
Lines == Ids \union {NoRequest}

VARIABLES
    proc,       \* self._proc
    restarted,  \* self._restarted
    callers,    \* the threads that use the client in this run
    pc,         \* the next statement of a thread's call
    mine,       \* its local proc
    request,    \* its request_id
    issued,     \* the ids issued so far
    (* external: the runner's processes *)
    runner,     \* whether a process is running
    stdin, stdout, stray

clientVars == <<proc, restarted, callers, pc, mine, request, issued>>
runnerVars == <<runner, stdin, stdout, stray>>
vars == <<clientVars, runnerVars>>

\* How far a thread is in call(), _restart_once() and close().
CallSteps == {"ensure", "spawn", "write", "restart", "claim", "kill", "respawn", "rewrite", "read"}
CloseSteps == {"wait", "forget"}

\* "closed" is a process whose stdin was closed and that runs on.
States == {"unborn", "running", "closed", "killed", "ended"}

Unborn == {p \in Procs : runner[p] = "unborn"}

TypeOK ==
    /\ proc \in Procs \union {NoProc}
    /\ restarted \in BOOLEAN
    /\ callers \subseteq Threads
    /\ pc \in [Threads -> CallSteps \union CloseSteps \union {"idle"}]
    /\ mine \in [Threads -> Procs \union {NoProc}]
    /\ \A t \in Threads : pc[t] \in {"write", "rewrite", "read"} => mine[t] \in Procs \ Unborn
    /\ request \in [Threads -> Ids \union {NoRequest}]
    /\ \A t \in Threads : pc[t] \in CallSteps => request[t] \in Ids
    /\ issued \in 0..MaxCalls
    /\ runner \in [Procs -> States]
    /\ stdin \in [Procs -> Seq(Ids)]
    /\ stdout \in [Procs -> Seq(Lines)]
    /\ stray \in 0..MaxStray

Init ==
    /\ proc = NoProc
    /\ restarted = FALSE
    /\ callers \in (SUBSET Threads) \ {{}}
    /\ pc = [t \in Threads |-> "idle"]
    /\ mine = [t \in Threads |-> NoProc]
    /\ request = [t \in Threads |-> NoRequest]
    /\ issued = 0
    /\ runner = [p \in Procs |-> "unborn"]
    /\ stdin = [p \in Procs |-> <<>>]
    /\ stdout = [p \in Procs |-> <<>>]
    /\ stray = 0

Goto(t, step) == pc' = [pc EXCEPT ![t] = step]

\* call() returns a response or raises: which of them makes no difference to the client,
\* and its locals are gone.
Return(t) ==
    /\ Goto(t, "idle")
    /\ mine' = [mine EXCEPT ![t] = NoProc]
    /\ request' = [request EXCEPT ![t] = NoRequest]

\* self._proc = self._spawn(...); not when all are used up (bound: MaxProcs).
StartRunner ==
    \E p \in Unborn :
        /\ \A q \in Unborn : p <= q
        /\ proc' = p
        /\ runner' = [runner EXCEPT ![p] = "running"]

\* The local proc is the same process.
Spawn(t) ==
    /\ StartRunner
    /\ mine' = [mine EXCEPT ![t] = proc']

------------------------------------------------------------------------------
(* call(), _call_once() *)

\* A request outside the contract of wire.py is never built: nothing changes.
RefuseRequest(t) ==
    /\ pc[t] = "idle"
    /\ t \in callers
    /\ UNCHANGED vars

StartCall(t) ==
    /\ pc[t] = "idle"
    /\ t \in callers
    /\ issued < MaxCalls
    /\ issued' = issued + 1
    /\ request' = [request EXCEPT ![t] = issued + 1]
    /\ Goto(t, "ensure")
    /\ UNCHANGED <<proc, restarted, callers, mine, runnerVars>>

\* poll() is None; a process that was sent a signal may still be running.
IsAlive == proc # NoProc /\ runner[proc] \in {"running", "closed", "killed"}

\* Variant: self._proc is taken whatever it is.
EnsureStartedUnchecked(t) ==
    /\ pc[t] = "ensure"
    /\ mine' = [mine EXCEPT ![t] = proc]
    /\ Goto(t, "write")
    /\ UNCHANGED <<proc, restarted, callers, request, issued, runnerVars>>

EnsureStarted(t) ==
    /\ pc[t] = "ensure"
    /\ \/ IsAlive /\ mine' = [mine EXCEPT ![t] = proc] /\ Goto(t, "write")
       \/ ~IsAlive /\ Goto(t, "spawn") /\ UNCHANGED mine
    /\ UNCHANGED <<proc, restarted, callers, request, issued, runnerVars>>

FirstSpawn(t) ==
    /\ pc[t] = "spawn"
    /\ Spawn(t)
    /\ Goto(t, "write")
    /\ UNCHANGED <<restarted, callers, request, issued, stdin, stdout, stray>>

\* The runner cannot be started, the first time or again: OSError becomes ProcessError.
SpawnFails(t) ==
    /\ pc[t] \in {"spawn", "respawn"}
    /\ Return(t)
    /\ UNCHANGED <<proc, restarted, callers, issued, runnerVars>>

\* The write reaches a process whose stdin is open.  It fails for any other, and can fail
\* for a running one too: the line cannot be encoded, and none of it is in the pipe.
Reaches(p) == runner[p] \in {"running", "killed"}

WriteTo(t, failed) ==
    \/ /\ Reaches(mine[t])
       /\ stdin' = [stdin EXCEPT ![mine[t]] = Append(@, request[t])]
       /\ Goto(t, "read")
       /\ UNCHANGED <<mine, request>>
    \/ failed /\ UNCHANGED stdin

Write(t) ==
    /\ pc[t] = "write"
    /\ WriteTo(t, Goto(t, "restart") /\ UNCHANGED <<mine, request>>)
    /\ UNCHANGED <<proc, restarted, callers, issued, runner, stdout, stray>>

\* _restart_once(): the one restart may be used up.
CheckRestart(t) ==
    /\ pc[t] = "restart"
    /\ \/ restarted /\ Return(t)
       \/ ~restarted /\ Goto(t, "claim") /\ UNCHANGED <<mine, request>>
    /\ UNCHANGED <<proc, restarted, callers, issued, runnerVars>>

ClaimRestart(t) ==
    /\ pc[t] = "claim"
    /\ restarted' = TRUE
    /\ Goto(t, "kill")
    /\ UNCHANGED <<proc, callers, mine, request, issued, runnerVars>>

\* self._proc.kill(), whoever spawned it.
Killed ==
    [p \in Procs |-> IF p = proc /\ runner[p] \in {"running", "closed"} THEN "killed" ELSE runner[p]]

\* Variant: the old process is not killed.
KillNothing(t) ==
    /\ pc[t] = "kill"
    /\ Goto(t, "respawn")
    /\ UNCHANGED <<proc, restarted, callers, mine, request, issued, runnerVars>>

KillRunner(t) ==
    /\ pc[t] = "kill"
    /\ runner' = Killed
    /\ Goto(t, "respawn")
    /\ UNCHANGED <<proc, restarted, callers, mine, request, issued, stdin, stdout, stray>>

Respawn(t) ==
    /\ pc[t] = "respawn"
    /\ Spawn(t)
    /\ Goto(t, "rewrite")
    /\ UNCHANGED <<restarted, callers, request, issued, stdin, stdout, stray>>

Rewrite(t) ==
    /\ pc[t] = "rewrite"
    /\ WriteTo(t, Return(t))
    /\ UNCHANGED <<proc, restarted, callers, issued, runner, stdout, stray>>

------------------------------------------------------------------------------
(* readline() *)

\* Variant: the call gives up waiting for a runner that goes on.
ReadLineOrGiveUp(t) ==
    /\ pc[t] = "read"
    /\ stdout' = [stdout EXCEPT ![mine[t]] = IF @ = <<>> THEN @ ELSE Tail(@)]
    /\ Return(t)
    /\ UNCHANGED <<proc, restarted, callers, issued, runner, stdin, stray>>

\* One line is read and gone, whether it is the response, blank, no JSON, incomplete or
\* the response to another request: the call returns the first and raises for the others.
\* The clock is only looked at after a blank line or the end of the file, and then only
\* chooses the error's class: nothing bounds the wait for a line.
ReadLine(t) ==
    /\ pc[t] = "read"
    /\ stdout[mine[t]] # <<>>
    /\ stdout' = [stdout EXCEPT ![mine[t]] = Tail(@)]
    /\ Return(t)
    /\ UNCHANGED <<proc, restarted, callers, issued, runner, stdin, stray>>

\* Variant: readline() is repeated until it returns something.
ReadEofAgain(t) ==
    /\ pc[t] = "read"
    /\ stdout[mine[t]] = <<>>
    /\ runner[mine[t]] = "ended"
    /\ UNCHANGED vars

\* The end of the file comes when the process has ended and its lines are read.
ReadEof(t) ==
    /\ pc[t] = "read"
    /\ stdout[mine[t]] = <<>>
    /\ runner[mine[t]] = "ended"
    /\ Return(t)
    /\ UNCHANGED <<proc, restarted, callers, issued, runnerVars>>

-----------------------------------------------------------------------------
(* close() and health() *)

\* self._proc.stdin.close(): the process gets no further request.
Close(t) ==
    /\ pc[t] = "idle"
    /\ t \in callers
    /\ proc # NoProc
    /\ runner' = [runner EXCEPT ![proc] = IF @ = "running" THEN "closed" ELSE @]
    /\ Goto(t, "wait")
    /\ UNCHANGED <<proc, restarted, callers, mine, request, issued, stdin, stdout, stray>>

\* self._proc.wait(timeout): the process has ended, or it is killed.  With other callers it
\* need not be the process whose stdin was closed.
CloseWaits(t) ==
    /\ pc[t] = "wait"
    /\ \/ proc # NoProc /\ runner[proc] = "ended" /\ UNCHANGED runner
       \/ runner' = Killed
    /\ Goto(t, "forget")
    /\ UNCHANGED <<proc, restarted, callers, mine, request, issued, stdin, stdout, stray>>

\* finally: self._proc = None
CloseForgets(t) ==
    /\ pc[t] = "forget"
    /\ proc' = NoProc
    /\ Goto(t, "idle")
    /\ UNCHANGED <<restarted, callers, mine, request, issued, runnerVars>>

\* health(): starts the runner if it is not running.
Health(t) ==
    /\ pc[t] = "idle"
    /\ t \in callers
    /\ ~IsAlive
    /\ StartRunner
    /\ UNCHANGED <<restarted, callers, pc, mine, request, issued, stdin, stdout, stray>>

------------------------------------------------------------------------------
(* External: the runner *)

Runs(p) == runner[p] \in {"running", "closed", "killed"}

Serve(p) ==
    /\ Runs(p)
    /\ stdin[p] # <<>>
    /\ stdout' = [stdout EXCEPT ![p] = Append(@, Head(stdin[p]))]
    /\ stdin' = [stdin EXCEPT ![p] = Tail(@)]
    /\ UNCHANGED <<clientVars, runner, stray>>

PrintStray(p) ==
    /\ Runs(p)
    /\ stray < MaxStray
    /\ stray' = stray + 1
    /\ stdout' = [stdout EXCEPT ![p] = Append(@, NoRequest)]
    /\ UNCHANGED <<clientVars, runner, stdin>>

Die(p) ==
    /\ Runs(p)
    /\ runner' = [runner EXCEPT ![p] = "ended"]
    /\ stdin' = [stdin EXCEPT ![p] = <<>>]
    /\ UNCHANGED <<clientVars, stdout, stray>>

------------------------------------------------------------------------------
CallStep(t) ==
    \/ EnsureStarted(t) \/ FirstSpawn(t) \/ SpawnFails(t)
    \/ Write(t) \/ Rewrite(t)
    \/ CheckRestart(t) \/ ClaimRestart(t) \/ KillRunner(t) \/ Respawn(t)
    \/ ReadLine(t) \/ ReadEof(t)
    \/ CloseWaits(t) \/ CloseForgets(t)

Next ==
    \/ \E t \in Threads : RefuseRequest(t) \/ StartCall(t) \/ Close(t) \/ Health(t) \/ CallStep(t)
    \/ \E p \in Procs : Serve(p) \/ PrintStray(p) \/ Die(p)

\* The threads run; the runner is assumed to serve what it has read, or to end, and a
\* signal to end it: the client itself bounds neither.
Fairness ==
    /\ \A t \in Threads : WF_vars(CallStep(t))
    /\ \A p \in Procs : WF_vars(Serve(p)) /\ WF_vars(runner[p] = "killed" /\ Die(p))

Spec == Init /\ [][Next]_vars /\ Fairness

------------------------------------------------------------------------------
(* Properties *)

\* One caller and a runner that prints a line for each request stay in step: what is in
\* the pipe when a call begins was not left by an earlier one, and the line a call reads
\* answers its own request, whichever earlier call failed, restarted the runner or closed
\* it on the way.  A single line too many would put every later call out of step.
CallerInStep ==
    Cardinality(callers) = 1 /\ stray = 0 =>
        \A t \in callers :
            /\ pc[t] = "idle" /\ proc # NoProc => stdin[proc] = <<>> /\ stdout[proc] = <<>>
            /\ pc[t] = "read" =>
                \A i \in DOMAIN stdout[mine[t]] : stdout[mine[t]][i] = request[t]

\* One caller has one runner: a process is replaced or forgotten only when it ended or was
\* killed, by the call, the restart, health() or close(), and whichever of them failed.
OneRunner ==
    Cardinality(callers) = 1 =>
        Cardinality({p \in Procs : runner[p] \in {"running", "closed"}}) <= 1

\* Every call ends, given a runner that answers or ends: also for a thread whose runner
\* is killed by the restart of another one, or closed by its close().
EveryCallEnds == \A t \in Threads : pc[t] # "idle" ~> pc[t] = "idle"
==============================================================================
