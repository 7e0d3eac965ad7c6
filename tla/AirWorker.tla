------------------------------- MODULE AirWorker -------------------------------
(***************************************************************************)
(* The child process of the Air bridge: serve() and dispatch() of          *)
(* adapters/air_worker.py, one instance for each process the bridge has    *)
(* spawned.  It reads a request per line and prints an answer per line; a  *)
(* request or an answer is reduced to the id that correlates them.         *)
(***************************************************************************)
EXTENDS Naturals, Sequences

CONSTANTS
    Calls,      \* the requests' ids
    NoCall,     \* no request is being served
    Torn,       \* the piece of a line a process leaves behind when it is killed
    MaxProcs    \* bounds the processes spawned

ASSUME WorkerAssumption ==
    /\ NoCall \notin Calls
    /\ Torn \notin Calls
    /\ MaxProcs \in Nat \ {0}

Procs == 1..MaxProcs    \* in the order of their start

VARIABLES
    process,    \* the operating system's process; "failed": ended by an exception of its own
    requests,   \* the lines in its stdin
    serving,    \* the request being dispatched
    printed     \* the lines in its stdout that nobody has read

workerVars == <<process, requests, serving, printed>>

WorkerTypeOK ==
    /\ process \in [Procs -> {"unborn", "running", "ended", "failed"}]
    /\ requests \in [Procs -> Seq(Calls)]
    /\ serving \in [Procs -> Calls \union {NoCall}]
    /\ printed \in [Procs -> Seq(Calls \union {Torn})]

WorkerInit ==
    /\ process = [p \in Procs |-> "unborn"]
    /\ requests = [p \in Procs |-> <<>>]
    /\ serving = [p \in Procs |-> NoCall]
    /\ printed = [p \in Procs |-> <<>>]

Ended(p) == process[p] \in {"ended", "failed"}

\* for line in stdin
ReadRequest(p) ==
    /\ process[p] = "running"
    /\ serving[p] = NoCall
    /\ requests[p] # <<>>
    /\ serving' = [serving EXCEPT ![p] = Head(requests[p])]
    /\ requests' = [requests EXCEPT ![p] = Tail(@)]
    /\ UNCHANGED <<process, printed>>

\* Variant: the answer is printed without the request's id.
PrintWithoutId(p) ==
    /\ process[p] = "running"
    /\ serving[p] # NoCall
    /\ printed' = [printed EXCEPT ![p] = Append(@, NoCall)]
    /\ serving' = [serving EXCEPT ![p] = NoCall]
    /\ UNCHANGED <<process, requests>>

\* Whatever dispatch() meets, a tool's result, an unknown tool or an exception, it
\* becomes an answer to this request.
PrintAnswer(p) ==
    /\ process[p] = "running"
    /\ serving[p] # NoCall
    /\ printed' = [printed EXCEPT ![p] = Append(@, serving[p])]
    /\ serving' = [serving EXCEPT ![p] = NoCall]
    /\ UNCHANGED <<process, requests>>

\* What the process had not answered is lost with it.
Lose(p, how) ==
    /\ process' = [process EXCEPT ![p] = how]
    /\ requests' = [requests EXCEPT ![p] = <<>>]
    /\ serving' = [serving EXCEPT ![p] = NoCall]

\* json.dumps() is outside of both try statements: an answer with a value it does not
\* know, as the dates and decimals of a table, ends the process.
AnswerUnprintable(p) ==
    /\ process[p] = "running"
    /\ serving[p] # NoCall
    /\ Lose(p, "failed")
    /\ UNCHANGED printed

\* The process is killed or crashes, possibly in the middle of a line.
ProcessEnds(p) ==
    /\ process[p] = "running"
    /\ Lose(p, "ended")
    /\ \/ serving[p] # NoCall /\ printed' = [printed EXCEPT ![p] = Append(@, Torn)]
       \/ UNCHANGED printed

WorkerStep(p) ==
    ReadRequest(p) \/ PrintAnswer(p) \/ AnswerUnprintable(p) \/ ProcessEnds(p)
==============================================================================
