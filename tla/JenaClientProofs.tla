--------------------------- MODULE JenaClientProofs ---------------------------
(***************************************************************************)
(* Theorems of JenaClient, for every set of threads and every number of    *)
(* processes, calls and lines the runner prints without being asked.       *)
(***************************************************************************)
EXTENDS JenaClient, FiniteSetTheorems, TLAPS

USE JenaAssumption

\* What the pipes of a process may hold while one caller reads from it: nothing, its
\* request, or the line that answers it.  A process that has ended answers no more.
Empty(p) == stdin[p] = <<>> /\ stdout[p] = <<>>
Asked(p, id) == runner[p] # "ended" /\ stdout[p] = <<>> /\ stdin[p] = <<id>>
Answered(p, id) == stdin[p] = <<>> /\ stdout[p] = <<id>>

InStep(t) ==
    /\ \A p \in Procs : pc[t] # "read" \/ p # mine[t] => Empty(p)
    /\ pc[t] = "read" =>
        Empty(mine[t]) \/ Asked(mine[t], request[t]) \/ Answered(mine[t], request[t])

\* One caller is in step at every moment of its calls, as long as the runner prints
\* nothing it was not asked for.
PipesInv == \A t \in Threads : callers = {t} /\ stray = 0 => InStep(t)

\* What one caller knows of the processes: only the current one may be running, and it is
\* not when the caller is about to spawn another or to forget it.
Live(p) == runner[p] \in {"running", "closed"}

RunnerInv ==
    \A t \in Threads : callers = {t} =>
        \A p \in Procs : Live(p) => p = proc /\ pc[t] \notin {"spawn", "respawn", "forget"}

\* Nobody else is in a call.
OthersIdle == \A t \in Threads \ callers : pc[t] = "idle"

------------------------------------------------------------------------------
(* Type correctness *)

LEMMA ReturnTypes ==
    ASSUME TypeOK, NEW t \in Threads, Return(t),
           UNCHANGED <<proc, restarted, callers, issued, runner, stray>>,
           stdin' \in [Procs -> Seq(Ids)], stdout' \in [Procs -> Seq(Lines)]
    PROVE  TypeOK'
  BY DEF TypeOK, Return, Goto, CallSteps, Unborn

\* A thread goes on to another step of its call, with a local process that was started
\* unless it is about to spawn one.
LEMMA MoveTypes ==
    ASSUME TypeOK, NEW t \in Threads, pc[t] \in CallSteps,
           NEW step \in CallSteps, Goto(t, step),
           NEW p \in Procs \union {NoProc}, mine' = [mine EXCEPT ![t] = p],
           step \in {"write", "rewrite", "read"} => p \in Procs /\ runner'[p] # "unborn",
           UNCHANGED <<request, issued, callers>>,
           proc' \in Procs \union {NoProc}, restarted' \in BOOLEAN,
           runner' \in [Procs -> States],
           \A q \in Procs : runner'[q] = "unborn" => runner[q] = "unborn",
           stdin' \in [Procs -> Seq(Ids)], stdout' \in [Procs -> Seq(Lines)],
           stray' \in 0..MaxStray
    PROVE  TypeOK'
  <1>1. pc' \in [Threads -> CallSteps \union CloseSteps \union {"idle"}]
    BY DEF TypeOK, Goto
  <1>2. mine' \in [Threads -> Procs \union {NoProc}]
    BY DEF TypeOK
  <1>3. ASSUME NEW u \in Threads, pc'[u] \in {"write", "rewrite", "read"}
        PROVE  mine'[u] \in Procs /\ runner'[mine'[u]] # "unborn"
    <2>1. CASE u = t
      BY <1>3, <2>1 DEF TypeOK, Goto
    <2>2. CASE u # t
      <3>1. pc'[u] = pc[u] /\ mine'[u] = mine[u]
        BY <2>2 DEF TypeOK, Goto
      <3> QED
        BY <1>3, <3>1 DEF TypeOK, Unborn
    <2> QED
      BY <2>1, <2>2
  <1>4. \A u \in Threads : pc'[u] \in CallSteps => request'[u] \in Ids
    BY DEF TypeOK, Goto
  <1> QED
    BY <1>1, <1>2, <1>3, <1>4 DEF TypeOK, Unborn

\* The steps of a restart up to the new process leave the call's locals alone.
LEMMA NextTypes ==
    ASSUME TypeOK, NEW t \in Threads, pc[t] \in {"restart", "claim", "kill"},
           NEW step \in {"claim", "kill", "respawn"}, Goto(t, step),
           UNCHANGED <<proc, callers, mine, request, issued, stdin, stdout, stray>>,
           restarted' \in BOOLEAN, runner' \in [Procs -> States],
           \A q \in Procs : runner'[q] = "unborn" => runner[q] = "unborn"
    PROVE  TypeOK'
  BY DEF TypeOK, Goto, CallSteps, Unborn

\* Starting a process gives the client one that was not there before.
LEMMA StartedRunner ==
    ASSUME TypeOK, StartRunner
    PROVE  /\ proc' \in Procs /\ runner[proc'] = "unborn"
           /\ runner' = [runner EXCEPT ![proc'] = "running"]
           /\ runner' \in [Procs -> States]
  BY DEF StartRunner, Unborn, TypeOK, States

LEMMA KilledTypes ==
    ASSUME TypeOK
    PROVE  /\ Killed \in [Procs -> States]
           /\ \A p \in Procs : Killed[p] = "unborn" <=> runner[p] = "unborn"
  BY DEF TypeOK, Killed, States

LEMMA WrittenTypes ==
    ASSUME TypeOK, NEW t \in Threads, pc[t] \in {"write", "rewrite"}
    PROVE  /\ mine[t] \in Procs
           /\ [stdin EXCEPT ![mine[t]] = Append(@, request[t])] \in [Procs -> Seq(Ids)]
  <1>1. mine[t] \in Procs /\ request[t] \in Ids
    BY DEF TypeOK, CallSteps
  <1>2. Append(stdin[mine[t]], request[t]) \in Seq(Ids)
    BY <1>1 DEF TypeOK
  <1> QED
    BY <1>1, <1>2 DEF TypeOK

\* A request that is written leaves the thread to read from the same process.
LEMMA ReachedTypes ==
    ASSUME TypeOK, NEW t \in Threads, pc[t] \in {"write", "rewrite"}, Goto(t, "read"),
           stdin' = [stdin EXCEPT ![mine[t]] = Append(@, request[t])],
           UNCHANGED <<mine, request>>,
           UNCHANGED <<proc, restarted, callers, issued, runner, stdout, stray>>
    PROVE  TypeOK'
  <1>1. pc[t] \in CallSteps /\ "read" \in CallSteps
    BY DEF CallSteps
  <1>2. mine[t] \in Procs /\ runner'[mine[t]] # "unborn" /\ mine' = [mine EXCEPT ![t] = mine[t]]
    BY DEF TypeOK, Unborn
  <1>3. stdin' \in [Procs -> Seq(Ids)]
    BY WrittenTypes
  <1>4. /\ proc' \in Procs \union {NoProc} /\ restarted' \in BOOLEAN
        /\ runner' \in [Procs -> States]
        /\ stdout' \in [Procs -> Seq(Lines)] /\ stray' \in 0..MaxStray
    BY DEF TypeOK
  <1> QED
    BY <1>1, <1>2, <1>3, <1>4, MoveTypes

LEMMA TypeStep == TypeOK /\ [Next]_vars => TypeOK'
  <1> SUFFICES ASSUME TypeOK, [Next]_vars PROVE TypeOK'
    OBVIOUS
  <1> USE DEF TypeOK, clientVars, runnerVars
  <1>1. ASSUME NEW t \in Threads, StartCall(t) PROVE TypeOK'
    BY <1>1 DEF StartCall, Goto, CallSteps, Ids, Unborn
  <1>2. ASSUME NEW t \in Threads, SpawnFails(t) \/ ReadEof(t) PROVE TypeOK'
    BY <1>2, ReturnTypes DEF SpawnFails, ReadEof
  <1>3. ASSUME NEW t \in Threads, EnsureStarted(t) PROVE TypeOK'
    <2>1. pc[t] \in CallSteps /\ {"write", "spawn"} \subseteq CallSteps
      BY <1>3 DEF EnsureStarted, CallSteps
    <2>2. CASE IsAlive
      <3>1. proc \in Procs /\ runner[proc] # "unborn"
        BY <2>2 DEF IsAlive
      <3>2. Goto(t, "write") /\ mine' = [mine EXCEPT ![t] = proc]
        BY <1>3, <2>2 DEF EnsureStarted
      <3> QED
        BY <1>3, <2>1, <3>1, <3>2, MoveTypes DEF EnsureStarted
    <2>3. CASE ~IsAlive
      <3>1. Goto(t, "spawn") /\ mine' = [mine EXCEPT ![t] = mine[t]]
        BY <1>3, <2>3 DEF EnsureStarted
      <3> QED
        BY <1>3, <2>1, <3>1, MoveTypes DEF EnsureStarted
    <2> QED
      BY <2>2, <2>3
  <1>4. ASSUME NEW t \in Threads, FirstSpawn(t) \/ Respawn(t) PROVE TypeOK'
    <2>1. /\ proc' \in Procs /\ runner' = [runner EXCEPT ![proc'] = "running"]
          /\ runner' \in [Procs -> States]
      BY <1>4, StartedRunner DEF FirstSpawn, Respawn, Spawn
    <2>2. /\ pc[t] \in CallSteps /\ mine' = [mine EXCEPT ![t] = proc']
          /\ \E step \in {"write", "rewrite"} : step \in CallSteps /\ Goto(t, step)
      BY <1>4 DEF FirstSpawn, Respawn, Spawn, CallSteps
    <2> QED
      BY <1>4, <2>1, <2>2, MoveTypes DEF FirstSpawn, Respawn
  <1>5. ASSUME NEW t \in Threads, Write(t) PROVE TypeOK'
    <2>1. /\ mine[t] \in Procs /\ runner[mine[t]] # "unborn"
          /\ pc[t] \in CallSteps /\ "restart" \in CallSteps
      BY <1>5 DEF Write, Unborn, CallSteps
    <2>2. CASE stdin' = [stdin EXCEPT ![mine[t]] = Append(@, request[t])] /\ Goto(t, "read")
                    /\ UNCHANGED <<mine, request>>
      BY <1>5, <2>2, ReachedTypes DEF Write
    <2>3. CASE Goto(t, "restart") /\ UNCHANGED <<mine, request, stdin>>
      <3>1. mine' = [mine EXCEPT ![t] = mine[t]]
        BY <2>3
      <3> QED
        BY <1>5, <2>1, <2>3, <3>1, MoveTypes DEF Write
    <2> QED
      BY <1>5, <2>2, <2>3 DEF Write, WriteTo
  <1>6. ASSUME NEW t \in Threads, CheckRestart(t) PROVE TypeOK'
    <2>1. /\ pc[t] = "restart"
          /\ UNCHANGED <<proc, restarted, callers, issued, runner, stdin, stdout, stray>>
          /\ Return(t) \/ (Goto(t, "claim") /\ UNCHANGED <<mine, request>>)
      BY <1>6 DEF CheckRestart
    <2>2. CASE Return(t)
      BY <2>1, <2>2, ReturnTypes
    <2>3. CASE Goto(t, "claim") /\ UNCHANGED <<mine, request>>
      BY <2>1, <2>3, NextTypes
    <2> QED
      BY <2>1, <2>2, <2>3
  <1>16. ASSUME NEW t \in Threads, ClaimRestart(t) PROVE TypeOK'
    <2>1. restarted' = TRUE
      BY <1>16, Zenon DEF ClaimRestart
    <2>2. restarted' \in BOOLEAN
      BY <2>1
    <2> QED
      BY <1>16, <2>2, NextTypes DEF ClaimRestart
  <1>7. ASSUME NEW t \in Threads, KillRunner(t) PROVE TypeOK'
    BY <1>7, NextTypes, KilledTypes DEF KillRunner
  <1>8. ASSUME NEW t \in Threads, Rewrite(t) PROVE TypeOK'
    <2>1. CASE stdin' = [stdin EXCEPT ![mine[t]] = Append(@, request[t])] /\ Goto(t, "read")
                    /\ UNCHANGED <<mine, request>>
      BY <1>8, <2>1, ReachedTypes DEF Rewrite
    <2>2. CASE Return(t) /\ UNCHANGED stdin
      BY <1>8, <2>2, ReturnTypes DEF Rewrite
    <2> QED
      BY <1>8, <2>1, <2>2 DEF Rewrite, WriteTo
  <1>9. ASSUME NEW t \in Threads, ReadLine(t) PROVE TypeOK'
    <2>1. mine[t] \in Procs /\ Tail(stdout[mine[t]]) \in Seq(Lines)
      BY <1>9 DEF ReadLine
    <2>2. stdout' \in [Procs -> Seq(Lines)]
      BY <1>9, <2>1 DEF ReadLine
    <2> QED
      BY <1>9, <2>2, ReturnTypes DEF ReadLine
  <1>10. ASSUME NEW t \in Threads, Close(t) \/ CloseWaits(t) \/ CloseForgets(t) PROVE TypeOK'
    <2>1. /\ runner' \in [Procs -> States] /\ proc' \in Procs \union {NoProc}
          /\ \A p \in Procs : runner'[p] = "unborn" => runner[p] = "unborn"
      BY <1>10, KilledTypes DEF Close, CloseWaits, CloseForgets, States
    <2>2. \E step \in {"wait", "forget", "idle"} : pc' = [pc EXCEPT ![t] = step]
      BY <1>10 DEF Close, CloseWaits, CloseForgets, Goto
    <2>3. UNCHANGED <<restarted, callers, mine, request, issued, stdin, stdout, stray>>
      BY <1>10 DEF Close, CloseWaits, CloseForgets
    <2> QED
      BY <2>1, <2>2, <2>3 DEF Unborn, CallSteps, CloseSteps
  <1>11. ASSUME NEW t \in Threads, Health(t) PROVE TypeOK'
    BY <1>11, StartedRunner DEF Health, Unborn
  <1>12. ASSUME NEW p \in Procs, Serve(p) PROVE TypeOK'
    <2>1. Head(stdin[p]) \in Ids /\ Tail(stdin[p]) \in Seq(Ids)
      BY <1>12 DEF Serve
    <2>2. Append(stdout[p], Head(stdin[p])) \in Seq(Lines)
      BY <2>1 DEF Lines
    <2> QED
      BY <1>12, <2>1, <2>2 DEF Serve, Unborn
  <1>13. ASSUME NEW p \in Procs, PrintStray(p) PROVE TypeOK'
    <2>1. Append(stdout[p], NoRequest) \in Seq(Lines)
      BY DEF Lines
    <2> QED
      BY <1>13, <2>1 DEF PrintStray, Unborn
  <1>14. ASSUME NEW p \in Procs, Die(p) PROVE TypeOK'
    BY <1>14 DEF Die, Runs, Unborn, States
  <1>15. CASE UNCHANGED vars
    BY <1>15 DEF vars, Unborn
  <1> QED
    BY <1>1, <1>2, <1>3, <1>4, <1>5, <1>6, <1>7, <1>8, <1>9, <1>10, <1>11, <1>12, <1>13, <1>14,
       <1>15, <1>16 DEF Next, CallStep, RefuseRequest

\* Spec keeps threads, pipes and processes in their types.
THEOREM TypeCorrect == Spec => []TypeOK
  <1>1. Init => TypeOK
    <2> SUFFICES ASSUME Init PROVE TypeOK
      OBVIOUS
    <2>1. stdin \in [Procs -> Seq(Ids)] /\ stdout \in [Procs -> Seq(Lines)]
      BY DEF Init
    <2>2. \A t \in Threads : pc[t] = "idle" /\ request[t] = NoRequest
      BY DEF Init
    <2>3. issued \in 0..MaxCalls /\ stray \in 0..MaxStray
      BY DEF Init
    <2> QED
      BY <2>1, <2>2, <2>3 DEF Init, TypeOK, CallSteps, States
  <1> QED
    BY <1>1, TypeStep, PTL DEF Spec

------------------------------------------------------------------------------
(* One caller *)

LEMMA OnlyCaller ==
    ASSUME TypeOK, Cardinality(callers) = 1
    PROVE  \E t \in Threads : callers = {t}
  <1>1. IsFiniteSet(callers)
    BY FS_Subset DEF TypeOK
  <1>2. PICK t : callers = {t}
    BY <1>1, FS_Singleton
  <1> QED
    BY <1>2 DEF TypeOK

\* A thread that goes on is in a call or in close(), and leaves the callers and what the
\* runner printed unasked alone.
LEMMA StepsOfCalls ==
    ASSUME NEW t \in Threads, CallStep(t)
    PROVE  pc[t] # "idle" /\ UNCHANGED callers /\ UNCHANGED stray
  BY DEF CallStep, EnsureStarted, FirstSpawn, SpawnFails, Write, Rewrite, CheckRestart,
         ClaimRestart, KillRunner, Respawn, ReadLine, ReadEof, CloseWaits, CloseForgets,
         runnerVars

LEMMA OnlyCallersCall == Spec => []OthersIdle
  <1>1. Init => OthersIdle
    BY DEF Init, OthersIdle
  <1>2. TypeOK /\ OthersIdle /\ [Next]_vars => OthersIdle'
    <2> SUFFICES ASSUME TypeOK, OthersIdle, [Next]_vars PROVE OthersIdle'
      OBVIOUS
    <2> USE DEF TypeOK, OthersIdle, clientVars, runnerVars
    <2>1. ASSUME NEW t \in Threads, t \in callers, UNCHANGED callers,
                 \E step : Goto(t, step)
          PROVE  OthersIdle'
      BY <2>1 DEF Goto
    <2>2. ASSUME NEW t \in Threads, StartCall(t) \/ Close(t) PROVE OthersIdle'
      BY <2>1, <2>2 DEF StartCall, Close
    <2>3. ASSUME NEW t \in Threads, CallStep(t) PROVE OthersIdle'
      <3>1. pc[t] # "idle" /\ UNCHANGED callers
        BY <2>3, StepsOfCalls
      <3>2. \E step : Goto(t, step)
        BY <2>3 DEF CallStep, EnsureStarted, FirstSpawn, SpawnFails, Write, WriteTo, Rewrite,
                    CheckRestart, ClaimRestart, KillRunner, Respawn, ReadLine, ReadEof,
                    CloseWaits, CloseForgets, Return
      <3> QED
        BY <2>1, <3>1, <3>2
    <2>4. ASSUME NEW t \in Threads, Health(t) PROVE OthersIdle'
      BY <2>4 DEF Health
    <2>5. ASSUME NEW p \in Procs, Serve(p) \/ PrintStray(p) \/ Die(p) PROVE OthersIdle'
      BY <2>5 DEF Serve, PrintStray, Die
    <2>6. CASE UNCHANGED vars
      BY <2>6 DEF vars
    <2> QED
      BY <2>2, <2>3, <2>4, <2>5, <2>6 DEF Next, RefuseRequest
  <1> QED
    BY <1>1, <1>2, TypeCorrect, PTL DEF Spec

\* A line from the runner, or its end, leaves the caller in step.
LEMMA StepOfRunner ==
    ASSUME TypeOK, NEW t \in Threads, InStep(t), NEW p \in Procs, Serve(p) \/ Die(p)
    PROVE  InStep(t)'
  <1> USE DEF TypeOK, InStep, Empty, clientVars
  <1>1. CASE Serve(p)
    <2>1. stdin[p] # <<>> /\ pc[t] = "read" /\ p = mine[t] /\ Asked(p, request[t])
      BY <1>1 DEF Serve, Asked, Answered
    <2>2. stdin[p] = <<request[t]>> /\ stdout[p] = <<>>
      BY <2>1 DEF Asked
    <2>3. stdout'[p] = Append(stdout[p], Head(stdin[p])) /\ stdin'[p] = Tail(stdin[p])
      BY <1>1 DEF Serve
    <2>4. Answered(p, request[t])'
      BY <1>1, <2>2, <2>3 DEF Answered, Serve
    <2>5. \A q \in Procs : q # p => stdin'[q] = stdin[q] /\ stdout'[q] = stdout[q]
      BY <1>1 DEF Serve
    <2> QED
      BY <1>1, <2>1, <2>4, <2>5 DEF Serve
  <1>2. CASE Die(p)
    <2>1. \A q \in Procs : stdin'[q] = (IF q = p THEN <<>> ELSE stdin[q])
      BY <1>2 DEF Die
    <2>2. UNCHANGED <<stdout, pc, mine, request>>
      BY <1>2 DEF Die
    <2>3. \A q \in Procs : q # p => runner'[q] = runner[q]
      BY <1>2 DEF Die
    <2> QED
      BY <2>1, <2>2, <2>3 DEF Asked, Answered
  <1> QED
    BY <1>1, <1>2

\* So does each statement of the caller: it writes one request when every pipe is empty,
\* and reads the one line that this request is owed.
LEMMA StepOfCaller ==
    ASSUME TypeOK, NEW t \in Threads, InStep(t), CallStep(t)
    PROVE  InStep(t)'
  <1> USE DEF TypeOK, InStep, Empty, runnerVars
  <1>1. CASE \/ EnsureStarted(t) \/ FirstSpawn(t) \/ SpawnFails(t) \/ Respawn(t)
             \/ CheckRestart(t) \/ ClaimRestart(t) \/ KillRunner(t)
             \/ CloseWaits(t) \/ CloseForgets(t)
    <2>1. pc[t] # "read" /\ pc'[t] # "read" /\ UNCHANGED <<stdin, stdout>>
      BY <1>1 DEF EnsureStarted, FirstSpawn, SpawnFails, Respawn, CheckRestart, ClaimRestart,
                  KillRunner, CloseWaits, CloseForgets, Goto, Return
    <2> QED
      BY <2>1
  <1>2. CASE Write(t) \/ Rewrite(t)
    <2>1. /\ pc[t] # "read" /\ mine[t] \in Procs
          /\ UNCHANGED <<runner, stdout>>
      BY <1>2 DEF Write, Rewrite
    <2>2. CASE /\ Reaches(mine[t]) /\ Goto(t, "read") /\ UNCHANGED <<mine, request>>
               /\ stdin' = [stdin EXCEPT ![mine[t]] = Append(@, request[t])]
      <3>1. stdin'[mine[t]] = <<request[t]>> /\ stdout'[mine[t]] = <<>>
        <4>1. stdin[mine[t]] = <<>> /\ stdout[mine[t]] = <<>>
          BY <2>1
        <4>2. stdin'[mine[t]] = Append(<<>>, request[t])
          BY <2>1, <2>2, <4>1
        <4> QED
          BY <2>1, <4>1, <4>2
      <3>2. Asked(mine[t], request[t])'
        BY <2>1, <2>2, <3>1 DEF Asked, Reaches
      <3> QED
        BY <2>1, <2>2, <3>2 DEF Goto
    <2>3. CASE pc'[t] # "read" /\ UNCHANGED stdin
      BY <2>1, <2>3
    <2> QED
      BY <1>2, <2>2, <2>3 DEF Write, Rewrite, WriteTo, Goto, Return
  <1>3. CASE ReadLine(t)
    <2>1. pc[t] = "read" /\ mine[t] \in Procs /\ stdout[mine[t]] # <<>>
      BY <1>3 DEF ReadLine
    <2>2. Answered(mine[t], request[t])
      BY <2>1 DEF Asked
    <2>3. pc'[t] # "read" /\ UNCHANGED stdin
      BY <1>3 DEF ReadLine, Return, Goto
    <2>4. stdout' = [stdout EXCEPT ![mine[t]] = Tail(@)]
      BY <1>3 DEF ReadLine
    <2>5. stdin[mine[t]] = <<>> /\ stdout'[mine[t]] = <<>>
      BY <2>1, <2>2, <2>4 DEF Answered
    <2> QED
      BY <2>1, <2>3, <2>4, <2>5
  <1>4. CASE ReadEof(t)
    <2>1. /\ pc[t] = "read" /\ stdout[mine[t]] = <<>> /\ runner[mine[t]] = "ended"
          /\ UNCHANGED <<stdin, stdout>>
      BY <1>4 DEF ReadEof
    <2>2. Empty(mine[t])
      BY <2>1 DEF Asked, Answered
    <2>3. pc'[t] # "read"
      BY <1>4 DEF ReadEof, Return, Goto
    <2> QED
      BY <2>1, <2>2, <2>3
  <1> QED
    BY <1>1, <1>2, <1>3, <1>4 DEF CallStep

LEMMA InStepAlways == Spec => []PipesInv
  <1>1. Init => PipesInv
    BY DEF Init, PipesInv, InStep, Empty
  <1>2. TypeOK /\ OthersIdle /\ PipesInv /\ [Next]_vars => PipesInv'
    <2> SUFFICES ASSUME TypeOK, OthersIdle, PipesInv, [Next]_vars,
                        NEW t \in Threads, callers' = {t}, stray' = 0
                 PROVE  InStep(t)'
      BY DEF PipesInv
    <2>1. CASE callers = {t} /\ stray = 0
      <3>1. InStep(t)
        BY <2>1 DEF PipesInv
      <3>2. \A u \in Threads : u # t => pc[u] = "idle"
        BY <2>1 DEF OthersIdle
      <3>3. ASSUME NEW u \in Threads, CallStep(u) PROVE InStep(t)'
        <4>1. u = t
          BY <3>2, <3>3, StepsOfCalls
        <4> QED
          BY <3>1, <3>3, <4>1, StepOfCaller
      <3>4. ASSUME NEW u \in Threads, StartCall(u) \/ Close(u) \/ Health(u)
            PROVE  InStep(t)'
        <4>1. u = t
          BY <2>1, <3>4 DEF StartCall, Close, Health
        <4>2. pc[t] # "read" /\ pc'[t] # "read" /\ UNCHANGED <<stdin, stdout>>
          BY <3>4, <4>1 DEF StartCall, Close, Health, Goto, runnerVars, TypeOK
        <4> QED
          BY <3>1, <4>2 DEF InStep, Empty
      <3>5. ASSUME NEW p \in Procs, Serve(p) \/ Die(p) PROVE InStep(t)'
        BY <3>1, <3>5, StepOfRunner
      <3>6. ASSUME NEW p \in Procs, PrintStray(p) PROVE FALSE
        BY <2>1, <3>6 DEF PrintStray
      <3>7. CASE UNCHANGED vars
        BY <3>1, <3>7 DEF vars, clientVars, runnerVars, InStep, Empty, Asked, Answered
      <3> QED
        BY <3>3, <3>4, <3>5, <3>6, <3>7 DEF Next, RefuseRequest
    <2>2. UNCHANGED callers /\ (stray' = stray \/ stray' = stray + 1)
      BY StepsOfCalls DEF Next, RefuseRequest, StartCall, Health, Close, Serve, PrintStray, Die,
             vars, clientVars, runnerVars
    <2> QED
      BY <2>1, <2>2 DEF TypeOK
  <1> QED
    BY <1>1, <1>2, TypeCorrect, OnlyCallersCall, PTL DEF Spec

\* One caller and a runner that prints a line for each request stay in step, through
\* failed calls, restarts, health() and close(): each call reads the answer to its request.
THEOREM OneCallerInStep == Spec => []CallerInStep
  <1>1. TypeOK /\ PipesInv => CallerInStep
    <2> SUFFICES ASSUME TypeOK, PipesInv, Cardinality(callers) = 1, stray = 0,
                        NEW t \in callers
                 PROVE  /\ pc[t] = "idle" /\ proc # NoProc =>
                            stdin[proc] = <<>> /\ stdout[proc] = <<>>
                        /\ pc[t] = "read" =>
                            \A i \in DOMAIN stdout[mine[t]] : stdout[mine[t]][i] = request[t]
      BY DEF CallerInStep
    <2>1. t \in Threads /\ InStep(t)
      BY OnlyCaller DEF PipesInv
    <2>2. ASSUME pc[t] = "idle", proc # NoProc
          PROVE  stdin[proc] = <<>> /\ stdout[proc] = <<>>
      BY <2>1, <2>2 DEF InStep, Empty, TypeOK
    <2>3. ASSUME pc[t] = "read", NEW i \in DOMAIN stdout[mine[t]]
          PROVE  stdout[mine[t]][i] = request[t]
      BY <2>1, <2>3 DEF InStep, Empty, Asked, Answered
    <2> QED
      BY <2>2, <2>3
  <1> QED
    BY <1>1, TypeCorrect, InStepAlways, PTL

\* After a process was started where none was live, it alone is.
LEMMA OnlyTheNewRuns ==
    ASSUME TypeOK, StartRunner, NEW t \in Threads, \A p \in Procs : ~Live(p)
    PROVE  \A p \in Procs : Live(p)' => p = proc'
  BY StartedRunner DEF Live

\* Killing the current process leaves none that is live.
LEMMA KilledIsNotLive ==
    ASSUME TypeOK, \A p \in Procs : Live(p) => p = proc, runner' = Killed
    PROVE  \A p \in Procs : ~Live(p)'
  BY DEF Live, Killed, TypeOK

\* One caller has one running process: a second is only started when the current one has
\* ended or was killed, and none is forgotten before that.
THEOREM OneCallerOneRunner == Spec => []OneRunner
  <1>1. Init => RunnerInv
    BY DEF Init, RunnerInv, Live
  <1>2. TypeOK /\ OthersIdle /\ RunnerInv /\ [Next]_vars => RunnerInv'
    <2> SUFFICES ASSUME TypeOK, OthersIdle, RunnerInv, [Next]_vars,
                        NEW t \in Threads, callers' = {t}
                 PROVE  \A p \in Procs :
                            Live(p)' => p = proc' /\ pc'[t] \notin {"spawn", "respawn", "forget"}
      BY DEF RunnerInv
    <2>1. callers = {t}
      BY StepsOfCalls DEF Next, RefuseRequest, StartCall, Health, Close, Serve, PrintStray, Die,
             vars, clientVars, runnerVars
    <2>2. \A p \in Procs : Live(p) => p = proc /\ pc[t] \notin {"spawn", "respawn", "forget"}
      BY <2>1 DEF RunnerInv
    <2>3. \A u \in Threads : u # t => pc[u] = "idle"
      BY <2>1 DEF OthersIdle
    <2> USE DEF TypeOK, clientVars, runnerVars
    <2>4. ASSUME NEW u \in Threads, CallStep(u)
          PROVE  \A p \in Procs :
                    Live(p)' => p = proc' /\ pc'[t] \notin {"spawn", "respawn", "forget"}
      <3>1. u = t
        BY <2>3, <2>4, StepsOfCalls
      <3>2. CASE EnsureStarted(t)
        <4>1. CASE IsAlive
          BY <2>2, <3>2, <4>1 DEF EnsureStarted, Goto, Live
        <4>2. CASE ~IsAlive
          BY <2>2, <3>2, <4>2 DEF EnsureStarted, Goto, Live, IsAlive, Procs
        <4> QED
          BY <4>1, <4>2
      <3>3. CASE FirstSpawn(t) \/ Respawn(t)
        <4>1. StartRunner /\ \A p \in Procs : ~Live(p)
          BY <2>2, <3>3 DEF FirstSpawn, Respawn, Spawn
        <4>2. pc'[t] \notin {"spawn", "respawn", "forget"}
          BY <3>3 DEF FirstSpawn, Respawn, Goto
        <4> QED
          BY <4>1, <4>2, OnlyTheNewRuns
      <3>4. CASE KillRunner(t)
        BY <2>2, <3>4, KilledIsNotLive DEF KillRunner
      <3>5. CASE CloseWaits(t)
        <4>1. CASE runner' = Killed
          BY <2>2, <4>1, KilledIsNotLive
        <4>2. CASE proc # NoProc /\ runner[proc] = "ended" /\ UNCHANGED runner
          BY <2>2, <4>2 DEF Live
        <4> QED
          BY <3>5, <4>1, <4>2 DEF CloseWaits
      <3>6. CASE CloseForgets(t)
        BY <2>2, <3>6 DEF CloseForgets, Live
      <3>7. CASE \/ SpawnFails(t) \/ Write(t) \/ Rewrite(t) \/ CheckRestart(t)
                 \/ ClaimRestart(t) \/ ReadLine(t) \/ ReadEof(t)
        <4>1. UNCHANGED <<proc, runner>> /\ pc'[t] \notin {"spawn", "respawn", "forget"}
          BY <3>7 DEF SpawnFails, Write, WriteTo, Rewrite, CheckRestart, ClaimRestart, ReadLine,
                      ReadEof, Return, Goto
        <4> QED
          BY <2>2, <4>1 DEF Live
      <3> QED
        BY <2>4, <3>1, <3>2, <3>3, <3>4, <3>5, <3>6, <3>7 DEF CallStep
    <2>5. ASSUME NEW u \in Threads, StartCall(u) \/ Close(u)
          PROVE  \A p \in Procs :
                    Live(p)' => p = proc' /\ pc'[t] \notin {"spawn", "respawn", "forget"}
      <3>1. u = t
        BY <2>1, <2>5 DEF StartCall, Close
      <3>2. UNCHANGED proc /\ pc'[t] \notin {"spawn", "respawn", "forget"}
        BY <2>5, <3>1 DEF StartCall, Close, Goto
      <3>3. \A p \in Procs : Live(p)' => Live(p)
        BY <2>5 DEF StartCall, Close, Live
      <3> QED
        BY <2>2, <3>2, <3>3
    <2>6. ASSUME NEW u \in Threads, Health(u)
          PROVE  \A p \in Procs :
                    Live(p)' => p = proc' /\ pc'[t] \notin {"spawn", "respawn", "forget"}
      <3>1. u = t /\ pc'[t] = "idle" /\ StartRunner /\ ~IsAlive
        BY <2>1, <2>6 DEF Health
      <3>2. \A p \in Procs : ~Live(p)
        BY <2>2, <3>1 DEF Live, IsAlive, Procs
      <3> QED
        BY <3>1, <3>2, OnlyTheNewRuns
    <2>7. ASSUME NEW p \in Procs, Serve(p) \/ PrintStray(p) \/ Die(p)
          PROVE  \A q \in Procs :
                    Live(q)' => q = proc' /\ pc'[t] \notin {"spawn", "respawn", "forget"}
      <3>1. UNCHANGED <<pc, proc>>
        BY <2>7 DEF Serve, PrintStray, Die
      <3>2. \A q \in Procs : Live(q)' => Live(q)
        BY <2>7 DEF Serve, PrintStray, Die, Live
      <3> QED
        BY <2>2, <3>1, <3>2
    <2>8. CASE UNCHANGED vars
      BY <2>2, <2>8 DEF vars, Live
    <2> QED
      BY <2>4, <2>5, <2>6, <2>7, <2>8 DEF Next, RefuseRequest
  <1>3. TypeOK /\ RunnerInv => OneRunner
    <2> SUFFICES ASSUME TypeOK, RunnerInv, Cardinality(callers) = 1
                 PROVE  Cardinality({p \in Procs : runner[p] \in {"running", "closed"}}) <= 1
      BY DEF OneRunner
    <2>1. {p \in Procs : runner[p] \in {"running", "closed"}} \subseteq {proc}
      BY OnlyCaller DEF RunnerInv, Live
    <2>2. IsFiniteSet({proc}) /\ Cardinality({proc}) = 1
      BY FS_Singleton
    <2> QED
      BY <2>1, <2>2, FS_Subset
  <1> QED
    BY <1>1, <1>2, <1>3, TypeCorrect, OnlyCallersCall, PTL DEF Spec
==============================================================================
