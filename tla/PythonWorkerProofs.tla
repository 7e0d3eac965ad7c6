-------------------------- MODULE PythonWorkerProofs --------------------------
(***************************************************************************)
(* Theorems of PythonWorker, for every set of calls and every number of    *)
(* processes.                                                              *)
(***************************************************************************)
EXTENDS PythonWorker, TLAPS

USE WorkerAssumption, BridgeAssumption

Born == Procs \ Unborn

\* The map of pending calls and the promises: whoever waits has an entry, and a promise
\* resolved with an answer has its own.
PendingInv ==
    /\ \A c \in Calls : c \in pending <=> outcome[c] = "waiting"
    /\ \A c \in Calls : outcome[c] = "uncalled" <=> sentTo[c] = NoProc

\* Where the bridge's processes are: the current one was never killed, was there before no
\* restart, and any other was killed or has had its exit handled.
ProcsInv ==
    /\ proc # NoProc => proc \in Born \ (killed \union retired)
    /\ killed \subseteq Born /\ retired \subseteq Born /\ reaped \subseteq Born
    /\ muted = killed
    /\ \A p \in Born : p = proc \/ p \in killed \union reaped
    /\ \A p \in reaped : Ended(p)

Own(lines, p) == \A i \in DOMAIN lines : lines[i] # Torn => sentTo[lines[i]] = p

\* A process reads and prints only what was sent to it.
LinesInv ==
    \A p \in Procs :
        /\ Own(requests[p], p)
        /\ serving[p] # NoCall => sentTo[serving[p]] = p
        /\ Own(printed[p], p)

\* A call that is still pending was sent to the current process or to one that was killed:
\* the exit of any other has failed it.
SentInv == \A c \in pending : sentTo[c] \in killed \/ sentTo[c] = proc

BridgeInv == PendingInv /\ ProcsInv /\ LinesInv /\ SentInv

------------------------------------------------------------------------------
(* Type correctness *)

LEMMA NoProcIsNone == \A p \in Procs : p # NoProc
  BY DEF Procs

LEMMA StartedTypes ==
    ASSUME TypeOK, NEW p \in Started
    PROVE  /\ p \in Procs
           /\ \/ p = proc /\ p \notin killed
              \/ process[p] = "unborn" /\ (proc = NoProc \/ proc \in killed)
  BY DEF Started, Current, FirstOf, Unborn, TypeOK

LEMMA RejectedTypes ==
    ASSUME TypeOK, NEW S
    PROVE  Rejected(S) \in [Calls -> Contract!Outcomes]
  BY DEF TypeOK, Rejected, Contract!Outcomes

LEMMA TypeStep == TypeOK /\ [Next]_vars => TypeOK'
  <1> SUFFICES ASSUME TypeOK, [Next]_vars PROVE TypeOK'
    OBVIOUS
  <1> USE DEF TypeOK, WorkerTypeOK, bridgeVars, historyVars, workerVars
  <1>1. ASSUME NEW c \in Calls, Call(c) PROVE TypeOK'
    <2>1. PICK p \in Started :
            /\ proc' = p
            /\ process' = [process EXCEPT ![p] = IF @ = "unborn" THEN "running" ELSE @]
            /\ sentTo' = [sentTo EXCEPT ![c] = p]
            /\ \/ Ended(p) /\ unsent' = unsent \union {c} /\ UNCHANGED requests
               \/ /\ ~Ended(p) /\ requests' = [requests EXCEPT ![p] = Append(@, c)]
                  /\ UNCHANGED unsent
      BY <1>1 DEF Call
    <2>2. p \in Procs
      BY StartedTypes
    <2>3. requests' \in [Procs -> Seq(Calls)]
      <3>1. Append(requests[p], c) \in Seq(Calls)
        BY <2>2
      <3> QED
        BY <2>1, <2>2, <3>1
    <2>4. outcome' \in [Calls -> Contract!Outcomes]
      BY <1>1 DEF Call, Contract!Outcomes
    <2> QED
      BY <1>1, <2>1, <2>2, <2>3, <2>4 DEF Call
  <1>2. ASSUME NEW c \in Calls, TimeOut(c) \/ WriteFails(c) PROVE TypeOK'
    BY <1>2, RejectedTypes DEF TimeOut, WriteFails
  <1>3. ASSUME NEW p \in Procs, OnLine(p) PROVE TypeOK'
    <2>1. Tail(printed[p]) \in Seq(Calls \union {Torn})
      BY <1>3 DEF OnLine
    <2>2. outcome' \in [Calls -> Contract!Outcomes]
      BY <1>3 DEF OnLine, Contract!Outcomes
    <2>3. answer' \in [Calls -> Calls \union {NoCall}]
      BY <1>3 DEF OnLine, Addressee
    <2> QED
      BY <1>3, <2>1, <2>2, <2>3 DEF OnLine, RestoresBudget, Addressee
  <1>4. ASSUME NEW p \in Procs, OnExit(p) PROVE TypeOK'
    <2>1. outcome' \in [Calls -> Contract!Outcomes]
      BY <1>4, RejectedTypes DEF OnExit
    <2> QED
      BY <1>4, <2>1 DEF OnExit
  <1>5. CASE RestartOnce
    BY <1>5 DEF RestartOnce, Current, Unborn
  <1>8. CASE Close
    <2>1. outcome' \in [Calls -> Contract!Outcomes]
      BY <1>8, RejectedTypes DEF Close
    <2> QED
      BY <1>8, <2>1 DEF Close, Current
  <1>6. ASSUME NEW p \in Procs, Worker(p) PROVE TypeOK'
    <2>1. WorkerTypeOK'
      <3>1. CASE ReadRequest(p)
        <4>1. Head(requests[p]) \in Calls /\ Tail(requests[p]) \in Seq(Calls)
          BY <3>1 DEF ReadRequest
        <4> QED
          BY <3>1, <4>1 DEF ReadRequest
      <3>2. CASE PrintAnswer(p)
        <4>1. Append(printed[p], serving[p]) \in Seq(Calls \union {Torn})
          BY <3>2 DEF PrintAnswer
        <4> QED
          BY <3>2, <4>1 DEF PrintAnswer
      <3>3. CASE AnswerUnprintable(p) \/ ProcessEnds(p)
        <4>1. <<>> \in Seq(Calls)
          OBVIOUS
        <4>2. Append(printed[p], Torn) \in Seq(Calls \union {Torn})
          OBVIOUS
        <4>3. printed' \in [Procs -> Seq(Calls \union {Torn})]
          BY <3>3, <4>2 DEF AnswerUnprintable, ProcessEnds
        <4>4. \/ Lose(p, "failed")
              \/ Lose(p, "ended")
          BY <3>3 DEF AnswerUnprintable, ProcessEnds
        <4>5. requests' \in [Procs -> Seq(Calls)]
          BY <4>1, <4>4 DEF Lose
        <4>6. /\ process' \in [Procs -> {"unborn", "running", "ended", "failed"}]
              /\ serving' \in [Procs -> Calls \union {NoCall}]
          BY <4>4 DEF Lose
        <4> QED
          BY <4>3, <4>5, <4>6
      <3> QED
        BY <1>6, <3>1, <3>2, <3>3 DEF Worker, WorkerStep
    <2> QED
      BY <1>6, <2>1 DEF Worker
  <1>7. CASE UNCHANGED vars
    BY <1>7 DEF vars
  <1> QED
    BY <1>1, <1>2, <1>3, <1>4, <1>5, <1>6, <1>7, <1>8 DEF Next

\* Spec keeps calls, processes and pipes in their types.
THEOREM TypeCorrect == Spec => []TypeOK
  <1>1. Init => TypeOK
    <2> SUFFICES ASSUME Init PROVE TypeOK
      OBVIOUS
    <2>1. <<>> \in Seq(Calls) /\ <<>> \in Seq(Calls \union {Torn})
      OBVIOUS
    <2>2. WorkerTypeOK
      BY <2>1 DEF Init, WorkerInit, WorkerTypeOK
    <2>3. outcome \in [Calls -> Contract!Outcomes]
      BY DEF Init, Contract!Outcomes
    <2> QED
      BY <2>2, <2>3 DEF Init, TypeOK
  <1> QED
    BY <1>1, TypeStep, PTL DEF Spec

------------------------------------------------------------------------------
(* What an action does to the bridge's records *)

\* Init is taken apart by the first step of every invariant.
LEMMA InitRecords == Init => PendingInv /\ ProcsInv /\ LinesInv /\ SentInv
  <1> SUFFICES ASSUME Init PROVE PendingInv /\ ProcsInv /\ LinesInv /\ SentInv
    OBVIOUS
  <1>1. PendingInv
    BY DEF Init, PendingInv
  <1>2. ProcsInv
    BY DEF Init, WorkerInit, ProcsInv, Born, Unborn
  <1>3. LinesInv
    BY DEF Init, WorkerInit, LinesInv, Own
  <1>4. SentInv
    BY DEF Init, SentInv
  <1> QED
    BY <1>1, <1>2, <1>3, <1>4

\* The process of a call: the one at hand, or the first of those not yet started.
LEMMA CallTakes ==
    ASSUME TypeOK, NEW c \in Calls, Call(c)
    PROVE  \E p \in Procs :
              /\ \/ p = proc /\ p \notin killed
                 \/ p \in Unborn /\ (proc = NoProc \/ proc \in killed)
              /\ proc' = p
              /\ process' = [process EXCEPT ![p] = IF @ = "unborn" THEN "running" ELSE @]
              /\ sentTo' = [sentTo EXCEPT ![c] = p]
              /\ requests' = requests \/ requests' = [requests EXCEPT ![p] = Append(@, c)]
  <1>1. PICK p \in Started :
          /\ proc' = p
          /\ process' = [process EXCEPT ![p] = IF @ = "unborn" THEN "running" ELSE @]
          /\ sentTo' = [sentTo EXCEPT ![c] = p]
          /\ requests' = requests \/ requests' = [requests EXCEPT ![p] = Append(@, c)]
    BY DEF Call
  <1>2. /\ p \in Procs
        /\ \/ p = proc /\ p \notin killed
           \/ p \in Unborn /\ (proc = NoProc \/ proc \in killed)
    BY StartedTypes DEF Unborn
  <1> QED
    BY <1>1, <1>2

\* A process that runs stays born, and one that has ended does not come back.
LEMMA WorkerRuns ==
    ASSUME TypeOK, NEW p \in Procs, Worker(p)
    PROVE  /\ UNCHANGED <<bridgeVars, historyVars>>
           /\ Unborn' = Unborn
           /\ \A q \in Procs : Ended(q) => Ended(q)'
  <1>1. UNCHANGED <<bridgeVars, historyVars>>
    BY DEF Worker
  <1>2. \/ process' = process
        \/ process[p] = "running" /\ process' = [process EXCEPT ![p] = "failed"]
        \/ process[p] = "running" /\ process' = [process EXCEPT ![p] = "ended"]
    BY DEF Worker, WorkerStep, ReadRequest, PrintAnswer, AnswerUnprintable, ProcessEnds, Lose
  <1> QED
    BY <1>1, <1>2 DEF Unborn, Ended, TypeOK, WorkerTypeOK

------------------------------------------------------------------------------
(* The invariants of the records *)

LEMMA PendingStep == TypeOK /\ PendingInv /\ [Next]_vars => PendingInv'
  <1> SUFFICES ASSUME TypeOK, PendingInv, [Next]_vars PROVE PendingInv'
    OBVIOUS
  <1> USE DEF PendingInv, TypeOK
  <1>1. ASSUME NEW c \in Calls, Call(c) PROVE PendingInv'
    <2>1. PICK p \in Procs : sentTo' = [sentTo EXCEPT ![c] = p]
      BY <1>1, CallTakes
    <2>2. p # NoProc
      BY NoProcIsNone
    <2>3. /\ pending' = pending \union {c}
          /\ outcome' = [outcome EXCEPT ![c] = "waiting"]
      BY <1>1 DEF Call
    <2> QED
      BY <2>1, <2>2, <2>3
  <1>2. ASSUME NEW c \in Calls, TimeOut(c) \/ WriteFails(c) PROVE PendingInv'
    BY <1>2 DEF TimeOut, WriteFails, Rejected, historyVars
  <1>3. ASSUME NEW p \in Procs, OnLine(p) PROVE PendingInv'
    <2> DEFINE known == Addressee(Head(printed[p]))
    <2>1. /\ known \subseteq pending
          /\ pending' = pending \ known
          /\ outcome' = [c \in Calls |-> IF c \in known THEN "answered" ELSE outcome[c]]
          /\ sentTo' = sentTo
      BY <1>3 DEF OnLine, Addressee, historyVars
    <2> QED
      BY <2>1
  <1>4. ASSUME NEW p \in Procs, OnExit(p) PROVE PendingInv'
    BY <1>4 DEF OnExit, Rejected, historyVars
  <1>5. CASE RestartOnce \/ Close
    BY <1>5 DEF RestartOnce, Close, Rejected, historyVars
  <1>6. ASSUME NEW p \in Procs, Worker(p) PROVE PendingInv'
    BY <1>6, WorkerRuns DEF bridgeVars, historyVars
  <1>7. CASE UNCHANGED vars
    BY <1>7 DEF vars, bridgeVars, historyVars
  <1> QED
    BY <1>1, <1>2, <1>3, <1>4, <1>5, <1>6, <1>7 DEF Next

LEMMA ProcsStep == TypeOK /\ ProcsInv /\ [Next]_vars => ProcsInv'
  <1> SUFFICES ASSUME TypeOK, ProcsInv, [Next]_vars PROVE ProcsInv'
    OBVIOUS
  <1> USE DEF ProcsInv, Born
  <1>1. ASSUME NEW c \in Calls, Call(c) PROVE ProcsInv'
    <2>1. PICK p \in Procs :
            /\ \/ p = proc /\ p \notin killed
               \/ p \in Unborn /\ (proc = NoProc \/ proc \in killed)
            /\ proc' = p
            /\ process' = [process EXCEPT ![p] = IF @ = "unborn" THEN "running" ELSE @]
      BY <1>1, CallTakes
    <2>2. UNCHANGED <<muted, killed, reaped, retired>>
      BY <1>1 DEF Call
    <2>3. /\ Unborn' = Unborn \ {p}
          /\ \A q \in reaped : Ended(q)'
      BY <2>1 DEF Unborn, Ended, TypeOK, WorkerTypeOK
    <2>4. p \in Unborn => proc = NoProc
      BY <2>1
    <2>5. p \notin killed \union retired
      BY <2>1, NoProcIsNone
    <2>6. \A q \in Born : q = p \/ q \in killed \union reaped
      BY <2>1, <2>4, NoProcIsNone
    <2>7. Born' = Born \union {p}
      BY <2>3
    <2> HIDE DEF Born
    <2> QED
      BY <2>1, <2>2, <2>3, <2>5, <2>6, <2>7
  <1>2. ASSUME NEW c \in Calls, TimeOut(c) \/ WriteFails(c) PROVE ProcsInv'
    BY <1>2 DEF TimeOut, WriteFails, historyVars, workerVars, Unborn, Ended
  <1>3. ASSUME NEW p \in Procs, OnLine(p) PROVE ProcsInv'
    BY <1>3 DEF OnLine, historyVars, Unborn, Ended
  <1>4. ASSUME NEW p \in Procs, OnExit(p) PROVE ProcsInv'
    <2>1. /\ Ended(p) /\ reaped' = reaped \union {p}
          /\ proc' = IF proc = p THEN NoProc ELSE proc
          /\ UNCHANGED <<muted, killed, retired, process>>
      BY <1>4 DEF OnExit, historyVars, workerVars
    <2>2. Unborn' = Unborn /\ p \notin Unborn /\ \A q \in Procs : Ended(q) => Ended(q)'
      BY <2>1 DEF Unborn, Ended
    <2>3. proc' # NoProc => proc' \in Born' \ (killed' \union retired')
      BY <2>1, <2>2
    <2>4. \A q \in Born' : q = proc' \/ q \in killed' \union reaped'
      BY <2>1, <2>2
    <2> QED
      BY <2>1, <2>2, <2>3, <2>4 DEF TypeOK
  <1>5. CASE RestartOnce \/ Close
    <2>1. /\ proc' = NoProc
          /\ killed' = killed \union Current /\ muted' = muted \union Current
          /\ retired' \in {retired, Procs \ Unborn}
          /\ UNCHANGED <<reaped, process>>
      BY <1>5 DEF RestartOnce, Close, historyVars, workerVars
    <2>2. Unborn' = Unborn /\ \A q \in Procs : Ended(q) => Ended(q)'
      BY <2>1 DEF Unborn, Ended
    <2>3. Current \subseteq Procs \ Unborn
      BY NoProcIsNone DEF Current
    <2>4. proc \in Procs => proc \in Current
      BY DEF Current
    <2> QED
      BY <2>1, <2>2, <2>3, <2>4 DEF TypeOK
  <1>6. ASSUME NEW p \in Procs, Worker(p) PROVE ProcsInv'
    BY <1>6, WorkerRuns DEF bridgeVars, historyVars
  <1>7. CASE UNCHANGED vars
    BY <1>7 DEF vars, bridgeVars, historyVars, workerVars, Unborn, Ended
  <1> QED
    BY <1>1, <1>2, <1>3, <1>4, <1>5, <1>6, <1>7 DEF Next

LEMMA SentStep == TypeOK /\ BridgeInv /\ [Next]_vars => SentInv'
  <1> SUFFICES ASSUME TypeOK, BridgeInv, [Next]_vars PROVE SentInv'
    OBVIOUS
  <1> USE DEF BridgeInv, SentInv
  <1>1. ASSUME NEW c \in Calls, Call(c) PROVE SentInv'
    <2>1. PICK p \in Procs :
            /\ \/ p = proc /\ p \notin killed
               \/ p \in Unborn /\ (proc = NoProc \/ proc \in killed)
            /\ proc' = p
            /\ sentTo' = [sentTo EXCEPT ![c] = p]
      BY <1>1, CallTakes
    <2>2. pending' = pending \union {c} /\ killed' = killed
      BY <1>1 DEF Call
    <2>3. p # proc => proc = NoProc
      BY <2>1 DEF ProcsInv
    <2>4. \A d \in pending : sentTo[d] # NoProc
      BY DEF PendingInv, TypeOK
    <2>5. \A d \in pending : sentTo[d] \in killed \/ sentTo[d] = p
      BY <2>3, <2>4
    <2> QED
      BY <2>1, <2>2, <2>5 DEF TypeOK
  <1>2. ASSUME NEW c \in Calls, TimeOut(c) \/ WriteFails(c) PROVE SentInv'
    BY <1>2 DEF TimeOut, WriteFails, historyVars
  <1>3. ASSUME NEW p \in Procs, OnLine(p) PROVE SentInv'
    BY <1>3 DEF OnLine, historyVars
  <1>4. ASSUME NEW p \in Procs, OnExit(p) PROVE SentInv'
    BY <1>4 DEF OnExit
  <1>5. CASE RestartOnce
    <2>1. proc \in Procs => proc \in killed'
      BY <1>5 DEF RestartOnce, Current
    <2>2. \A d \in pending : sentTo[d] # NoProc
      BY DEF PendingInv, TypeOK
    <2> QED
      BY <1>5, <2>1, <2>2 DEF RestartOnce, TypeOK
  <1>6. CASE Close
    BY <1>6 DEF Close
  <1>7. ASSUME NEW p \in Procs, Worker(p) PROVE SentInv'
    BY <1>7, WorkerRuns DEF bridgeVars, historyVars
  <1>8. CASE UNCHANGED vars
    BY <1>8 DEF vars, bridgeVars, historyVars
  <1> QED
    BY <1>1, <1>2, <1>3, <1>4, <1>5, <1>6, <1>7, <1>8 DEF Next

------------------------------------------------------------------------------
(* The lines in the pipes *)

LEMMA OwnAppend ==
    ASSUME NEW S, NEW lines \in Seq(S), NEW p, Own(lines, p),
           NEW line, line = Torn \/ sentTo[line] = p
    PROVE  Own(Append(lines, line), p)
  <1> SUFFICES ASSUME NEW i \in DOMAIN Append(lines, line), Append(lines, line)[i] # Torn
               PROVE  sentTo[Append(lines, line)[i]] = p
    BY DEF Own
  <1>1. \/ i \in DOMAIN lines /\ Append(lines, line)[i] = lines[i]
        \/ Append(lines, line)[i] = line
    OBVIOUS
  <1> QED
    BY <1>1 DEF Own

LEMMA OwnTail ==
    ASSUME NEW S, NEW lines \in Seq(S), NEW p, Own(lines, p), lines # <<>>
    PROVE  /\ Own(Tail(lines), p)
           /\ Head(lines) # Torn => sentTo[Head(lines)] = p
  <1>1. 1 \in DOMAIN lines /\ Head(lines) = lines[1]
    OBVIOUS
  <1>2. ASSUME NEW i \in DOMAIN Tail(lines)
        PROVE  i + 1 \in DOMAIN lines /\ Tail(lines)[i] = lines[i + 1]
    OBVIOUS
  <1> QED
    BY <1>1, <1>2 DEF Own

\* A call has no process yet when it is sent, so no line is of it.
LEMMA OwnSent ==
    ASSUME TypeOK, PendingInv, NEW c \in Calls, outcome[c] = "uncalled",
           NEW p \in Procs, sentTo' = [sentTo EXCEPT ![c] = p],
           NEW q \in Procs, NEW lines \in Seq(Calls \union {Torn}), Own(lines, q)
    PROVE  Own(lines, q)'
  <1> SUFFICES ASSUME NEW i \in DOMAIN lines, lines[i] # Torn
               PROVE  sentTo'[lines[i]] = q
    BY DEF Own
  <1>1. lines[i] \in Calls
    OBVIOUS
  <1>2. sentTo[lines[i]] = q
    BY DEF Own
  <1>3. lines[i] # c
    BY <1>2, NoProcIsNone DEF PendingInv
  <1> QED
    BY <1>1, <1>2, <1>3 DEF TypeOK

LEMMA LinesStep == TypeOK /\ PendingInv /\ LinesInv /\ [Next]_vars => LinesInv'
  <1> SUFFICES ASSUME TypeOK, PendingInv, LinesInv, [Next]_vars, NEW q \in Procs
               PROVE  /\ Own(requests[q], q)'
                      /\ (serving[q] # NoCall => sentTo[serving[q]] = q)'
                      /\ Own(printed[q], q)'
    BY DEF LinesInv
  <1>t. /\ requests[q] \in Seq(Calls) /\ requests[q] \in Seq(Calls \union {Torn})
        /\ printed[q] \in Seq(Calls \union {Torn})
        /\ serving[q] \in Calls \union {NoCall}
    BY DEF TypeOK, WorkerTypeOK
  <1>o. /\ Own(requests[q], q)
        /\ serving[q] # NoCall => sentTo[serving[q]] = q
        /\ Own(printed[q], q)
    BY DEF LinesInv
  <1>1. ASSUME NEW c \in Calls, Call(c)
        PROVE  /\ Own(requests[q], q)'
               /\ (serving[q] # NoCall => sentTo[serving[q]] = q)'
               /\ Own(printed[q], q)'
    <2>1. PICK p \in Procs :
            /\ sentTo' = [sentTo EXCEPT ![c] = p]
            /\ requests' = requests \/ requests' = [requests EXCEPT ![p] = Append(@, c)]
      BY <1>1, CallTakes
    <2>2. outcome[c] = "uncalled" /\ UNCHANGED <<serving, printed>>
      BY <1>1 DEF Call
    <2>3. ASSUME NEW lines \in Seq(Calls \union {Torn}), Own(lines, q)
          PROVE  \A i \in DOMAIN lines : lines[i] # Torn => sentTo'[lines[i]] = q
      <3>1. Own(lines, q)'
        BY <2>1, <2>2, <2>3, OwnSent
      <3> QED
        BY <3>1 DEF Own
    <2>4. Own(printed[q], q)'
      BY <1>t, <1>o, <2>2, <2>3 DEF Own
    <2>5. (serving[q] # NoCall => sentTo[serving[q]] = q)'
      BY <1>t, <1>o, <2>1, <2>2, NoProcIsNone DEF PendingInv, TypeOK
    <2>6. \/ requests'[q] = requests[q]
          \/ q = p /\ requests'[q] = Append(requests[q], c)
      BY <2>1 DEF TypeOK, WorkerTypeOK
    <2>7. sentTo'[c] = p
      BY <2>1 DEF TypeOK
    <2>8. CASE requests'[q] = requests[q]
      BY <1>t, <1>o, <2>3, <2>4, <2>5, <2>8 DEF Own
    <2>9. CASE q = p /\ requests'[q] = Append(requests[q], c)
      <3>1. \A i \in DOMAIN Append(requests[q], c) :
                \/ i \in DOMAIN requests[q] /\ Append(requests[q], c)[i] = requests[q][i]
                \/ Append(requests[q], c)[i] = c
        BY <1>t
      <3>2. \A i \in DOMAIN requests[q] :
                requests[q][i] # Torn => sentTo'[requests[q][i]] = q
        BY <1>t, <1>o, <2>3
      <3>3. Own(requests[q], q)'
        BY <2>7, <2>9, <3>1, <3>2 DEF Own
      <3> QED
        BY <2>4, <2>5, <3>3
    <2> QED
      BY <2>6, <2>8, <2>9
  <1>2. ASSUME UNCHANGED <<sentTo, requests, serving, printed>>
        PROVE  /\ Own(requests[q], q)'
               /\ (serving[q] # NoCall => sentTo[serving[q]] = q)'
               /\ Own(printed[q], q)'
    BY <1>2, <1>o DEF Own
  <1>3. ASSUME NEW p \in Procs, OnLine(p)
        PROVE  /\ Own(requests[q], q)'
               /\ (serving[q] # NoCall => sentTo[serving[q]] = q)'
               /\ Own(printed[q], q)'
    <2>1. /\ UNCHANGED <<sentTo, requests, serving>>
          /\ printed' = [printed EXCEPT ![p] = Tail(@)] /\ printed[p] # <<>>
      BY <1>3 DEF OnLine, historyVars
    <2>2. \/ printed'[q] = printed[q]
          \/ printed[q] # <<>> /\ printed'[q] = Tail(printed[q])
      BY <2>1 DEF TypeOK, WorkerTypeOK
    <2>3. Own(printed'[q], q)
      BY <1>t, <1>o, <2>2, OwnTail
    <2> QED
      BY <1>o, <2>1, <2>3 DEF Own
  <1>4. ASSUME NEW p \in Procs, Worker(p)
        PROVE  /\ Own(requests[q], q)'
               /\ (serving[q] # NoCall => sentTo[serving[q]] = q)'
               /\ Own(printed[q], q)'
    <2>1. sentTo' = sentTo
      BY <1>4, WorkerRuns DEF historyVars
    <2>2. \/ requests'[q] \in {requests[q], <<>>}
          \/ requests[q] # <<>> /\ requests'[q] = Tail(requests[q])
      BY <1>4 DEF Worker, WorkerStep, ReadRequest, PrintAnswer, AnswerUnprintable,
                  ProcessEnds, Lose, TypeOK, WorkerTypeOK
    <2>3. \/ serving'[q] \in {serving[q], NoCall}
          \/ requests[q] # <<>> /\ serving'[q] = Head(requests[q])
      BY <1>4 DEF Worker, WorkerStep, ReadRequest, PrintAnswer, AnswerUnprintable,
                  ProcessEnds, Lose, TypeOK, WorkerTypeOK
    <2>4. \/ printed'[q] \in {printed[q], Append(printed[q], Torn)}
          \/ serving[q] # NoCall /\ printed'[q] = Append(printed[q], serving[q])
      BY <1>4 DEF Worker, WorkerStep, ReadRequest, PrintAnswer, AnswerUnprintable,
                  ProcessEnds, Lose, TypeOK, WorkerTypeOK
    <2>5. Own(requests'[q], q)
      <3>1. Own(<<>>, q)
        BY DEF Own
      <3> QED
        BY <1>t, <1>o, <2>2, <3>1, OwnTail
    <2>6. serving'[q] # NoCall => sentTo[serving'[q]] = q
      <3>1. requests[q] # <<>> => Head(requests[q]) # Torn
        BY <1>t
      <3> QED
        BY <1>t, <1>o, <2>3, <3>1, OwnTail
    <2>7. Own(printed'[q], q)
      <3>1. Own(Append(printed[q], Torn), q)
        BY <1>t, <1>o, OwnAppend
      <3>2. serving[q] # NoCall => Own(Append(printed[q], serving[q]), q)
        BY <1>t, <1>o, OwnAppend
      <3> QED
        BY <1>o, <2>4, <3>1, <3>2
    <2> QED
      BY <2>1, <2>5, <2>6, <2>7 DEF Own
  <1>5. ASSUME NEW c \in Calls, TimeOut(c) \/ WriteFails(c)
        PROVE  UNCHANGED <<sentTo, requests, serving, printed>>
    BY <1>5 DEF TimeOut, WriteFails, historyVars, workerVars
  <1>6. ASSUME NEW p \in Procs, OnExit(p)
        PROVE  UNCHANGED <<sentTo, requests, serving, printed>>
    BY <1>6 DEF OnExit, historyVars, workerVars
  <1>7. CASE RestartOnce \/ Close \/ UNCHANGED vars
    <2>1. UNCHANGED <<sentTo, requests, serving, printed>>
      BY <1>7 DEF RestartOnce, Close, vars, historyVars, workerVars
    <2> QED
      BY <1>2, <2>1
  <1> QED
    BY <1>1, <1>2, <1>3, <1>4, <1>5, <1>6, <1>7 DEF Next

LEMMA BridgeAlways == Spec => [](TypeOK /\ BridgeInv)
  <1>1. Init => BridgeInv
    BY InitRecords DEF BridgeInv
  <1>2. TypeOK /\ BridgeInv /\ [Next]_vars => BridgeInv'
    BY PendingStep, ProcsStep, LinesStep, SentStep DEF BridgeInv
  <1>3. Spec => []TypeOK
    BY TypeCorrect
  <1> QED
    BY <1>1, <1>2, <1>3, PTL DEF Spec

------------------------------------------------------------------------------
(* What the bridge guarantees *)

\* No process runs unnoticed: whatever the order of calls, exits, restarts and closes, a
\* running process is this.proc or has been sent a signal.
THEOREM NothingLeftBehind == Spec => []NoProcessLeftBehind
  <1>1. TypeOK /\ BridgeInv => NoProcessLeftBehind
    BY DEF BridgeInv, ProcsInv, Born, Unborn, Ended, NoProcessLeftBehind
  <1> QED
    BY <1>1, BridgeAlways, PTL

LEMMA RejectIsFail ==
    ASSUME TypeOK, NEW S, outcome' = Rejected(S), answer' = answer
    PROVE  Contract!Next
  <1> DEFINE T == {c \in Calls : c \in S /\ outcome[c] = "waiting"}
  <1>1. outcome' = [c \in Calls |-> IF c \in T THEN "failed" ELSE outcome[c]]
    BY DEF Rejected
  <1>2. Contract!Fail(T)
    BY <1>1 DEF Contract!Fail
  <1>3. T \in SUBSET Calls
    OBVIOUS
  <1> QED
    BY <1>2, <1>3 DEF Contract!Next

LEMMA ContractStep ==
    TypeOK /\ BridgeInv /\ [Next]_vars => [Contract!Next]_(Contract!contractVars)
  <1> SUFFICES ASSUME TypeOK, BridgeInv, [Next]_vars
               PROVE  Contract!Next \/ UNCHANGED <<outcome, answer>>
    BY DEF Contract!contractVars
  <1>1. ASSUME NEW c \in Calls, Call(c) PROVE Contract!Next
    <2>1. Contract!Make(c)
      BY <1>1 DEF Call, Contract!Make
    <2> QED
      BY <2>1 DEF Contract!Next
  <1>2. ASSUME NEW c \in Calls, TimeOut(c) \/ WriteFails(c) PROVE Contract!Next
    BY <1>2, RejectIsFail DEF TimeOut, WriteFails
  <1>3. ASSUME NEW p \in Procs, OnLine(p)
        PROVE  Contract!Next \/ UNCHANGED <<outcome, answer>>
    <2> DEFINE line == Head(printed[p])
    <2>1. /\ outcome' = [c \in Calls |->
                            IF c \in pending \intersect {line} THEN "answered" ELSE outcome[c]]
          /\ answer' = [c \in Calls |->
                            IF c \in pending \intersect {line} THEN line ELSE answer[c]]
      BY <1>3 DEF OnLine, Addressee
    <2>2. CASE line \in pending
      <3>1. line \in Calls /\ outcome[line] = "waiting"
        BY <2>2 DEF BridgeInv, PendingInv, TypeOK
      <3>2. /\ outcome' = [outcome EXCEPT ![line] = "answered"]
            /\ answer' = [answer EXCEPT ![line] = line]
        BY <2>1, <2>2 DEF TypeOK
      <3>3. Contract!GetAnswer(line)
        BY <3>1, <3>2 DEF Contract!GetAnswer
      <3> QED
        BY <3>1, <3>3 DEF Contract!Next
    <2>3. CASE line \notin pending
      BY <2>1, <2>3 DEF TypeOK
    <2> QED
      BY <2>2, <2>3
  <1>4. ASSUME NEW p \in Procs, OnExit(p) PROVE Contract!Next
    BY <1>4, RejectIsFail DEF OnExit
  <1>5. CASE RestartOnce
    BY <1>5 DEF RestartOnce
  <1>6. CASE Close
    BY <1>6, RejectIsFail DEF Close
  <1>7. ASSUME NEW p \in Procs, Worker(p) PROVE UNCHANGED <<outcome, answer>>
    BY <1>7 DEF Worker, bridgeVars
  <1>8. CASE UNCHANGED vars
    BY <1>8 DEF vars, bridgeVars
  <1> QED
    BY <1>1, <1>2, <1>3, <1>4, <1>5, <1>6, <1>7, <1>8 DEF Next

\* Every step of the bridge is a step of the contract of call() or none: a call is settled
\* once, with its own answer or an error.
THEOREM ContractImplemented == Spec => Contract!Safety
  <1>1. Init => Contract!Init
    BY DEF Init, Contract!Init
  <1> QED
    BY <1>1, ContractStep, BridgeAlways, PTL DEF Spec, Contract!Safety

\* Only the answer of a process started after the restart restores the budget.
THEOREM NewProcessRestores == Spec => OnlyNewProcessRestoresBudget
  <1> DEFINE Restored == restarted /\ ~restarted' =>
                            \E p \in Procs \ retired : printed'[p] # printed[p]
  <1>1. TypeOK /\ BridgeInv /\ [Next]_vars => [Restored]_vars
    <2> SUFFICES ASSUME TypeOK, BridgeInv, Next, restarted, ~restarted'
                 PROVE  \E p \in Procs \ retired : printed'[p] # printed[p]
      BY DEF vars, bridgeVars
    <2>1. PICK p \in Procs : OnLine(p)
      BY DEF Next, Call, TimeOut, WriteFails, OnExit, Worker, RestartOnce, Close, bridgeVars
    <2>2. /\ printed[p] # <<>> /\ p \notin muted /\ Head(printed[p]) \in pending
          /\ printed' = [printed EXCEPT ![p] = Tail(@)]
      BY <2>1 DEF OnLine, Addressee, RestoresBudget
    <2>3. printed[p] \in Seq(Calls \union {Torn})
      BY DEF TypeOK, WorkerTypeOK
    <2>4. printed'[p] # printed[p]
      <3>1. Len(Tail(printed[p])) # Len(printed[p])
        BY <2>2, <2>3
      <3> QED
        BY <2>2, <3>1 DEF TypeOK, WorkerTypeOK
    <2>5. sentTo[Head(printed[p])] = p
      <3>1. Head(printed[p]) # Torn
        BY <2>2, WorkerAssumption DEF TypeOK
      <3>2. Own(printed[p], p)
        BY DEF BridgeInv, LinesInv
      <3> QED
        BY <2>2, <2>3, <3>1, <3>2, OwnTail
    <2>6. p = proc
      BY <2>2, <2>5 DEF BridgeInv, SentInv, ProcsInv
    <2>7. p \notin retired
      BY <2>6, NoProcIsNone DEF BridgeInv, ProcsInv
    <2> QED
      BY <2>4, <2>7
  <1> QED
    BY <1>1, BridgeAlways, PTL DEF Spec, OnlyNewProcessRestoresBudget

\* The exit of a process that was not killed fails the calls sent to it and to killed
\* processes, and no others.
THEOREM ExitFailsOwn == Spec => ExitFailsOwnCalls
  <1> DEFINE Fails == \A p \in (reaped' \ reaped) \ killed : \A c \in Calls :
                outcome[c] = "waiting" /\ outcome'[c] = "failed"
                    => sentTo[c] \in {p} \union killed
  <1>1. TypeOK /\ BridgeInv /\ [Next]_vars => [Fails]_vars
    <2> SUFFICES ASSUME TypeOK, BridgeInv, Next,
                        NEW p \in (reaped' \ reaped) \ killed, NEW c \in Calls,
                        outcome[c] = "waiting"
                 PROVE  sentTo[c] \in {p} \union killed
      BY DEF vars, bridgeVars
    <2>1. p \in Procs /\ OnExit(p)
      <3>1. reaped' # reaped
        OBVIOUS
      <3>2. PICK q \in Procs : OnExit(q)
        BY <3>1 DEF Next, Call, TimeOut, WriteFails, OnLine, Worker, RestartOnce, Close, bridgeVars
      <3>3. p = q
        BY <3>2 DEF OnExit
      <3> QED
        BY <3>2, <3>3
    <2>2. p \in Born
      BY <2>1 DEF OnExit, Born, Unborn, Ended
    <2>3. p = proc
      BY <2>2 DEF BridgeInv, ProcsInv
    <2>4. c \in pending
      BY DEF BridgeInv, PendingInv
    <2> QED
      BY <2>3, <2>4 DEF BridgeInv, SentInv
  <1> QED
    BY <1>1, BridgeAlways, PTL DEF Spec, ExitFailsOwnCalls
==============================================================================
