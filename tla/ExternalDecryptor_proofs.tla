----------------------- MODULE ExternalDecryptor_proofs -----------------------
(***************************************************************************)
(* Proofs about ExternalDecryptor, for any number of calls, requests of     *)
(* any size and any number of lines that nobody asked for.                  *)
(***************************************************************************)
EXTENDS ExternalDecryptor, SequenceTheorems, TLAPS

-----------------------------------------------------------------------------
(* Types.                                                                  *)

\* The constants are apart, and the three special lines are lines or none.
LEMMA Constants ==
  /\ Closer \notin Call /\ Nobody \notin Call /\ Nobody # Setup
  /\ Stray \in Line /\ Garbled \in Line /\ EndOfFile \in Line
  /\ NoLine \notin Line /\ MaxStrays \in Nat
  /\ "none" \notin Call /\ "failed" \notin Call
BY ExternalAssumption DEF Stray, Garbled, EndOfFile, NoLine, Line, ErrorClass

\* What is left of the steps when the lines of the model's three groups are
\* put together: one disjunct per action.
LEMMA NextCases ==
  Next => \/ \E c \in Call : \/ Begin(c) \/ Enter(c) \/ Write(c) \/ WriteFails(c)
                             \/ Receive(c) \/ Timeout(c) \/ restart(c) \/ restartFails(c)
                             \/ ChildReadsBig(c)
          \/ \E c \in Call, a \in Attempts :
                \/ ReaderBegins(c, a) \/ ReaderReads(c, a)
                \/ ReaderRaces(c, a) \/ ReaderEnds(c, a)
          \/ CloseBegins \/ Close \/ ChildReads \/ ChildAnswersAny
          \/ ChildStrays \/ ChildExits
BY DEF Next, callSteps, doCall, readExternalLine, ChildReadsOn

\* Closing the pipes keeps the types.
LEMMA ClosePipesTypes ==
  ASSUME TypeOK, ClosePipes
  PROVE  /\ inbox' \in Seq(Call) /\ work' \in Call \union {Nobody}
         /\ outbox' \in Seq(Line) /\ strays' \in 0 .. MaxStrays /\ excess' \in Nat
         /\ reader' \in [Call -> [Attempts -> {"none", "spawned", "reading", "orphan"}]]
         /\ result' \in [Call -> Line \union {NoLine}]
         /\ panicked' \in BOOLEAN /\ handled' \subseteq Call
BY DEF TypeOK, ClosePipes

\* So does the end of a call to doCall.
LEMMA CallEndsTypes ==
  ASSUME TypeOK, NEW c \in Call, NEW line \in Line, line.id \in {c, Nobody},
         line.kind = "ok" => line.id = c, CallEnds(c, line)
  PROVE  /\ pc' \in [Call \union {Closer} ->
               {"idle", "enter", "write", "select", "restart", "revive", "done"}]
         /\ outcome' \in [Call -> Call \union {Nobody, "none", "failed"}]
         /\ attempt' \in [Call -> Attempts]
         /\ pc' = [pc EXCEPT ![c] = AfterDoCall(c, line)]
         /\ AfterDoCall(c, line) \in {"restart", "revive", "done"}
         /\ AfterDoCall(c, line) # "done" => attempt[c] = 1
<1>1. AfterDoCall(c, line) \in {"restart", "revive", "done"}
  BY DEF AfterDoCall
<1>2. AfterDoCall(c, line) # "done" => attempt[c] = 1
  BY DEF AfterDoCall
<1>3. pc' = [pc EXCEPT ![c] = AfterDoCall(c, line)]
  BY DEF CallEnds
<1>4. QED
  BY <1>1, <1>2, <1>3 DEF CallEnds, TypeOK

\* The reader of a new request takes its place.
LEMMA AwaitTypes ==
  ASSUME TypeOK, NEW c \in Call, Await(c)
  PROVE  /\ pc' = [pc EXCEPT ![c] = "select"]
         /\ reader' \in [Call -> [Attempts -> {"none", "spawned", "reading", "orphan"}]]
         /\ reader'[c][attempt[c]] = "spawned"
BY DEF TypeOK, Await

\* A line is delivered to the call that waits for it, or to nobody.
LEMMA DeliverTypes ==
  ASSUME TypeOK, NEW c \in Call, NEW a \in Attempts, NEW line \in Line,
         Deliver(c, a, line)
  PROVE  /\ reader' \in [Call -> [Attempts -> {"none", "spawned", "reading", "orphan"}]]
         /\ result' \in [Call -> Line \union {NoLine}]
BY DEF TypeOK, Deliver

\* Only the first attempt of a call ends in a restart: the attempts, at most
\* two, are typed because of it.
FirstOnly == \A c \in Call : pc[c] \in {"restart", "revive"} => attempt[c] = 1

\* Every variable keeps its type, for any calls and any script, and no call is
\* attempted more than twice.
THEOREM TypeCorrect == Spec => [](TypeOK /\ FirstOnly)
<1> USE Constants
<1>1. Init => TypeOK /\ FirstOnly
  <2> SUFFICES ASSUME Init PROVE TypeOK /\ FirstOnly
    OBVIOUS
  <2>1. 1 \in Attempts /\ reader \in [Call -> [Attempts -> {"none"}]]
    BY DEF Init, Attempts
  <2>2. alive \in BOOLEAN /\ panicked \in BOOLEAN
    BY DEF Init
  <2>3. QED
    BY <2>1, <2>2 DEF Init, TypeOK, FirstOnly
<1>2. TypeOK /\ FirstOnly /\ [Next]_vars => TypeOK'
  <2> SUFFICES ASSUME TypeOK, FirstOnly, [Next]_vars PROVE TypeOK'
    OBVIOUS
  <2> USE DEF childVars, callVars, readVars
  <2>1. ASSUME NEW c \in Call, Begin(c) \/ Enter(c) \/ WriteFails(c) PROVE TypeOK'
    <3>1. CASE Begin(c)
      BY <3>1 DEF Begin, TypeOK
    <3>2. CASE Enter(c) /\ proc # Nobody
      BY <3>2 DEF Enter, TypeOK
    <3>3. CASE DoCallReturns(c, EndOfFile) /\ UNCHANGED <<childVars, readVars, handled>>
      BY <3>3, CallEndsTypes DEF DoCallReturns, TypeOK, EndOfFile
    <3>4. QED
      BY <2>1, <3>1, <3>2, <3>3 DEF Enter, WriteFails
  <2>2. ASSUME NEW c \in Call, Write(c) \/ ChildReadsBig(c) PROVE TypeOK'
    <3>1. Await(c)
      BY <2>2 DEF Write, ChildReadsBig
    <3>2. CASE Write(c)
      BY <3>1, <3>2, AwaitTypes DEF Write, Await, TypeOK
    <3>3. CASE ChildReadsBig(c)
      BY <3>1, <3>3, AwaitTypes DEF ChildReadsBig, Await, TypeOK
    <3>4. QED
      BY <2>2, <3>2, <3>3
  <2>3. ASSUME NEW c \in Call, Receive(c) PROVE TypeOK'
    <3>1. result[c] \in Line
      BY <2>3 DEF Receive, TypeOK
    <3>2. Judge(c, result[c]) \in Line
      BY <3>1 DEF Judge
    <3>3. CallEnds(c, Judge(c, result[c]))
      BY <2>3 DEF Receive, DoCallReturns
    <3>4. /\ Judge(c, result[c]).id \in {c, Nobody}
          /\ Judge(c, result[c]).kind = "ok" => Judge(c, result[c]).id = c
      BY DEF Judge, EndOfFile, Garbled
    <3>5. QED
      BY <2>3, <3>2, <3>3, <3>4, CallEndsTypes DEF Receive, DoCallReturns, TypeOK
  <2>4. ASSUME NEW c \in Call, Timeout(c) PROVE TypeOK'
    <3> DEFINE line == [id |-> Nobody, kind |-> "timeout"]
    <3>1. line \in Line /\ line.id \in {c, Nobody} /\ line.kind # "ok"
      BY DEF Line, ErrorClass
    <3>2. CallEnds(c, line) /\ callMu' = Nobody /\ ClosePipes
      BY <2>4 DEF Timeout, DoCallReturns, stopLocked
    <3> HIDE DEF line
    <3>3. QED
      BY <2>4, <3>1, <3>2, CallEndsTypes, ClosePipesTypes DEF Timeout, stopLocked, TypeOK
  <2>5. ASSUME NEW c \in Call, restart(c) \/ restartFails(c) PROVE TypeOK'
    <3>1. ClosePipes /\ proc' \in {c, Nobody} /\ alive' \in BOOLEAN /\ callMu' = callMu
      BY <2>5 DEF restart, restartFails, startLocked, stopLocked
    <3>2. attempt[c] = 1 /\ 1 + 1 \in Attempts
      BY <2>5 DEF restart, restartFails, FirstOnly, Attempts
    <3>3. attempt' \in [Call -> Attempts]
      BY <2>5, <3>2 DEF restart, restartFails, AfterRestart, TypeOK
    <3>4. pc' \in [Call \union {Closer} ->
              {"idle", "enter", "write", "select", "restart", "revive", "done"}]
      BY <2>5 DEF restart, restartFails, AfterRestart, TypeOK
    <3>5. outcome' \in [Call -> Call \union {Nobody, "none", "failed"}]
      BY <2>5 DEF restart, restartFails, AfterRestart, TypeOK
    <3>6. QED
      BY <3>1, <3>3, <3>4, <3>5, ClosePipesTypes DEF TypeOK
  <2>6. ASSUME NEW c \in Call, NEW a \in Attempts, ReaderBegins(c, a) PROVE TypeOK'
    <3>1. reader' \in [Call -> [Attempts -> {"none", "spawned", "reading", "orphan"}]]
      <4>1. CASE proc = Nobody
        BY <2>6, <4>1 DEF ReaderBegins, TypeOK
      <4>2. CASE proc # Nobody
        <5>1. reader' = [reader EXCEPT ![c][a] = "reading"]
          BY <2>6, <4>2 DEF ReaderBegins
        <5>2. QED
          BY <5>1 DEF TypeOK
      <4>3. QED
        BY <4>1, <4>2
    <3>2. panicked' \in BOOLEAN
      BY <2>6 DEF ReaderBegins, TypeOK
    <3>3. QED
      BY <2>6, <3>1, <3>2 DEF ReaderBegins, TypeOK
  <2>7. ASSUME NEW c \in Call, NEW a \in Attempts,
               ReaderReads(c, a) \/ ReaderRaces(c, a) \/ ReaderEnds(c, a)
        PROVE  TypeOK'
    <3>1. PICK line \in Line : Deliver(c, a, line)
      <4>1. outbox # <<>> => Head(outbox) \in Line
        BY DEF TypeOK
      <4>2. QED
        BY <2>7, <4>1 DEF ReaderReads, ReaderRaces, ReaderEnds
    <3>2. outbox' \in Seq(Line) /\ strays' \in 0 .. MaxStrays /\ excess' \in Nat
      <4>1. outbox # <<>> => Tail(outbox) \in Seq(Line)
        BY HeadTailProperties DEF TypeOK
      <4>2. CASE ReaderReads(c, a)
        BY <4>1, <4>2 DEF ReaderReads, TypeOK
      <4>3. CASE ReaderRaces(c, a)
        <5>1. /\ strays' = strays /\ outbox # <<>>
              /\ \/ outbox' = Tail(outbox) /\ excess' = excess
                 \/ outbox' = outbox /\ excess' = excess + 1
          BY <4>3 DEF ReaderRaces
        <5>2. /\ strays \in 0 .. MaxStrays /\ outbox \in Seq(Line)
              /\ excess \in Nat /\ excess + 1 \in Nat
          BY DEF TypeOK
        <5>3. QED
          BY <4>1, <5>1, <5>2
      <4>4. CASE ReaderEnds(c, a)
        BY <4>4 DEF ReaderEnds, TypeOK
      <4>5. QED
        BY <2>7, <4>2, <4>3, <4>4
    <3>3. QED
      BY <3>1, <3>2, DeliverTypes DEF Deliver, TypeOK
  <2>8. CASE CloseBegins \/ Close
    <3>1. CASE CloseBegins
      BY <3>1 DEF CloseBegins, TypeOK
    <3>2. CASE Close
      BY <3>2, ClosePipesTypes DEF Close, stopLocked, TypeOK
    <3>3. QED
      BY <2>8, <3>1, <3>2
  <2>9. CASE ChildReads
    BY <2>9 DEF ChildReads, TypeOK
  <2>10. CASE ChildAnswersAny
    BY <2>10 DEF ChildAnswersAny, ChildAnswers, TypeOK, Line
  <2>11. CASE ChildStrays
    BY <2>11 DEF ChildStrays, TypeOK
  <2>12. CASE ChildExits
    <3>1. alive' \in BOOLEAN /\ panicked' \in BOOLEAN
      BY <2>12 DEF ChildExits, TypeOK
    <3>2. QED
      BY <2>12, <3>1 DEF ChildExits, TypeOK
  <2>13. CASE UNCHANGED vars
    BY <2>13 DEF vars, TypeOK
  <2>14. QED
    BY <2>1, <2>2, <2>3, <2>4, <2>5, <2>6, <2>7, <2>8, <2>9, <2>10, <2>11, <2>12, <2>13,
       NextCases
<1>3. TypeOK /\ FirstOnly /\ [Next]_vars => FirstOnly'
  <2> SUFFICES ASSUME TypeOK, FirstOnly, [Next]_vars,
                      NEW d \in Call, pc'[d] \in {"restart", "revive"}
               PROVE  attempt'[d] = 1
    BY DEF FirstOnly
  <2> USE DEF TypeOK, FirstOnly
  <2>1. ASSUME NEW c \in Call, NEW line, CallEnds(c, line) PROVE attempt'[d] = 1
    <3>1. /\ pc' = [pc EXCEPT ![c] = AfterDoCall(c, line)]
          /\ attempt' = attempt
      BY <2>1 DEF CallEnds
    <3>2. AfterDoCall(c, line) # "done" => attempt[c] = 1
      BY DEF AfterDoCall
    <3>3. CASE c = d
      BY <3>1, <3>2, <3>3
    <3>4. CASE c # d
      BY <3>1, <3>4
    <3>5. QED
      BY <3>3, <3>4
  <2>2. ASSUME NEW c \in Call, Enter(c) \/ WriteFails(c) \/ Receive(c) \/ Timeout(c)
        PROVE  attempt'[d] = 1
    BY <2>1, <2>2 DEF Enter, WriteFails, Receive, Timeout, DoCallReturns
  <2>3. ASSUME NEW c \in Call, Write(c) \/ ChildReadsBig(c) \/ Begin(c)
        PROVE  attempt'[d] = 1
    BY <2>3 DEF Write, ChildReadsBig, Begin, Await, childVars, callVars
  <2>4. ASSUME NEW c \in Call, restart(c) \/ restartFails(c) PROVE attempt'[d] = 1
    BY <2>4 DEF restart, restartFails, AfterRestart
  <2>5. CASE UNCHANGED <<pc, attempt>>
    BY <2>5
  <2>6. CASE CloseBegins \/ Close
    BY <2>6 DEF CloseBegins, Close
  <2>7. ASSUME NEW c \in Call, NEW a \in Attempts,
               ReaderBegins(c, a) \/ ReaderReads(c, a) \/ ReaderRaces(c, a) \/ ReaderEnds(c, a)
        PROVE  UNCHANGED <<pc, attempt>>
    BY <2>7 DEF ReaderBegins, ReaderReads, ReaderRaces, ReaderEnds, Deliver, callVars
  <2>8. CASE ChildReads \/ ChildAnswersAny \/ ChildStrays \/ ChildExits \/ UNCHANGED vars
    BY <2>8 DEF ChildReads, ChildAnswersAny, ChildAnswers, ChildStrays, ChildExits,
                callVars, vars
  <2>9. QED
    BY <2>2, <2>3, <2>4, <2>5, <2>6, <2>7, <2>8, NextCases
<1>4. QED
  BY <1>1, <1>2, <1>3, PTL DEF Spec

-----------------------------------------------------------------------------
(* callMu.                                                                 *)

\* The call that holds callMu is the one whose request is underway.
Serial == \A c \in Call : callMu = c <=> c \in Underway

\* The places that a call goes to when it leaves doCall.
LEMMA DoCallReturnsPlaces ==
  ASSUME TypeOK, NEW c \in Call, NEW line, DoCallReturns(c, line)
  PROVE  /\ callMu' = Nobody /\ attempt' = attempt
         /\ \A p \in Call \union {Closer} : p # c => pc'[p] = pc[p]
         /\ pc'[c] \in {"restart", "revive", "done"}
         /\ line.kind = "ok" => pc'[c] = "done"
         /\ \A d \in Call : d # c => outcome'[d] = outcome[d]
         /\ outcome'[c] = IF line.kind = "ok" THEN line.id
                          ELSE IF pc'[c] = "done" THEN "failed" ELSE outcome[c]
<1>1. /\ AfterDoCall(c, line) \in {"restart", "revive", "done"}
      /\ line.kind = "ok" => AfterDoCall(c, line) = "done"
  BY DEF AfterDoCall
<1>2. pc' = [pc EXCEPT ![c] = AfterDoCall(c, line)]
  BY DEF DoCallReturns, CallEnds
<1>3. pc'[c] = AfterDoCall(c, line)
  BY <1>2 DEF TypeOK
<1>4. outcome' = [outcome EXCEPT ![c] = IF line.kind = "ok" THEN line.id
                    ELSE IF AfterDoCall(c, line) = "done" THEN "failed" ELSE @]
  BY DEF DoCallReturns, CallEnds
<1>5. attempt' = attempt /\ callMu' = Nobody
  BY DEF DoCallReturns, CallEnds
<1>6. QED
  BY <1>1, <1>2, <1>3, <1>4, <1>5 DEF TypeOK

\* A step of the script or of a reading goroutine moves no call.
LEMMA OthersMoveNobody ==
  \/ \E c \in Call, a \in Attempts :
       ReaderBegins(c, a) \/ ReaderReads(c, a) \/ ReaderRaces(c, a) \/ ReaderEnds(c, a)
  \/ ChildReads \/ ChildAnswersAny \/ ChildStrays \/ ChildExits
  \/ UNCHANGED vars
  => UNCHANGED <<callVars, proc>>
<1>1. ASSUME NEW c \in Call, NEW a \in Attempts,
             ReaderBegins(c, a) \/ ReaderReads(c, a) \/ ReaderRaces(c, a) \/ ReaderEnds(c, a)
      PROVE  UNCHANGED <<callVars, proc>>
  BY <1>1 DEF ReaderBegins, ReaderReads, ReaderRaces, ReaderEnds, Deliver, childVars
<1>2. CASE ChildReads \/ ChildAnswersAny \/ ChildStrays \/ ChildExits
  BY <1>2 DEF ChildReads, ChildAnswersAny, ChildAnswers, ChildStrays, ChildExits
<1>3. CASE UNCHANGED vars
  BY <1>3 DEF vars, childVars
<1>4. QED
  BY <1>1, <1>2, <1>3

\* Calls are serialized: callMu is held by a call from its look at the process
\* until doCall returns, in whichever of its ways, and by nobody else.
THEOREM SerialCorrect == Spec => []Serial
<1> USE Constants
<1>1. Init => Serial
  BY DEF Init, Serial, Underway
<1>2. TypeOK /\ Serial /\ [Next]_vars => Serial'
  <2> SUFFICES ASSUME TypeOK, Serial, [Next]_vars,
                      NEW d \in Call
               PROVE  callMu' = d <=> pc'[d] \in {"write", "select"}
    BY DEF Serial, Underway
  <2>0. callMu = d <=> pc[d] \in {"write", "select"}
    BY DEF Serial, Underway
  <2>1. ASSUME NEW c \in Call, NEW line, DoCallReturns(c, line), callMu \in {c, Nobody}
        PROVE  callMu' = d <=> pc'[d] \in {"write", "select"}
    BY <2>0, <2>1, DoCallReturnsPlaces
  <2>2. ASSUME NEW c \in Call, pc[c] \in {"write", "select"} PROVE callMu = c
    BY <2>2 DEF Serial, Underway
  <2>3. ASSUME NEW c \in Call, Begin(c)
        PROVE  callMu' = d <=> pc'[d] \in {"write", "select"}
    BY <2>0, <2>3 DEF Begin, TypeOK
  <2>4. ASSUME NEW c \in Call, Enter(c)
        PROVE  callMu' = d <=> pc'[d] \in {"write", "select"}
    <3>1. CASE proc = Nobody
      BY <2>1, <2>4, <3>1 DEF Enter, Free
    <3>2. CASE proc # Nobody
      BY <2>0, <2>4, <3>2 DEF Enter, Free, TypeOK
    <3>3. QED
      BY <3>1, <3>2
  <2>5. ASSUME NEW c \in Call, WriteFails(c) \/ Receive(c) \/ Timeout(c)
        PROVE  callMu' = d <=> pc'[d] \in {"write", "select"}
    BY <2>1, <2>2, <2>5 DEF WriteFails, Receive, Timeout
  <2>6. ASSUME NEW c \in Call, Write(c) \/ ChildReadsBig(c)
        PROVE  callMu' = d <=> pc'[d] \in {"write", "select"}
    BY <2>0, <2>2, <2>6 DEF Write, ChildReadsBig, Await, TypeOK
  <2>7. ASSUME NEW c \in Call, restart(c) \/ restartFails(c)
        PROVE  callMu' = d <=> pc'[d] \in {"write", "select"}
    BY <2>0, <2>7 DEF restart, restartFails, AfterRestart, Free, TypeOK
  <2>8. CASE CloseBegins \/ Close
    BY <2>0, <2>8 DEF CloseBegins, Close, TypeOK
  <2>9. CASE UNCHANGED callVars
    BY <2>0, <2>9 DEF callVars
  <2>10. QED
    BY <2>3, <2>4, <2>5, <2>6, <2>7, <2>8, <2>9, NextCases, OthersMoveNobody
<1>3. QED
  BY <1>1, <1>2, TypeCorrect, PTL DEF Spec

\* Nobody's process is killed: a process is stopped or replaced by the very call
\* whose request it has, or while no call has one underway.
THEOREM KillSparesOthersCorrect == Spec => KillSparesOthers
<1> USE Constants
<1>1. TypeOK /\ Serial /\ [Next]_vars
      => (proc' # proc => \A c \in Underway : pc'[c] # pc[c])
  <2> SUFFICES ASSUME TypeOK, Serial, [Next]_vars, proc' # proc,
                      NEW d \in Underway
               PROVE  pc'[d] # pc[d]
    OBVIOUS
  <2>0. d \in Call /\ callMu = d /\ ~Free /\ pc[d] \in {"write", "select"}
    BY DEF Serial, Underway, Free
  <2>1. ASSUME NEW c \in Call, Timeout(c) PROVE pc'[d] # pc[d]
    <3>1. callMu = c
      BY <2>1 DEF Timeout, Serial, Underway
    <3>2. pc'[c] \notin {"write", "select"}
      BY <2>1, DoCallReturnsPlaces DEF Timeout
    <3>3. QED
      BY <2>0, <3>1, <3>2
  <2>2. ASSUME NEW c \in Call, Begin(c) \/ Enter(c) \/ Write(c) \/ WriteFails(c)
                               \/ Receive(c) \/ ChildReadsBig(c)
        PROVE  proc' = proc
    BY <2>2 DEF Begin, Enter, Write, WriteFails, Receive, ChildReadsBig, childVars
  <2>3. ASSUME NEW c \in Call, restart(c) \/ restartFails(c) PROVE FALSE
    BY <2>0, <2>3 DEF restart, restartFails
  <2>4. CASE CloseBegins \/ Close
    BY <2>0, <2>4 DEF CloseBegins, Close, childVars
  <2>5. QED
    BY <2>1, <2>2, <2>3, <2>4, NextCases, OthersMoveNobody
<1>2. QED
  BY <1>1, TypeCorrect, SerialCorrect, PTL DEF Spec, KillSparesOthers

-----------------------------------------------------------------------------
(* What each call waits for.                                               *)

\* A call that has not returned has no outcome; its channel is empty unless it
\* waits on it; and the goroutine that reads its answer is not an orphan.
Waiting ==
  \A c \in Call :
    /\ pc[c] # "done" => outcome[c] = "none"
    /\ pc[c] # "select" => result[c] = NoLine
    /\ pc[c] = "select" => reader[c][attempt[c]] # "orphan"

\* No answer is left in the channel of a call, and none is waited for that only
\* the end of a killed process could bring.
LEMMA WaitingCorrect == Spec => []Waiting
<1> USE Constants
<1>1. Init => Waiting
  BY DEF Init, Waiting
<1>2. TypeOK /\ FirstOnly /\ Serial /\ Waiting /\ [Next]_vars => Waiting'
  <2> SUFFICES ASSUME TypeOK, FirstOnly, Serial, Waiting, [Next]_vars,
                      NEW d \in Call
               PROVE  /\ pc'[d] # "done" => outcome'[d] = "none"
                      /\ pc'[d] # "select" => result'[d] = NoLine
                      /\ pc'[d] = "select" => reader'[d][attempt'[d]] # "orphan"
    BY DEF Waiting
  <2> DEFINE Fine == /\ pc'[d] # "done" => outcome'[d] = "none"
                     /\ pc'[d] # "select" => result'[d] = NoLine
                     /\ pc'[d] = "select" => reader'[d][attempt'[d]] # "orphan"
  <2>0. /\ pc[d] # "done" => outcome[d] = "none"
        /\ pc[d] # "select" => result[d] = NoLine
        /\ pc[d] = "select" => reader[d][attempt[d]] # "orphan"
        /\ pc[d] = "select" => callMu = d
    BY DEF Waiting, Serial, Underway
  <2>1. ASSUME NEW c \in Call, NEW line, DoCallReturns(c, line), pc[c] # "done"
        PROVE  /\ pc'[d] # "done" => outcome'[d] = "none"
               /\ pc'[d] = "select" => pc[d] = "select" /\ d # c
               /\ pc'[d] # "select" => pc[d] # "select" \/ d = c
               /\ attempt' = attempt
    BY <2>0, <2>1, DoCallReturnsPlaces
  <2>2. ASSUME NEW c \in Call, Begin(c) \/ Enter(c) \/ WriteFails(c) PROVE Fine
    <3>1. CASE Begin(c)
      BY <2>0, <3>1 DEF Begin, TypeOK, readVars
    <3>2. CASE Enter(c) /\ proc # Nobody
      BY <2>0, <3>2 DEF Enter, TypeOK, readVars
    <3>3. CASE /\ DoCallReturns(c, EndOfFile) /\ UNCHANGED readVars
               /\ pc[c] \in {"enter", "write"}
      BY <2>0, <2>1, <3>3 DEF readVars
    <3>4. QED
      BY <2>2, <3>1, <3>2, <3>3 DEF Enter, WriteFails
  <2>3. ASSUME NEW c \in Call, Receive(c) PROVE Fine
    <3>1. /\ result' = [result EXCEPT ![c] = NoLine] /\ reader' = reader
          /\ DoCallReturns(c, Judge(c, result[c])) /\ pc[c] = "select"
      BY <2>3 DEF Receive
    <3>2. result'[d] = IF d = c THEN NoLine ELSE result[d]
      BY <3>1 DEF TypeOK
    <3>3. QED
      BY <2>0, <2>1, <3>1, <3>2
  <2>4. ASSUME NEW c \in Call, Timeout(c) PROVE Fine
    <3>1. /\ DoCallReturns(c, [id |-> Nobody, kind |-> "timeout"])
          /\ pc[c] = "select" /\ result[c] = NoLine /\ result' = result
      BY <2>4 DEF Timeout, stopLocked, ClosePipes
    <3>2. callMu = c
      BY <3>1 DEF Serial, Underway
    <3>3. QED
      BY <2>0, <2>1, <3>1, <3>2
  <2>5. ASSUME NEW c \in Call, Write(c) \/ ChildReadsBig(c) PROVE Fine
    <3>1. Await(c) /\ pc[c] = "write"
      BY <2>5 DEF Write, ChildReadsBig
    <3>2. /\ pc' = [pc EXCEPT ![c] = "select"] /\ reader'[c][attempt[c]] = "spawned"
          /\ UNCHANGED <<attempt, outcome, result>>
          /\ \A e \in Call : e # c => reader'[e] = reader[e]
      BY <3>1, AwaitTypes DEF Await, TypeOK
    <3>3. QED
      BY <2>0, <3>1, <3>2 DEF TypeOK
  <2>6. ASSUME NEW c \in Call, restart(c) \/ restartFails(c) PROVE Fine
    <3>0. Free /\ ClosePipes /\ pc[c] \in {"restart", "revive"}
      BY <2>6 DEF restart, restartFails, startLocked, stopLocked
    <3>1. \/ pc' = [pc EXCEPT ![c] = "enter"] /\ outcome' = outcome
          \/ pc' = [pc EXCEPT ![c] = "done"] /\ outcome' = [outcome EXCEPT ![c] = "failed"]
      <4>1. CASE restartFails(c)
        BY <4>1 DEF restartFails
      <4>2. CASE restart(c) /\ pc[c] = "restart"
        BY <4>2 DEF restart, AfterRestart
      <4>3. CASE restart(c) /\ pc[c] # "restart"
        BY <4>3 DEF restart, AfterRestart
      <4>4. QED
        BY <2>6, <4>1, <4>2, <4>3
    <3>2. result' = result /\ pc[d] # "select"
      BY <2>0, <3>0 DEF ClosePipes, Free
    <3>3. QED
      BY <2>0, <3>0, <3>1, <3>2 DEF TypeOK
  <2>7. CASE CloseBegins \/ Close
    <3>1. CASE CloseBegins
      BY <2>0, <3>1 DEF CloseBegins, TypeOK, readVars
    <3>2. CASE Close
      <4>1. result' = result /\ pc[d] # "select" /\ pc'[d] = pc[d] /\ outcome' = outcome
        BY <2>0, <3>2 DEF Close, stopLocked, ClosePipes, Free, TypeOK
      <4>2. QED
        BY <2>0, <4>1
    <3>3. QED
      BY <2>7, <3>1, <3>2
  <2>8. ASSUME NEW c \in Call, NEW a \in Attempts, ReaderBegins(c, a) PROVE Fine
    <3>1. \/ reader' = reader
          \/ reader' = [reader EXCEPT ![c][a] = "reading"]
      BY <2>8 DEF ReaderBegins
    <3>2. UNCHANGED <<pc, attempt, outcome, result>>
      BY <2>8 DEF ReaderBegins, callVars
    <3>3. attempt[d] \in Attempts /\ reader[d] \in [Attempts -> {"none", "spawned", "reading", "orphan"}]
      BY DEF TypeOK
    <3>4. reader'[d][attempt[d]] \in {reader[d][attempt[d]], "reading"}
      BY <3>1, <3>3 DEF TypeOK
    <3>5. QED
      BY <2>0, <3>2, <3>4
  <2>9. ASSUME NEW c \in Call, NEW a \in Attempts, NEW line, Deliver(c, a, line) PROVE Fine
    <3>1. reader' = [reader EXCEPT ![c][a] = "none"]
      BY <2>9 DEF Deliver
    <3>2. pc[d] # "select" => result'[d] = result[d]
      BY <2>9 DEF Deliver, TypeOK
    <3>3. UNCHANGED <<pc, attempt, outcome>>
      BY <2>9 DEF Deliver, callVars
    <3>4. QED
      BY <2>0, <3>1, <3>2, <3>3 DEF TypeOK
  <2>10. CASE ChildReads \/ ChildAnswersAny \/ ChildStrays \/ ChildExits \/ UNCHANGED vars
    <3>1. UNCHANGED <<pc, outcome, attempt, result, reader>>
      BY <2>10 DEF ChildReads, ChildAnswersAny, ChildAnswers, ChildStrays, ChildExits, vars,
                   callVars, readVars
    <3>2. QED
      BY <2>0, <3>1
  <2>11. ASSUME NEW c \in Call, NEW a \in Attempts,
                ReaderReads(c, a) \/ ReaderRaces(c, a) \/ ReaderEnds(c, a)
         PROVE  Fine
    BY <2>9, <2>11 DEF ReaderReads, ReaderRaces, ReaderEnds
  <2>12. QED
    BY <2>2, <2>3, <2>4, <2>5, <2>6, <2>7, <2>8, <2>10, <2>11, NextCases
<1>3. QED
  BY <1>1, <1>2, TypeCorrect, SerialCorrect, PTL DEF Spec

-----------------------------------------------------------------------------
(* Where requests and answers come from.                                   *)

Begun == {c \in Call : pc[c] # "idle"}

\* Only requests of calls that have begun are in the pipe to the script or were
\* worked on; a line with an id answers a request that was worked on, be it in
\* the pipe back or in a channel.
Traceable ==
  /\ \A k \in 1 .. Len(inbox) : inbox[k] \in Begun
  /\ handled \subseteq Begun
  /\ work \in handled \union {Nobody}
  /\ \A k \in 1 .. Len(outbox) : outbox[k].id \in handled \union {Nobody}
  /\ \A c \in Call : result[c].id \in handled \union {Nobody}

\* A call that has begun stays so.
LEMMA BegunStays ==
  ASSUME TypeOK, [Next]_vars
  PROVE  Begun \subseteq Begun'
<1> USE Constants
<1> SUFFICES ASSUME NEW d \in Call, pc[d] # "idle" PROVE pc'[d] # "idle"
  BY DEF Begun
<1>1. ASSUME NEW c \in Call, NEW line, DoCallReturns(c, line) PROVE pc'[d] # "idle"
  BY <1>1, DoCallReturnsPlaces
<1>2. ASSUME NEW c \in Call, Begin(c) \/ Enter(c) PROVE pc'[d] # "idle"
  BY <1>1, <1>2 DEF Begin, Enter, TypeOK
<1>3. ASSUME NEW c \in Call, WriteFails(c) \/ Receive(c) \/ Timeout(c) PROVE pc'[d] # "idle"
  BY <1>1, <1>3 DEF WriteFails, Receive, Timeout
<1>4. ASSUME NEW c \in Call, Write(c) \/ ChildReadsBig(c) PROVE pc'[d] # "idle"
  BY <1>4 DEF Write, ChildReadsBig, Await, TypeOK
<1>5. ASSUME NEW c \in Call, restart(c) \/ restartFails(c) PROVE pc'[d] # "idle"
  BY <1>5 DEF restart, restartFails, AfterRestart, TypeOK
<1>6. CASE CloseBegins \/ Close
  BY <1>6 DEF CloseBegins, Close, TypeOK
<1>7. CASE UNCHANGED callVars
  BY <1>7 DEF callVars
<1>8. QED
  BY <1>2, <1>3, <1>4, <1>5, <1>6, <1>7, NextCases, OthersMoveNobody

\* Taking a line off its pipe, and closing the pipes, leaves nothing new there.
LEMMA ClosePipesTraceable ==
  ASSUME TypeOK, Traceable, ClosePipes, Begun \subseteq Begun'
  PROVE  Traceable'
<1>1. inbox' = <<>> /\ work' = Nobody /\ outbox' = <<>>
      /\ result' = result /\ handled' = handled
  BY DEF ClosePipes
<1>2. Len(inbox') = 0 /\ Len(outbox') = 0
  BY <1>1
<1>3. QED
  BY <1>1, <1>2 DEF Traceable

\* What can be traced to a call still can when nothing changes.
LEMMA TraceableStutter ==
  ASSUME Traceable, UNCHANGED <<inbox, work, outbox, result, handled>>, Begun \subseteq Begun'
  PROVE  Traceable'
BY DEF Traceable

\* Requests and answers are not made up: they can be followed back, over the
\* pipes of all the processes, to a call that has begun.
THEOREM TraceableCorrect == Spec => []Traceable
<1> USE Constants
<1>1. Init => Traceable
  <2> SUFFICES ASSUME Init PROVE Traceable
    OBVIOUS
  <2>1. Len(inbox) = 0 /\ Len(outbox) = 0
    BY DEF Init
  <2>2. \A c \in Call : result[c].id = Nobody
    BY DEF Init, NoLine
  <2>3. QED
    BY <2>1, <2>2 DEF Init, Traceable
<1>2. TypeOK /\ Traceable /\ [Next]_vars => Traceable'
  <2> SUFFICES ASSUME TypeOK, Traceable, [Next]_vars PROVE Traceable'
    OBVIOUS
  <2>0. Begun \subseteq Begun'
    BY BegunStays
  <2>1. ASSUME NEW c \in Call, Begin(c) \/ Enter(c) \/ WriteFails(c) PROVE Traceable'
    BY <2>0, <2>1, TraceableStutter DEF Begin, Enter, WriteFails, childVars, readVars
  <2>2. ASSUME NEW c \in Call, Write(c) PROVE Traceable'
    <3>1. pc[c] # "idle" /\ UNCHANGED <<work, outbox, result, handled>>
      BY <2>2 DEF Write, Await
    <3>2. inbox \in Seq(Call) /\ inbox' = Append(inbox, c)
      BY <2>2 DEF Write, TypeOK
    <3>3. ASSUME NEW k \in 1 .. Len(inbox') PROVE inbox'[k] \in Begun
      BY <3>1, <3>2, AppendProperties DEF Traceable, Begun
    <3>4. QED
      BY <2>0, <3>1, <3>3 DEF Traceable
  <2>3. ASSUME NEW c \in Call, ChildReadsBig(c) PROVE Traceable'
    <3>1. /\ pc[c] # "idle" /\ UNCHANGED <<inbox, outbox, result>>
          /\ handled' = handled \union {c} /\ work' = c
      BY <2>3 DEF ChildReadsBig, Await
    <3>2. QED
      BY <2>0, <3>1 DEF Traceable, Begun
  <2>4. ASSUME NEW c \in Call, Receive(c) PROVE Traceable'
    <3>1. /\ UNCHANGED <<inbox, work, outbox, handled>>
          /\ result' = [result EXCEPT ![c] = NoLine] /\ NoLine.id = Nobody
      BY <2>4 DEF Receive, childVars, NoLine
    <3>2. QED
      BY <2>0, <3>1 DEF Traceable, TypeOK
  <2>5. ASSUME NEW c \in Call, Timeout(c) \/ restart(c) \/ restartFails(c) PROVE Traceable'
    BY <2>0, <2>5, ClosePipesTraceable
       DEF Timeout, restart, restartFails, startLocked, stopLocked
  <2>6. CASE CloseBegins \/ Close
    BY <2>0, <2>6, ClosePipesTraceable, TraceableStutter
       DEF CloseBegins, Close, stopLocked, childVars, readVars
  <2>7. ASSUME NEW c \in Call, NEW a \in Attempts, ReaderBegins(c, a) PROVE Traceable'
    BY <2>0, <2>7, TraceableStutter DEF ReaderBegins, childVars
  <2>8. ASSUME NEW c \in Call, NEW a \in Attempts,
               ReaderReads(c, a) \/ ReaderRaces(c, a) \/ ReaderEnds(c, a)
        PROVE  Traceable'
    <3>1. outbox # <<>> => /\ Head(outbox) = outbox[1] /\ 1 \in 1 .. Len(outbox)
                           /\ Head(outbox).id \in handled \union {Nobody}
      BY EmptySeq DEF TypeOK, Traceable
    <3>2. PICK line : Deliver(c, a, line) /\ line.id \in handled \union {Nobody}
      <4>1. Garbled.id = Nobody /\ EndOfFile.id = Nobody
        BY DEF Garbled, EndOfFile
      <4>2. CASE outbox # <<>> /\ Deliver(c, a, Head(outbox))
        BY <3>1, <4>2
      <4>3. CASE Deliver(c, a, Garbled) \/ Deliver(c, a, EndOfFile)
        BY <4>1, <4>3
      <4>4. QED
        BY <2>8, <4>2, <4>3 DEF ReaderReads, ReaderRaces, ReaderEnds
    <3>3. UNCHANGED <<inbox, work, handled>>
      BY <3>2 DEF Deliver
    <3>4. \A d \in Call : result'[d].id \in handled \union {Nobody}
      BY <3>2 DEF Deliver, Traceable, TypeOK
    <3>5. \/ outbox' = outbox
          \/ outbox # <<>> /\ outbox' = Tail(outbox)
      BY <2>8 DEF ReaderReads, ReaderRaces, ReaderEnds
    <3>6. \A k \in 1 .. Len(outbox') : outbox'[k].id \in handled \union {Nobody}
      <4>1. CASE outbox' = outbox
        BY <4>1 DEF Traceable
      <4>2. CASE outbox # <<>> /\ outbox' = Tail(outbox)
        <5>1. /\ Len(outbox') = Len(outbox) - 1 /\ Len(outbox) \in Nat
              /\ \A k \in 1 .. Len(outbox') : outbox'[k] = outbox[k + 1]
          BY <4>2, HeadTailProperties, LenProperties DEF TypeOK
        <5>2. \A k \in 1 .. Len(outbox') : k + 1 \in 1 .. Len(outbox)
          BY <5>1
        <5>3. QED
          BY <5>1, <5>2 DEF Traceable
      <4>3. QED
        BY <3>5, <4>1, <4>2
    <3>7. QED
      BY <2>0, <3>3, <3>4, <3>6 DEF Traceable
  <2>9. CASE ChildReads
    <3>1. /\ inbox # <<>> /\ work' = Head(inbox) /\ inbox' = Tail(inbox)
          /\ handled' = handled \union {Head(inbox)} /\ UNCHANGED <<outbox, result>>
      BY <2>9 DEF ChildReads, readVars
    <3>2. /\ Head(inbox) = inbox[1] /\ 1 \in 1 .. Len(inbox)
          /\ Len(inbox') = Len(inbox) - 1 /\ Len(inbox) \in Nat
          /\ \A k \in 1 .. Len(inbox') : inbox'[k] = inbox[k + 1]
      BY <3>1, EmptySeq, HeadTailProperties DEF TypeOK
    <3>3. \A k \in 1 .. Len(inbox') : k + 1 \in 1 .. Len(inbox)
      BY <3>2
    <3>4. QED
      BY <2>0, <3>1, <3>2, <3>3 DEF Traceable
  <2>10. CASE ChildAnswersAny \/ ChildStrays
    <3>1. PICK line \in Line : outbox' = Append(outbox, line)
                               /\ line.id \in handled \union {Nobody}
      <4>1. CASE ChildStrays
        BY <4>1 DEF ChildStrays, Stray
      <4>2. CASE ChildAnswersAny
        <5>1. PICK kind \in ErrorClass \union {"ok"} :
                work # Nobody /\ outbox' = Append(outbox, [id |-> work, kind |-> kind])
          BY <4>2 DEF ChildAnswersAny, ChildAnswers
        <5>2. work \in handled /\ work \in Call
          BY <5>1 DEF Traceable, TypeOK
        <5>3. QED
          BY <5>1, <5>2 DEF Line
      <4>3. QED
        BY <2>10, <4>1, <4>2
    <3>2. UNCHANGED <<inbox, result, handled>> /\ work' \in {work, Nobody}
      BY <2>10 DEF ChildAnswersAny, ChildAnswers, ChildStrays, readVars
    <3>3. \A k \in 1 .. Len(outbox') : outbox'[k].id \in handled \union {Nobody}
      BY <3>1, AppendProperties DEF Traceable, TypeOK
    <3>4. QED
      BY <2>0, <3>2, <3>3 DEF Traceable
  <2>11. CASE ChildExits
    <3>1. inbox' = <<>> /\ work' = Nobody /\ UNCHANGED <<outbox, result, handled>>
      BY <2>11 DEF ChildExits, readVars
    <3>2. Len(inbox') = 0
      BY <3>1
    <3>3. QED
      BY <2>0, <3>1, <3>2 DEF Traceable
  <2>12. CASE UNCHANGED vars
    BY <2>0, <2>12, TraceableStutter DEF vars, childVars, readVars
  <2>13. QED
    BY <2>1, <2>2, <2>3, <2>4, <2>5, <2>6, <2>7, <2>8, <2>9, <2>10, <2>11, <2>12, NextCases
<1>3. QED
  BY <1>1, <1>2, TypeCorrect, PTL DEF Spec

-----------------------------------------------------------------------------
(* What the callers see.                                                   *)

\* A call returns: once, with an answer to its own request or an error.
Returns(c) ==
  /\ c \in Begun /\ outcome[c] = "none"
  /\ \/ outcome' = [outcome EXCEPT ![c] = "failed"]
     \/ outcome' = [outcome EXCEPT ![c] = c] /\ c \in handled
  /\ handled' = handled /\ Begun' = Begun

\* The script takes up a request.
TakesUp(c) ==
  /\ c \in Begun
  /\ handled' = handled \union {c}
  /\ outcome' = outcome /\ Begun' = Begun

Unseen == UNCHANGED <<outcome, handled>> /\ Begun' = Begun

\* One step of the decryptor is one step to its callers, or none.
LEMMA StepsSeen ==
  ASSUME TypeOK, Traceable, Waiting, Next
  PROVE  \/ Unseen
         \/ \E c \in Call : Returns(c) \/ TakesUp(c)
         \/ \E c \in Call \ Begun :
              Begun' = Begun \union {c} /\ UNCHANGED <<outcome, handled>>
<1> USE Constants
<1>0. \A c \in Call : pc[c] # "done" => outcome[c] = "none"
  BY DEF Waiting
<1>1. ASSUME NEW c \in Call, NEW line, DoCallReturns(c, line), handled' = handled,
             pc[c] \notin {"idle", "done"}, line.kind = "ok" => line.id = c /\ c \in handled
      PROVE  Unseen \/ Returns(c)
  <2>1. c \in Begun /\ outcome[c] = "none"
    BY <1>0, <1>1 DEF Begun
  <2>2. Begun' = Begun
    BY <1>1, DoCallReturnsPlaces DEF Begun
  <2>3. outcome' = [outcome EXCEPT ![c] = outcome'[c]]
    BY <1>1, DoCallReturnsPlaces DEF DoCallReturns, CallEnds, TypeOK
  <2>4. \/ outcome'[c] = c /\ c \in handled
        \/ outcome'[c] = "failed"
        \/ outcome'[c] = outcome[c]
    BY <1>1, DoCallReturnsPlaces
  <2>5. outcome'[c] = outcome[c] => outcome' = outcome
    BY <2>3 DEF TypeOK
  <2>6. QED
    BY <1>1, <2>1, <2>2, <2>3, <2>4, <2>5 DEF Returns, Unseen
<1>2. ASSUME NEW c \in Call, Begin(c)
      PROVE  \E d \in Call \ Begun :
               Begun' = Begun \union {d} /\ UNCHANGED <<outcome, handled>>
  <2>1. c \in Call \ Begun /\ Begun' = Begun \union {c}
    BY <1>2 DEF Begin, Begun, TypeOK
  <2>2. UNCHANGED <<outcome, handled>>
    BY <1>2 DEF Begin
  <2>3. QED
    BY <2>1, <2>2
<1>3. ASSUME NEW c \in Call, Enter(c) \/ WriteFails(c) \/ Timeout(c) PROVE Unseen \/ Returns(c)
  <2>1. CASE Enter(c) /\ proc # Nobody
    BY <2>1 DEF Enter, Unseen, Begun, TypeOK
  <2>2. CASE \E line : DoCallReturns(c, line) /\ line.kind # "ok"
    BY <1>1, <1>3, <2>2 DEF Enter, WriteFails, Timeout, stopLocked, ClosePipes
  <2>3. EndOfFile.kind # "ok" /\ [id |-> Nobody, kind |-> "timeout"].kind # "ok"
    BY DEF EndOfFile
  <2>4. QED
    BY <1>3, <2>1, <2>2, <2>3 DEF Enter, WriteFails, Timeout
<1>4. ASSUME NEW c \in Call, Receive(c) PROVE Unseen \/ Returns(c)
  <2>1. /\ DoCallReturns(c, Judge(c, result[c])) /\ handled' = handled
        /\ pc[c] = "select"
    BY <1>4 DEF Receive
  <2>2. Judge(c, result[c]).kind = "ok" => Judge(c, result[c]).id = c /\ result[c].id = c
    BY DEF Judge, EndOfFile, Garbled
  <2>3. result[c].id = c => c \in handled
    BY DEF Traceable
  <2>4. QED
    BY <1>1, <2>1, <2>2, <2>3
<1>5. ASSUME NEW c \in Call, Write(c) PROVE Unseen
  BY <1>5 DEF Write, Await, Unseen, Begun, TypeOK
<1>6. ASSUME NEW c \in Call, ChildReadsBig(c) PROVE TakesUp(c)
  BY <1>6 DEF ChildReadsBig, Await, TakesUp, Begun, TypeOK
<1>7. ASSUME NEW c \in Call, restart(c) \/ restartFails(c) PROVE Unseen \/ Returns(c)
  <2>1. pc[c] \in {"restart", "revive"} /\ handled' = handled
    BY <1>7 DEF restart, restartFails, startLocked, stopLocked, ClosePipes
  <2>2. \/ pc' = [pc EXCEPT ![c] = "enter"] /\ outcome' = outcome
        \/ pc' = [pc EXCEPT ![c] = "done"] /\ outcome' = [outcome EXCEPT ![c] = "failed"]
    <3>1. CASE restartFails(c)
      BY <3>1 DEF restartFails
    <3>2. CASE restart(c) /\ pc[c] = "restart"
      BY <3>2 DEF restart, AfterRestart
    <3>3. CASE restart(c) /\ pc[c] # "restart"
      BY <3>3 DEF restart, AfterRestart
    <3>4. QED
      BY <1>7, <3>1, <3>2, <3>3
  <2>3. Begun' = Begun /\ c \in Begun
    BY <2>1, <2>2 DEF Begun, TypeOK
  <2>4. QED
    BY <1>0, <2>1, <2>2, <2>3 DEF Unseen, Returns
<1>8. CASE CloseBegins \/ Close
  BY <1>8 DEF CloseBegins, Close, stopLocked, ClosePipes, Unseen, Begun, TypeOK
<1>9. CASE ChildReads
  <2>1. /\ inbox # <<>> /\ handled' = handled \union {Head(inbox)}
        /\ UNCHANGED <<pc, outcome>>
    BY <1>9 DEF ChildReads, callVars
  <2>2. Head(inbox) \in Begun
    BY <2>1, EmptySeq DEF Traceable, TypeOK
  <2>3. QED
    BY <2>1, <2>2 DEF TakesUp, Begun
<1>10. ASSUME NEW c \in Call, NEW a \in Attempts,
              ReaderBegins(c, a) \/ ReaderReads(c, a) \/ ReaderRaces(c, a) \/ ReaderEnds(c, a)
       PROVE  Unseen
  BY <1>10 DEF ReaderBegins, ReaderReads, ReaderRaces, ReaderEnds, Deliver, callVars, Unseen,
               Begun
<1>11. CASE ChildAnswersAny \/ ChildStrays \/ ChildExits
  BY <1>11 DEF ChildAnswersAny, ChildAnswers, ChildStrays, ChildExits, callVars, Unseen, Begun
<1>12. QED
  BY <1>2, <1>3, <1>4, <1>5, <1>6, <1>7, <1>8, <1>9, <1>10, <1>11, NextCases

\* Nobody acts on another request's answer: what a call returns is its own, and
\* the script has worked on it.
THEOREM OwnAnswerCorrect == Spec => []OwnAnswer
<1>1. Init => OwnAnswer
  BY DEF Init, OwnAnswer
<1>2. TypeOK /\ Traceable /\ Waiting /\ OwnAnswer /\ [Next]_vars => OwnAnswer'
  <2> SUFFICES ASSUME TypeOK, Traceable, Waiting, OwnAnswer, [Next]_vars PROVE OwnAnswer'
    OBVIOUS
  <2>1. CASE UNCHANGED <<outcome, handled>>
    BY <2>1 DEF OwnAnswer
  <2>2. ASSUME NEW c \in Call, Returns(c) \/ TakesUp(c) PROVE OwnAnswer'
    BY <2>2 DEF OwnAnswer, Returns, TakesUp, TypeOK
  <2>3. QED
    BY <2>1, <2>2, StepsSeen DEF Unseen, vars, callVars
<1>3. QED
  BY <1>1, <1>2, TypeCorrect, TraceableCorrect, WaitingCorrect, PTL DEF Spec

\* The decryptor, its process, its pipes and its restarts included, implements the
\* calls it promises: each ends once, with its own answer or an error.
THEOREM DecryptorImplementsCalls == Spec => ImplementsScriptCalls
<1> USE Constants
<1>1. Init => Calls!InitSC
  BY DEF Init, Calls!InitSC, Seen
<1>2. TypeOK /\ OwnAnswer /\ Traceable /\ Waiting /\ [Next]_vars
      => [Calls!NextSC]_(Calls!scVars)
  <2> SUFFICES ASSUME TypeOK, OwnAnswer, Traceable, Waiting, [Next]_vars
               PROVE  Calls!NextSC \/ UNCHANGED Calls!scVars
    OBVIOUS
  <2>0. Begun = {c \in Call : pc[c] # "idle"} /\ Begun' = {c \in Call : pc'[c] # "idle"}
    BY DEF Begun
  <2>1. CASE Unseen
    BY <2>0, <2>1 DEF Unseen, Seen, Calls!scVars
  <2>2. ASSUME NEW c \in Call \ Begun,
               Begun' = Begun \union {c}, UNCHANGED <<outcome, handled>>
        PROVE  Calls!NextSC
    <3>1. Seen' = Seen
      BY <2>2 DEF Seen
    <3>2. Calls!Ask(c)
      BY <2>0, <2>2, <3>1 DEF Calls!Ask
    <3>3. QED
      BY <3>2 DEF Calls!NextSC
  <2>3. ASSUME NEW c \in Call, TakesUp(c) PROVE Calls!NextSC
    <3>1. Seen' = Seen
      BY <2>3 DEF TakesUp, Seen
    <3>2. Calls!Handle(c)
      BY <2>0, <2>3, <3>1 DEF TakesUp, Calls!Handle
    <3>3. QED
      BY <3>2 DEF Calls!NextSC
  <2>4. ASSUME NEW c \in Call, Returns(c) PROVE Calls!NextSC
    <3>1. Seen[c] = "none" /\ c \in Begun /\ handled' = handled /\ Begun' = Begun
      BY <2>4 DEF Returns, Seen
    <3>2. CASE outcome' = [outcome EXCEPT ![c] = "failed"]
      <4>1. Seen' = [Seen EXCEPT ![c] = "failed"]
        BY <3>2 DEF Seen, TypeOK
      <4>2. Calls!Return(c, "failed")
        BY <2>0, <3>1, <4>1 DEF Calls!Return
      <4>3. QED
        BY <4>2 DEF Calls!NextSC, Calls!Outcomes
    <3>3. CASE outcome' = [outcome EXCEPT ![c] = c] /\ c \in handled
      <4>1. Seen' = [Seen EXCEPT ![c] = "answered"]
        BY <3>3 DEF Seen, TypeOK
      <4>2. Calls!Return(c, "answered")
        BY <2>0, <3>1, <3>3, <4>1 DEF Calls!Return
      <4>3. QED
        BY <4>2 DEF Calls!NextSC, Calls!Outcomes
    <3>4. QED
      BY <2>4, <3>2, <3>3 DEF Returns
  <2>5. UNCHANGED vars => Unseen
    BY DEF vars, callVars, Unseen, Begun
  <2>6. QED
    BY <2>1, <2>2, <2>3, <2>4, <2>5, StepsSeen
<1>3. QED
  BY <1>1, <1>2, TypeCorrect, TraceableCorrect, WaitingCorrect, OwnAnswerCorrect, PTL
     DEF Spec, ImplementsScriptCalls, Calls!SpecSC

-----------------------------------------------------------------------------
(* The protocol in step.                                                   *)

Awaited(c) == pc[c] = "select" /\ result[c] = NoLine

\* How many requests and answers a live process may have between it and its
\* callers: the lines it has had too many, and the one a call waits for.
SomeoneWaits == \E c \in Call : Awaited(c)
Allowed      == IF SomeoneWaits THEN excess + 1 ELSE excess

Lockstep == alive => Pending <= Allowed

\* A level p below a mark e, or one above it, moves with the mark.
LEMMA Levels ==
  ASSUME NEW p \in Nat, NEW q \in Nat, NEW e \in Nat, NEW f \in Nat
  PROVE  /\ q - f <= p - e /\ p <= e => q <= f /\ q <= f + 1
         /\ q - f <= p - e /\ p <= e + 1 => q <= f + 1
         /\ q - f = p - e - 1 /\ p <= e + 1 => q <= f
         /\ p <= e => p <= e + 1
OBVIOUS

\* Where the calls that wait go on waiting, it is enough that what is in the pipes
\* grows by no more than the lines too many.
LEMMA LockstepKept ==
  ASSUME TypeOK, TypeOK', Lockstep, alive' => alive,
         Pending' - excess' <= Pending - excess,
         \A c \in Call : Awaited(c) => Awaited(c)'
  PROVE  Lockstep'
<1>1. Pending \in Nat /\ Pending' \in Nat /\ excess \in Nat /\ excess' \in Nat
  BY LenProperties DEF Pending, TypeOK
<1>2. SomeoneWaits => SomeoneWaits'
  BY DEF SomeoneWaits
<1>3. alive' => Pending <= Allowed
  BY DEF Lockstep
<1>4. Pending <= Allowed => Pending' <= Allowed'
  <2>0. Pending' - excess' <= Pending - excess
    OBVIOUS
  <2>1. CASE SomeoneWaits
    BY <1>1, <1>2, <2>0, <2>1, Levels DEF Allowed
  <2>2. CASE ~SomeoneWaits
    BY <1>1, <2>0, <2>2, Levels DEF Allowed
  <2>3. QED
    BY <2>1, <2>2
<1>5. QED
  BY <1>3, <1>4 DEF Lockstep

\* No process gets ahead of its callers but by a line too many: what a call finds
\* in the pipes is that and nothing else, whatever the calls before it left undone.
LEMMA LockstepCorrect == Spec => []Lockstep
<1> USE Constants
<1>1. Init => Lockstep
  BY DEF Init, Lockstep, Pending, Allowed
<1>2. TypeOK /\ TypeOK' /\ Serial /\ Waiting /\ Lockstep /\ Next => Lockstep'
  <2> SUFFICES ASSUME TypeOK, TypeOK', Serial, Waiting, Lockstep, Next PROVE Lockstep'
    OBVIOUS
  <2>0. /\ excess \in Nat /\ excess' \in Nat
        /\ Pending \in Nat /\ Pending' \in Nat
        /\ Len(inbox) \in Nat /\ Len(outbox) \in Nat
    BY LenProperties DEF Pending, TypeOK
  <2>1. ASSUME NEW c \in Call, pc[c] = "write" \/ (pc[c] = "select" /\ result[c] # NoLine),
               alive
        PROVE  Pending <= excess
    <3>1. \A d \in Call : pc[d] = "select" => d = c
      BY <2>1 DEF Serial, Underway
    <3>2. ~SomeoneWaits
      BY <2>1, <3>1 DEF Awaited, SomeoneWaits
    <3>3. QED
      BY <2>0, <2>1, <3>2 DEF Lockstep, Allowed
  <2>2. ASSUME NEW c \in Call, Begin(c) \/ Enter(c) PROVE Lockstep'
    <3>1. UNCHANGED <<inbox, work, outbox, excess, alive, result>> /\ pc[c] # "select"
      BY <2>2 DEF Begin, Enter, childVars, readVars
    <3>2. \A d \in Call : d # c => pc'[d] = pc[d]
      <4>1. CASE Begin(c)
        BY <4>1 DEF Begin, TypeOK
      <4>2. CASE Enter(c) /\ proc = Nobody
        BY <4>2, DoCallReturnsPlaces DEF Enter
      <4>3. CASE Enter(c) /\ proc # Nobody
        BY <4>3 DEF Enter, TypeOK
      <4>4. QED
        BY <2>2, <4>1, <4>2, <4>3
    <3>3. QED
      BY <2>0, <3>1, <3>2, LockstepKept DEF Awaited, Pending
  <2>3. ASSUME NEW c \in Call, Write(c) \/ ChildReadsBig(c) PROVE Lockstep'
    <3>1. /\ Await(c) /\ pc[c] = "write" /\ alive /\ UNCHANGED <<alive, outbox, excess>>
          /\ \/ inbox' = Append(inbox, c) /\ work' = work
             \/ inbox' = inbox /\ work = Nobody /\ work' = c
      BY <2>3 DEF Write, ChildReadsBig
    <3>2. Awaited(c)'
      BY <3>1 DEF Await, Awaited, Waiting, TypeOK
    <3>3. Pending <= excess
      BY <2>1, <3>1
    <3>4. Pending' = Pending + 1
      <4>1. inbox \in Seq(Call)
        BY DEF TypeOK
      <4>2. Len(Append(inbox, c)) = Len(inbox) + 1
        BY <4>1, AppendProperties
      <4>3. QED
        BY <2>0, <3>1, <4>2 DEF Pending
    <3>5. Allowed' = excess + 1
      BY <3>1, <3>2 DEF Allowed, SomeoneWaits
    <3>6. QED
      BY <2>0, <3>3, <3>4, <3>5 DEF Lockstep
  <2>4. ASSUME NEW c \in Call, Receive(c) PROVE Lockstep'
    <3>1. pc[c] = "select" /\ result[c] # NoLine /\ UNCHANGED childVars
      BY <2>4 DEF Receive
    <3>2. Pending' = Pending /\ excess' = excess /\ alive' = alive
      BY <3>1 DEF Pending, childVars
    <3>3. alive => Pending' <= excess'
      BY <2>1, <3>1, <3>2
    <3>4. CASE SomeoneWaits'
      BY <2>0, <3>2, <3>3, <3>4 DEF Lockstep, Allowed
    <3>5. CASE ~SomeoneWaits'
      BY <2>0, <3>2, <3>3, <3>5 DEF Lockstep, Allowed
    <3>6. QED
      BY <3>4, <3>5
  <2>5. ASSUME NEW c \in Call, WriteFails(c) \/ Timeout(c) \/ restartFails(c) PROVE ~alive'
    BY <2>5 DEF WriteFails, Timeout, restartFails, stopLocked, childVars
  <2>6. ASSUME NEW c \in Call, restart(c) PROVE Lockstep'
    <3>1. Pending' = 0 /\ excess' = 0
      BY <2>6 DEF restart, startLocked, ClosePipes, Pending
    <3>2. QED
      BY <3>1 DEF Lockstep, Allowed
  <2>7. ASSUME NEW c \in Call, NEW a \in Attempts, ReaderBegins(c, a) PROVE Lockstep'
    BY <2>0, <2>7, LockstepKept DEF ReaderBegins, childVars, callVars, Awaited, Pending
  <2>8. ASSUME NEW c \in Call, NEW a \in Attempts, ReaderReads(c, a) \/ ReaderRaces(c, a)
        PROVE  Lockstep'
    <3>1. /\ outbox # <<>> /\ UNCHANGED <<inbox, work, alive, pc>>
          /\ \/ excess' = excess + 1 /\ outbox' = outbox
             \/ excess' = excess /\ outbox' = Tail(outbox)
          /\ \E line : result' \in {[result EXCEPT ![c] = line], result}
      <4>1. CASE ReaderReads(c, a)
        BY <4>1 DEF ReaderReads, Deliver, callVars
      <4>2. CASE ReaderRaces(c, a)
        BY <4>2 DEF ReaderRaces, Deliver, callVars
      <4>3. QED
        BY <2>8, <4>1, <4>2
    <3>2. Pending' - excess' = Pending - excess - 1
      <4>1. CASE excess' = excess + 1 /\ outbox' = outbox
        BY <2>0, <3>1, <4>1 DEF Pending
      <4>2. CASE excess' = excess /\ outbox' = Tail(outbox)
        <5>1. outbox \in Seq(Line)
          BY DEF TypeOK
        <5>2. Len(Tail(outbox)) = Len(outbox) - 1
          BY <3>1, <5>1, HeadTailProperties
        <5>3. QED
          BY <2>0, <3>1, <4>2, <5>2 DEF Pending
      <4>3. QED
        BY <3>1, <4>1, <4>2
    <3>3. Pending' <= excess' => Pending' <= Allowed'
      BY <2>0, Levels DEF Allowed
    <3>4. Pending <= Allowed => Pending <= excess + 1
      BY <2>0, Levels DEF Allowed
    <3>5. Pending <= excess + 1 => Pending' <= excess'
      BY <2>0, <3>2, Levels
    <3>6. alive' = alive
      BY <3>1
    <3>7. QED
      BY <3>3, <3>4, <3>5, <3>6 DEF Lockstep
  <2>9. ASSUME NEW c \in Call, NEW a \in Attempts, ReaderEnds(c, a) PROVE Lockstep'
    <3>1. Deliver(c, a, EndOfFile) /\ UNCHANGED <<outbox, excess>>
      BY <2>9 DEF ReaderEnds
    <3>2. UNCHANGED <<inbox, work, alive, pc>>
      BY <3>1 DEF Deliver, callVars
    <3>3. CASE reader[c][a] = "orphan"
      <4>1. ~(pc[c] = "select" /\ attempt[c] = a)
        BY <3>3 DEF Waiting
      <4>2. result' = result
        BY <3>1, <4>1 DEF Deliver
      <4>3. QED
        BY <2>0, <3>1, <3>2, <4>2, LockstepKept DEF Awaited, Pending
    <3>4. CASE ~alive
      BY <3>2, <3>4 DEF Lockstep
    <3>5. QED
      BY <2>9, <3>3, <3>4 DEF ReaderEnds
  <2>10. CASE CloseBegins
    BY <2>0, <2>10, LockstepKept DEF CloseBegins, childVars, readVars, Awaited, TypeOK,
       Pending
  <2>11. CASE Close
    BY <2>11 DEF Close, stopLocked, Lockstep
  <2>12. CASE ChildReads
    <3>1. /\ inbox # <<>> /\ work = Nobody /\ work' = Head(inbox) /\ inbox' = Tail(inbox)
          /\ UNCHANGED <<pc, result, alive, outbox, excess>>
      BY <2>12 DEF ChildReads, callVars, readVars
    <3>2. inbox \in Seq(Call)
      BY DEF TypeOK
    <3>3. Len(Tail(inbox)) = Len(inbox) - 1
      BY <3>1, <3>2, HeadTailProperties
    <3>4. Pending' = Pending
      <4>1. work' # Nobody
        BY <3>1, <3>2, HeadTailProperties
      <4>2. QED
        BY <2>0, <3>1, <3>3, <4>1 DEF Pending
    <3>5. QED
      BY <2>0, <3>1, <3>4, LockstepKept DEF Awaited
  <2>13. CASE ChildAnswersAny
    <3>1. PICK kind : outbox' = Append(outbox, [id |-> work, kind |-> kind])
      BY <2>13 DEF ChildAnswersAny, ChildAnswers
    <3>2. work # Nobody /\ work' = Nobody /\ UNCHANGED <<pc, result, alive, inbox, excess>>
      BY <2>13 DEF ChildAnswersAny, ChildAnswers, callVars, readVars
    <3>3. Len(outbox') = Len(outbox) + 1
      BY <3>1 DEF TypeOK
    <3>4. Pending' = Pending
      BY <2>0, <3>2, <3>3 DEF Pending
    <3>5. QED
      BY <2>0, <3>2, <3>4, LockstepKept DEF Awaited
  <2>14. CASE ChildStrays
    <3>1. /\ outbox' = Append(outbox, Stray) /\ excess' = excess + 1
          /\ UNCHANGED <<pc, result, alive, inbox, work>>
      BY <2>14 DEF ChildStrays, callVars, readVars
    <3>2. Len(outbox') = Len(outbox) + 1
      <4>1. outbox \in Seq(Line) /\ Stray \in Line
        BY DEF TypeOK
      <4>2. QED
        BY <3>1, <4>1, AppendProperties
    <3>3. inbox' = inbox /\ work' = work
      BY <3>1
    <3>4. Pending' = Pending + 1
      <4>1. CASE work = Nobody
        BY <2>0, <3>2, <3>3, <4>1 DEF Pending
      <4>2. CASE work # Nobody
        BY <2>0, <3>2, <3>3, <4>2 DEF Pending
      <4>3. QED
        BY <4>1, <4>2
    <3>5. excess' = excess + 1
      BY <3>1
    <3>6. Pending' - excess' <= Pending - excess
      BY <2>0, <3>4, <3>5
    <3>7. UNCHANGED <<pc, result, alive>>
      BY <3>1
    <3>8. QED
      BY <3>6, <3>7, LockstepKept DEF Awaited
  <2>15. CASE ChildExits
    BY <2>15 DEF ChildExits, Lockstep
  <2>16. QED
    BY <2>2, <2>3, <2>4, <2>5, <2>6, <2>7, <2>8, <2>9, <2>10, <2>11, <2>12, <2>13,
       <2>14, <2>15, NextCases DEF Lockstep
<1>3. UNCHANGED vars /\ Lockstep => Lockstep'
  BY DEF vars, childVars, callVars, readVars, Awaited, SomeoneWaits, Allowed, Lockstep,
         Pending
<1>4. QED
  BY <1>1, <1>2, <1>3, TypeCorrect, SerialCorrect, WaitingCorrect, PTL DEF Spec

\* Whenever callMu is free a live process is ahead by the lines too many and by
\* nothing else, after timeouts, restarts and with the readers left behind.
THEOREM InStepCorrect == Spec => []InStep
<1>1. TypeOK /\ Serial /\ Lockstep => InStep
  <2> SUFFICES ASSUME TypeOK, Serial, Lockstep, Free, alive PROVE Pending <= excess
    BY DEF InStep
  <2>1. ~SomeoneWaits
    BY Constants DEF Free, Serial, Underway, Awaited, SomeoneWaits
  <2>2. QED
    BY <2>1 DEF Lockstep, Allowed, TypeOK
<1>2. QED
  BY <1>1, TypeCorrect, SerialCorrect, LockstepCorrect, PTL
=============================================================================
