-------------------------- MODULE ExternalDecryptor --------------------------
(***************************************************************************)
(* The external decryptor (crypt/external.go): any number of goroutines     *)
(* call the hooks of one script that runs as a child process and answers    *)
(* one line of JSON on stdout for each line of JSON on stdin.               *)
(*                                                                         *)
(* A step is what a goroutine does between two points where another one, or *)
(* the child, may see or change the shared state.  d.procMu is only ever    *)
(* taken with d.callMu held (newExternalDecryptor aside), so callMu alone   *)
(* is modelled.  The goroutine that reads an answer reads d.stdout without  *)
(* any lock, and outlives the call that started it after a timeout.         *)
(*                                                                         *)
(* The script is external: it may be slow, hang, exit, or write lines that  *)
(* nobody asked for.  Payloads are left out; an error is the class that     *)
(* isTimeoutErr and isDeadProcessErr sort its text into.                    *)
(***************************************************************************)
EXTENDS Integers, Sequences, FiniteSets

CONSTANTS Call,        \* calls of a hook; a call is its request's id
          BigRequest,  \* the requests whose line exceeds the pipe's buffer
          Closer,      \* the goroutine that calls Close
          Nobody,      \* holds no lock, made no request, started nothing
          Setup,       \* newExternalDecryptor, which started the first process
          MaxStrays    \* how many lines nobody asked for come out of stdout

ASSUME ExternalAssumption ==
  /\ IsFiniteSet(Call) /\ Call # {}
  /\ BigRequest \subseteq Call
  /\ {"none", "failed"} \intersect Call = {}
  /\ Closer \notin Call /\ Nobody \notin Call \union {Closer}
  /\ Setup \notin Call \union {Closer, Nobody}
  /\ MaxStrays \in Nat

VARIABLES
  callMu,     \* who holds d.callMu across steps, or Nobody
  proc,       \* who started the process behind d.stdin and d.stdout, or Nobody
  alive,      \* the process has not exited
  inbox,      \* requests in the pipe to the process
  work,       \* the request the process works on, or Nobody
  outbox,     \* lines in the pipe from the process and in the bufio.Reader
  strays,     \* how many lines the script has written that nobody asked for
  excess,     \* history: lines of this process beyond one for each request, be
              \* it that the script wrote or that two readers left them
  pc,         \* the place of each call and of Close
  attempt,    \* which doCall of the call this is
  reader,     \* the reading goroutine of each call and attempt
  result,     \* what is in the channel that the call waits for
  outcome,    \* what the call returns: the id of an answer, or "failed"
  panicked,   \* a nil d.stdout was read from: the program is down
  handled     \* history: the requests the script has worked on

childVars == <<proc, alive, inbox, work, outbox, strays, excess>>
callVars  == <<callMu, pc, attempt, outcome>>
readVars  == <<reader, result, panicked>>
vars      == <<childVars, callVars, readVars, handled>>

\* "ok" is an answer the caller acts on, "not implemented" among them.
ErrorClass == {"error", "timeout", "dead"}
Line       == [id : Call \union {Nobody}, kind : ErrorClass \union {"ok"}]
Stray      == [id |-> Nobody, kind |-> "ok"]
Garbled    == [id |-> Nobody, kind |-> "error"]
EndOfFile  == [id |-> Nobody, kind |-> "dead"]
NoLine     == [id |-> Nobody, kind |-> "none"]

Attempts == 1 .. 2
Free == callMu = Nobody

Init ==
  /\ callMu = Nobody
  /\ proc = Setup /\ alive = TRUE
  /\ inbox = <<>> /\ work = Nobody /\ outbox = <<>> /\ strays = 0 /\ excess = 0
  /\ pc = [p \in Call \union {Closer} |-> "idle"]
  /\ attempt = [c \in Call |-> 1]
  /\ reader = [c \in Call |-> [a \in Attempts |-> "none"]]
  /\ result = [c \in Call |-> NoLine]
  /\ outcome = [c \in Call |-> "none"]
  /\ panicked = FALSE
  /\ handled = {}

-----------------------------------------------------------------------------
(* The process.  Killing it and waiting for it closes its pipes with        *)
(* whatever is in them, under the readers that are still there.             *)

ClosePipes ==
  /\ inbox' = <<>> /\ work' = Nobody /\ outbox' = <<>> /\ excess' = 0
  /\ reader' = [c \in Call |-> [a \in Attempts |->
                  IF reader[c][a] = "reading" THEN "orphan" ELSE reader[c][a]]]
  /\ UNCHANGED <<strays, result, panicked, handled>>

stopLocked == proc' = Nobody /\ alive' = FALSE /\ ClosePipes

\* stopLocked and startLocked in one go, as restart calls them.
startLocked(c) == proc' = c /\ alive' = TRUE /\ ClosePipes

-----------------------------------------------------------------------------
(* doCall.                                                                 *)

AfterDoCall_RetryForEver(c, line) ==
  CASE line.kind = "timeout" -> "restart"
    [] line.kind = "dead" /\ attempt[c] = 1 -> "revive"
    [] OTHER -> "done"

\* What call makes of the error: only the first attempt is followed by a
\* restart, and only after a timeout by a second attempt.
AfterDoCall(c, line) ==
  CASE attempt[c] = 1 /\ line.kind = "timeout" -> "restart"
    [] attempt[c] = 1 /\ line.kind = "dead" -> "revive"
    [] OTHER -> "done"

CallEnds(c, line) ==
  LET next == AfterDoCall(c, line)
  IN /\ pc' = [pc EXCEPT ![c] = next]
     /\ outcome' = [outcome EXCEPT ![c] =
                      IF line.kind = "ok" THEN line.id
                      ELSE IF next = "done" THEN "failed" ELSE @]
     /\ UNCHANGED attempt

\* doCall returns, through its deferred Unlock.
DoCallReturns(c, line) == CallEnds(c, line) /\ callMu' = Nobody

\* ProcessKey, DecryptSegment, DecryptFull: the next id and a request.
Begin(c) ==
  /\ pc[c] = "idle"
  /\ pc' = [pc EXCEPT ![c] = "enter"]
  /\ UNCHANGED <<childVars, callMu, attempt, outcome, readVars, handled>>

Enter(c) ==
  /\ pc[c] = "enter" /\ Free
  /\ IF proc = Nobody
     THEN DoCallReturns(c, EndOfFile)
     ELSE /\ callMu' = c
          /\ pc' = [pc EXCEPT ![c] = "write"]
          /\ UNCHANGED <<attempt, outcome>>
  /\ UNCHANGED <<childVars, readVars, handled>>

\* The request is in the pipe: the goroutine that will read the answer is on
\* its way.
Await(c) ==
  /\ pc' = [pc EXCEPT ![c] = "select"]
  /\ reader' = [reader EXCEPT ![c][attempt[c]] = "spawned"]
  /\ UNCHANGED <<callMu, attempt, outcome, result, panicked>>

Write(c) ==
  /\ pc[c] = "write" /\ alive /\ c \notin BigRequest
  /\ inbox' = Append(inbox, c)
  /\ Await(c)
  /\ UNCHANGED <<proc, alive, work, outbox, strays, excess, handled>>

WriteFails_KeepsLock(c) ==
  /\ pc[c] = "write" /\ ~alive
  /\ CallEnds(c, EndOfFile)
  /\ UNCHANGED <<callMu, childVars, readVars, handled>>

\* The process is gone: a broken pipe.
WriteFails(c) ==
  /\ pc[c] = "write" /\ ~alive
  /\ DoCallReturns(c, EndOfFile)
  /\ UNCHANGED <<childVars, readVars, handled>>

\* What doCall makes of the line: the id must be its own.
Judge_AnyId(c, line) == line

Judge(c, line) ==
  IF line = EndOfFile \/ line.id = c THEN line ELSE Garbled

Receive(c) ==
  /\ pc[c] = "select" /\ result[c] # NoLine
  /\ DoCallReturns(c, Judge(c, result[c]))
  /\ result' = [result EXCEPT ![c] = NoLine]
  /\ UNCHANGED <<childVars, reader, panicked, handled>>

Timeout_LeavesProcess(c) ==
  /\ pc[c] = "select" /\ result[c] = NoLine
  /\ DoCallReturns(c, Garbled)
  /\ UNCHANGED <<childVars, readVars, handled>>

\* The deadline passes, perhaps with the answer on its way: the process is
\* killed, for its answer would be taken for the next request's.  (With the
\* answer in the channel the select may go either way; a timeout then is one
\* that comes just before the answer is put there.)
Timeout(c) ==
  /\ pc[c] = "select" /\ result[c] = NoLine
  /\ stopLocked
  /\ DoCallReturns(c, [id |-> Nobody, kind |-> "timeout"])

-----------------------------------------------------------------------------
(* The goroutine that reads the answer.                                    *)

\* It begins, late perhaps: it takes d.stdout as it is by then.
ReaderBegins(c, a) ==
  /\ reader[c][a] = "spawned"
  /\ IF proc = Nobody
     THEN panicked' = TRUE /\ UNCHANGED reader
     ELSE /\ reader' = [reader EXCEPT ![c][a] = "reading"]
          /\ UNCHANGED panicked
  /\ UNCHANGED <<childVars, callVars, result, handled>>

\* A result that the call no longer waits for stays in a channel nobody reads.
Deliver(c, a, line) ==
  /\ reader' = [reader EXCEPT ![c][a] = "none"]
  /\ result' = IF pc[c] = "select" /\ attempt[c] = a
               THEN [result EXCEPT ![c] = line] ELSE result
  /\ UNCHANGED <<callVars, panicked, handled, proc, alive, inbox, work>>

ReaderReads(c, a) ==
  /\ reader[c][a] = "reading" /\ outbox # <<>>
  /\ Deliver(c, a, Head(outbox))
  /\ outbox' = Tail(outbox)
  /\ UNCHANGED <<strays, excess>>

\* Two goroutines in one bufio.Reader, which is a data race: a line may come
\* out damaged, or be read and left behind.
ReaderRaces(c, a) ==
  /\ reader[c][a] = "reading" /\ outbox # <<>>
  /\ \E other \in Call, b \in Attempts :
       <<other, b>> # <<c, a>> /\ reader[other][b] = "reading"
  /\ \/ Deliver(c, a, Garbled) /\ outbox' = Tail(outbox) /\ UNCHANGED excess
     \/ Deliver(c, a, Head(outbox)) /\ UNCHANGED outbox /\ excess' = excess + 1
  /\ UNCHANGED strays

ReaderEnds(c, a) ==
  /\ \/ reader[c][a] = "orphan"
     \/ reader[c][a] = "reading" /\ ~alive /\ outbox = <<>>
  /\ Deliver(c, a, EndOfFile)
  /\ UNCHANGED <<outbox, strays, excess>>

-----------------------------------------------------------------------------
(* call: a restart after a timeout, with one more attempt, or after the     *)
(* death of the process, without.  Close, at any moment.                    *)

AfterRestart(c) ==
  IF pc[c] = "restart"
  THEN /\ attempt' = [attempt EXCEPT ![c] = @ + 1]
       /\ pc' = [pc EXCEPT ![c] = "enter"]
       /\ UNCHANGED outcome
  ELSE /\ pc' = [pc EXCEPT ![c] = "done"]
       /\ outcome' = [outcome EXCEPT ![c] = "failed"]
       /\ UNCHANGED attempt

restart_Unlocked(c) ==
  /\ pc[c] \in {"restart", "revive"}
  /\ startLocked(c) /\ AfterRestart(c)
  /\ UNCHANGED callMu

restart(c) ==
  /\ pc[c] \in {"restart", "revive"} /\ Free
  /\ startLocked(c) /\ AfterRestart(c)
  /\ UNCHANGED callMu

\* The script cannot be started again: the first error is returned.
restartFails(c) ==
  /\ pc[c] \in {"restart", "revive"} /\ Free
  /\ stopLocked
  /\ pc' = [pc EXCEPT ![c] = "done"]
  /\ outcome' = [outcome EXCEPT ![c] = "failed"]
  /\ UNCHANGED <<callMu, attempt>>

CloseBegins ==
  /\ pc[Closer] = "idle"
  /\ pc' = [pc EXCEPT ![Closer] = "enter"]
  /\ UNCHANGED <<childVars, callMu, attempt, outcome, readVars, handled>>

Close ==
  /\ pc[Closer] = "enter" /\ Free
  /\ stopLocked
  /\ pc' = [pc EXCEPT ![Closer] = "done"]
  /\ UNCHANGED <<callMu, attempt, outcome>>

-----------------------------------------------------------------------------
(* The script.                                                             *)

ChildReads ==
  /\ alive /\ work = Nobody /\ inbox # <<>>
  /\ work' = Head(inbox)
  /\ inbox' = Tail(inbox)
  /\ handled' = handled \union {Head(inbox)}
  /\ UNCHANGED <<callVars, readVars, proc, alive, outbox, strays, excess>>

\* A line beyond the buffer of the pipe is written while the process reads it.
\* The deadline of the call is not looked at before that.
ChildReadsBig(c) ==
  /\ alive /\ work = Nobody /\ inbox = <<>>
  /\ pc[c] = "write" /\ c \in BigRequest
  /\ work' = c
  /\ handled' = handled \union {c}
  /\ Await(c)
  /\ UNCHANGED <<proc, alive, inbox, outbox, strays, excess>>

ChildAnswers(kind) ==
  /\ alive /\ work # Nobody
  /\ outbox' = Append(outbox, [id |-> work, kind |-> kind])
  /\ work' = Nobody
  /\ UNCHANGED <<callVars, readVars, proc, alive, inbox, strays, excess, handled>>

\* A line of debugging output, or an answer with an id nobody uses.
ChildStrays ==
  /\ alive /\ strays < MaxStrays
  /\ outbox' = Append(outbox, Stray)
  /\ strays' = strays + 1 /\ excess' = excess + 1
  /\ UNCHANGED <<callVars, readVars, proc, alive, inbox, work, handled>>

ChildExits ==
  /\ alive
  /\ alive' = FALSE
  /\ inbox' = <<>> /\ work' = Nobody
  /\ UNCHANGED <<callVars, readVars, proc, outbox, strays, excess, handled>>

-----------------------------------------------------------------------------

doCall(c) ==
  Enter(c) \/ Write(c) \/ WriteFails(c) \/ Receive(c) \/ Timeout(c)

readExternalLine(c, a) ==
  \/ ReaderBegins(c, a) \/ ReaderReads(c, a)
  \/ ReaderRaces(c, a) \/ ReaderEnds(c, a)

callSteps(c) ==
  \/ doCall(c) \/ restart(c) \/ restartFails(c)
  \/ \E a \in Attempts : readExternalLine(c, a)

ChildReadsOn == ChildReads \/ \E c \in Call : ChildReadsBig(c)
ChildAnswersAny == \E kind \in ErrorClass \union {"ok"} : ChildAnswers(kind)

Next ==
  /\ ~panicked
  /\ \/ \E c \in Call : Begin(c) \/ callSteps(c)
     \/ CloseBegins \/ Close
     \/ ChildReadsOn \/ ChildAnswersAny \/ ChildStrays \/ ChildExits

Spec == Init /\ [][Next]_vars

\* The Go scheduler runs what can run, timers fire, and a mutex that stays free
\* is taken.  Who begins a call, or closes, is free.
CallersFair ==
  /\ \A c \in Call : WF_vars(~panicked /\ callSteps(c))
  /\ WF_vars(~panicked /\ Close)

\* A script that always goes back to its stdin, as the loop of
\* scripts/README.md does, after any time and whatever it has answered.
ScriptReadsOn == WF_vars(~panicked /\ (ChildReadsOn \/ ChildAnswersAny))

HangSpec == Spec /\ CallersFair
FairSpec == HangSpec /\ ScriptReadsOn

-----------------------------------------------------------------------------
(* Properties.                                                             *)

\* The types.
TypeOK ==
  /\ callMu \in Call \union {Nobody}
  /\ proc \in Call \union {Nobody, Setup} /\ alive \in BOOLEAN
  /\ inbox \in Seq(Call) /\ work \in Call \union {Nobody}
  /\ outbox \in Seq(Line) /\ strays \in 0 .. MaxStrays /\ excess \in Nat
  /\ pc \in [Call \union {Closer} ->
       {"idle", "enter", "write", "select", "restart", "revive", "done"}]
  /\ attempt \in [Call -> Attempts]
  /\ reader \in [Call -> [Attempts -> {"none", "spawned", "reading", "orphan"}]]
  /\ result \in [Call -> Line \union {NoLine}]
  /\ outcome \in [Call -> Call \union {Nobody, "none", "failed"}]
  /\ panicked \in BOOLEAN
  /\ handled \subseteq Call

\* A caller acts on an answer only if the script gave it to that very request:
\* whatever was left in the pipe by a call that failed half-way, and whatever
\* the script writes unasked, decrypts nobody else's segment.
OwnAnswer ==
  \A c \in Call : outcome[c] \in {"none", "failed"} \/ (outcome[c] = c /\ c \in handled)

\* Requests and answers between the callers and the script.
Pending == Len(inbox) + (IF work = Nobody THEN 0 ELSE 1) + Len(outbox)

\* Whenever callMu is free, a live process has no more requests and answers left
\* in its pipes than it has had lines too many: lines that the script wrote unasked,
\* and lines that a race of two readers has left behind, each of which makes the
\* calls that follow take the answer of the one before.  Without either the
\* protocol is in step, whatever timeouts, deaths and refusals there were.
InStep == Free /\ alive => Pending <= excess

Underway == {c \in Call : pc[c] \in {"write", "select"}}

\* A process is never stopped or replaced under a call that has its request
\* underway, unless by that call itself: restarts wait for each other's calls.
KillSparesOthers ==
  [][proc' # proc => \A c \in Underway : pc'[c] # pc[c]]_vars

\* Each call returns, whether the script exits, is slow, or strays, and so does
\* Close, which waits for the call that holds callMu.
CallsReturn ==
  \A p \in Call \union {Closer} : pc[p] = "enter" ~> (pc[p] = "done" \/ panicked)

-----------------------------------------------------------------------------
(* What the callers see, under the mapping that forgets the process.        *)

Seen ==
  [c \in Call |-> IF outcome[c] \in {"none", "failed"} THEN outcome[c]
                  ELSE IF outcome[c] = c THEN "answered" ELSE "mixed up"]

Calls == INSTANCE ScriptCalls WITH outcome <- Seen,
                                   asked <- {c \in Call : pc[c] # "idle"}

\* The decryptor implements the calls it promises.
ImplementsScriptCalls == Calls!SpecSC
=============================================================================
