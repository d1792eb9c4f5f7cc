------------------------------ MODULE SegmentJob ------------------------------
(***************************************************************************)
(* What Downloader.Start promises its caller, without queue, goroutines or *)
(* files: every segment is settled once, the output is delivered only when *)
(* no segment was given up, and nothing moves after the call has returned. *)
(***************************************************************************)
EXTENDS Integers

CONSTANT Segment

VARIABLES status,     \* of each segment: "pending", "done" or "given_up"
          delivered,  \* every segment has been written to the output, in order
          outcome     \* what the caller has been told

jobVars == <<status, delivered, outcome>>

AllDone == \A s \in Segment : status[s] = "done"

JobTypeOK ==
  /\ status \in [Segment -> {"pending", "done", "given_up"}]
  /\ delivered \in BOOLEAN
  /\ outcome \in {"none", "ok", "cancelled", "gave_up", "error"}

\* Segments of an interrupted earlier call may be done already.
JobInit ==
  /\ status \in [Segment -> {"pending", "done"}]
  /\ delivered = (Segment = {})
  /\ outcome = "none"

Settle(s) ==
  /\ outcome = "none" /\ ~delivered
  /\ status[s] = "pending"
  /\ \E v \in {"done", "given_up"} : status' = [status EXCEPT ![s] = v]
  /\ UNCHANGED <<delivered, outcome>>

Deliver ==
  /\ outcome = "none" /\ AllDone
  /\ delivered' = TRUE
  /\ UNCHANGED <<status, outcome>>

\* Success needs the output; giving up needs a segment that was given up and
\* no segment left to try; other errors only come from building the output.
Answer ==
  /\ outcome = "none"
  /\ \/ delivered /\ outcome' = "ok"
     \/ outcome' = "cancelled"
     \/ AllDone /\ outcome' = "error"
     \/ /\ \A s \in Segment : status[s] # "pending"
        /\ ~AllDone
        /\ outcome' = "gave_up"
  /\ UNCHANGED <<status, delivered>>

JobNext == (\E s \in Segment : Settle(s)) \/ Deliver \/ Answer

JobSpec == JobInit /\ [][JobNext]_jobVars
=============================================================================
