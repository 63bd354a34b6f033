----------------------------- MODULE JobService -----------------------------
(***************************************************************************)
(* What a worker pool promises to its clients (the Worker interface,       *)
(* v2/workers/worker.go:143-155), with no channel, mutex, goroutine or     *)
(* retry: a submission is accepted or refused once, an accepted one runs   *)
(* once and ends once, nothing is accepted after the service closed, and   *)
(* "drained" is only ever answered when nothing accepted is left.          *)
(***************************************************************************)
CONSTANT Jobs   (* The submissions.                                        *)

VARIABLES
  status,       (* What has become of each submission.                     *)
  open,         (* Whether the service still accepts.                      *)
  drained       (* Whether a shutdown has been told that all is done.      *)

vars == <<status, open, drained>>

Ended == {"succeeded", "failed"}

TypeOK ==
  /\ status \in [Jobs -> {"new", "accepted", "refused", "running"} \cup Ended]
  /\ open \in BOOLEAN
  /\ drained \in BOOLEAN

Init ==
  /\ status = [j \in Jobs |-> "new"]
  /\ open = TRUE
  /\ drained = FALSE

Move(j, from, to) ==
  /\ status[j] = from
  /\ status' = [status EXCEPT ![j] = to]
  /\ UNCHANGED <<open, drained>>

Accept(j) == open /\ Move(j, "new", "accepted")
Refuse(j) == Move(j, "new", "refused")
Begin(j)  == Move(j, "accepted", "running")
End(j)    == \E result \in Ended : Move(j, "running", result)

Close ==
  /\ open
  /\ open' = FALSE
  /\ UNCHANGED <<status, drained>>

(* The answer nil of Shutdown.                                              *)
Drain ==
  /\ ~open
  /\ \A j \in Jobs : status[j] \notin {"accepted", "running"}
  /\ drained' = TRUE
  /\ UNCHANGED <<status, open>>

Next ==
  \/ \E j \in Jobs : Accept(j) \/ Refuse(j) \/ Begin(j) \/ End(j)
  \/ Close
  \/ Drain

Spec == Init /\ [][Next]_vars

(* What is accepted is run, and what runs ends.                             *)
LiveSpec == Spec /\ \A j \in Jobs : WF_vars(Begin(j)) /\ WF_vars(End(j))
=============================================================================
