------------------------------- MODULE MCResume -------------------------------
(***************************************************************************)
(* WorkflowRun with a history variable: has cancel() been called since the *)
(* run() or resume() that is at work was called?  It only observes; its    *)
(* steps are those of WorkflowRun.                                         *)
(***************************************************************************)
EXTENDS MCWorkflowRun

VARIABLE asked

HistoryInit == WfInit /\ asked = FALSE

HistoryNext ==
  \/ (StartRun \/ Resume) /\ asked' = FALSE
  \/ CancelWorkflow /\ asked' = TRUE
  \/ /\ WfNext
     /\ ~CancelWorkflow
     /\ phase # "new" /\ resumes' = resumes
     /\ UNCHANGED asked

HistorySpec == HistoryInit /\ [][HistoryNext]_<<allVars, asked>>

(* The runner of t, started by this execution, raised because it found the *)
(* workflow in _cancelled: prologue of execute() has left no task FAILED.  *)
RefusedOnArrival(t) == doomed /\ status[t] = "failed"

(* The tasks that a resume starts, and whose workflow nobody has cancelled *)
(* since it was called, are given a chance to work (orchestrator.py:100    *)
(* takes a workflow out of _cancelled for run(); resume(), line 185, does  *)
(* not).                                                                   *)
ResumedTasksWork ==
  phase = "executing" /\ resumed /\ ~asked /\ pc \notin {"idle", "rejected"} =>
    \A t \in nodes : ~RefusedOnArrival(t)
=============================================================================
