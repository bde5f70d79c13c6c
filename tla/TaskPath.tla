------------------------------- MODULE TaskPath -------------------------------
(***************************************************************************)
(* What becomes of one attempt at a task, _attempt and the branch of       *)
(* _execute_task behind it (airvis/orchestration/orchestrator.py): the     *)
(* provider is called (HttpProvider), the result is reviewed (ReviewGate), *)
(* and what failed is put into a category for the repair loop (Triage).    *)
(* The provider's place in a chain, health and tools are in Attempts and   *)
(* ToolGate; here they are a choice of what they can hand on.              *)
(***************************************************************************)
EXTENDS HttpProvider, Triage

CONSTANTS
  Seen,       \* the facts that the evidence is made of
  Opinions,   \* what a model that reviews may say
  Reviewing   \* review.enabled

(* A score that is a number is cut to that range (review.py:336).           *)
ASSUME PathAssumption ==
  /\ Opinions \subseteq [score : 0 .. 100, issues : BOOLEAN, given : {TRUE}]
  /\ Nobody \notin FailureCategory

(* The codes of a failed result (backends/native.py:138, 150 and 275).      *)
Codes == {"permission_denied", "approval_required", "tool_error",
          "tool_execution_error", "tool_timeout", "task_cancelled"}

VARIABLES
  facts, refused, llm,  \* the evidence, once there is a result
  code,                 \* the error code of the result, or Nobody
  escaped,              \* the exception that left the attempt, or Nobody
  status,               \* "open", "PASS", "FAIL", "skipped" or "raised"
  category              \* of the failure; Nobody before, and for a success

pathVars == <<httpVars, facts, refused, llm, code, escaped, status, category>>

PathInit ==
  /\ HttpInit
  /\ facts = {} /\ refused = 0 /\ llm = NoLLM /\ code = Nobody
  /\ escaped = Nobody /\ status = "open" /\ category = Nobody

Http == HttpNext /\ UNCHANGED <<facts, refused, llm, code, escaped, status, category>>

Attempting == status = "open" /\ category = Nobody

(* An exception leaves the attempt.                                         *)
Escapes(e) ==
  /\ escaped' = e /\ category' = ClassifyException(e)
  /\ UNCHANGED <<httpVars, facts, refused, llm, code, status>>

(* Every provider of the chain has failed, each in its way: the registry    *)
(* tells it as one exception.                                               *)
ProviderFails ==
  /\ Attempting /\ kind = "generate" /\ caller = "raised"
  /\ Escapes("ProviderUnavailableError")

(* Routing, the backend, a required tool, the permission gate, a time-out.  *)
OtherFailure ==
  /\ Attempting /\ kind = "none" /\ \E e \in Exceptions : Escapes(e)

Dims(f, r, o) == Dimensions(f, r, o)

(* The branch of _execute_task: a rejection by the review comes before the  *)
(* code of the result.                                                      *)
Categorised(f, r, o, c, s) ==
  CASE s = "FAIL"                        -> ClassifyReview(Dims(f, r, o))
    [] s # "FAIL" /\ "failed" \in f      -> ClassifyResult(c, f)
    [] s # "FAIL" /\ "failed" \notin f   -> Nobody

Judge(f, r, o, c) ==
  /\ facts' = f /\ refused' = r /\ llm' = o /\ code' = c
  /\ status' = IF Reviewing THEN Status(Dims(f, r, o)) ELSE "skipped"
  /\ category' = Categorised(f, r, o, c, status')
  /\ UNCHANGED <<httpVars, escaped>>

(* The backend returns a result: tools ran between calls of the provider.   *)
ResultReviewed ==
  /\ Attempting /\ kind = "generate" /\ caller = "returned"
  /\ \E f \in SUBSET Seen, r \in 0 .. 2, o \in Opinions \cup {NoLLM} :
       /\ Possible(f, r)
       /\ "failed" \in f <=> "toolFailed" \in f
       /\ \E c \in IF "failed" \in f THEN Codes \ {"task_cancelled"} ELSE {Nobody} :
            /\ r > 0 => c # "tool_timeout"
            /\ Judge(f, r, o, c)

(* The native backend turns a cancellation into a failed result.            *)
CancelledReviewed ==
  /\ Attempting /\ kind = "generate" /\ caller = "cancelled"
  /\ \E o \in Opinions \cup {NoLLM} : Judge({"failed", "empty"}, 0, o, "task_cancelled")

(* A model's opinion whose score is no number is not caught: the exception  *)
(* leaves the review, and the attempt with it.                              *)
ReviewRaises ==
  /\ Attempting /\ kind = "generate" /\ caller = "returned" /\ Reviewing
  /\ Opinions # {} /\ status' = "raised"
  /\ escaped' = "ValueError" /\ category' = ClassifyException("ValueError")
  /\ UNCHANGED <<httpVars, facts, refused, llm, code>>

PathNext ==
  \/ Http \/ ProviderFails \/ OtherFailure \/ ResultReviewed
  \/ CancelledReviewed \/ ReviewRaises

-----------------------------------------------------------------------------
(***************************************************************************)
(* The gate goes by evidence: with the default threshold a result passes   *)
(* only if nothing damning was found, whatever score the dimensions add up *)
(* to and whatever a model thinks of it, and it is rejected only for such  *)
(* a finding or for a model's complaint.                                   *)
(***************************************************************************)
GateIsEvidence ==
  /\ status = "PASS" => ~Damning(facts)
  /\ status = "FAIL" => Damning(facts) \/ (llm.issues /\ llm.score < 50)

(***************************************************************************)
(* Exceptions are put in the category of the most special class that the   *)
(* table lists for them, whatever the order of its rows; and where both    *)
(* classifiers know a failure, the one for exceptions by its class and the *)
(* one for results by its code, they agree.                                *)
(***************************************************************************)
RowsFor(class) == {row \in ToSet(ExceptionMap) : row[1] = class}

Nearest(e) ==
  IF RowsFor(e) # {} THEN {row[2] : row \in RowsFor(e)}
  ELSE IF e \in DOMAIN Base THEN {row[2] : row \in RowsFor(Base[e])} ELSE {}

TriageSound ==
  escaped # Nobody =>
    /\ Nearest(escaped) # {} => category \in Nearest(escaped)
    /\ escaped \in DOMAIN Code /\ Code[escaped] \in DOMAIN ResultMap =>
         ResultMap[Code[escaped]] = category
=============================================================================
