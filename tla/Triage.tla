-------------------------------- MODULE Triage --------------------------------
(***************************************************************************)
(* ErrorAnalyzer of airvis/orchestration/repair.py: the category of a      *)
(* failure, by which the repair loop chooses its strategies, from the      *)
(* exception that left the attempt, the error code of a failed result or   *)
(* the issues of a review; and the exceptions of core/errors.py.           *)
(***************************************************************************)
EXTENDS Naturals, Sequences, SequencesExt, ReviewGate

(* The exceptions that have a base class below AirvisError.                 *)
Base ==
  [DuplicateRegistrationError |-> "RegistryError",
   RateLimitError |-> "ProviderError", ProviderTimeoutError |-> "ProviderError",
   ProviderUnavailableError |-> "ProviderError", CapabilityError |-> "ProviderError",
   BackendTimeoutError |-> "BackendError", BackendUnavailableError |-> "BackendError",
   ToolTimeoutError |-> "ToolError", ToolExecutionError |-> "ToolError",
   ApprovalRequiredError |-> "PermissionDeniedError", DAGCycleError |-> "DAGError",
   NoAgentAvailableError |-> "RegistryError", UnknownAgentError |-> "RegistryError",
   UnknownBackendError |-> "RegistryError", UnknownProviderError |-> "RegistryError",
   UnknownToolError |-> "RegistryError", InvalidReferenceError |-> "RegistryError"]

IsA(e, class) == e = class \/ (e \in DOMAIN Base /\ Base[e] = class)

(* Their codes.                                                             *)
Code ==
  [ProviderError |-> "provider_error", ProviderUnavailableError |-> "provider_unavailable",
   ProviderTimeoutError |-> "provider_timeout", RateLimitError |-> "rate_limit",
   CapabilityError |-> "capability_unsupported", BackendError |-> "backend_error",
   BackendUnavailableError |-> "backend_unavailable", BackendTimeoutError |-> "backend_timeout",
   ToolError |-> "tool_error", ToolExecutionError |-> "tool_execution_error",
   ToolTimeoutError |-> "tool_timeout", PermissionDeniedError |-> "permission_denied",
   ApprovalRequiredError |-> "approval_required", TaskTimeoutError |-> "task_timeout",
   TaskCancelledError |-> "task_cancelled", WorkflowCancelledError |-> "workflow_cancelled",
   ReviewRejectedError |-> "review_rejected", ContextError |-> "context_error",
   NoAgentAvailableError |-> "no_agent_available", UnknownToolError |-> "unknown_tool",
   UnknownBackendError |-> "unknown_backend", UnknownProviderError |-> "unknown_provider",
   UnknownAgentError |-> "unknown_agent", InvalidReferenceError |-> "invalid_reference",
   PlanningError |-> "planning_error", DAGError |-> "dag_error", DAGCycleError |-> "dag_cycle",
   ConfigError |-> "config_error", ArtifactError |-> "artifact_error",
   RegistryError |-> "registry_error", RepairExhaustedError |-> "repair_exhausted",
   DuplicateRegistrationError |-> "duplicate_registration"]

(* _EXCEPTION_MAP, in its order: the first class that fits counts.          *)
ExceptionMap ==
  << <<"RateLimitError", "RATE_LIMIT">>, <<"ProviderTimeoutError", "TIMEOUT">>,
     <<"ProviderError", "PROVIDER_ERROR">>, <<"BackendTimeoutError", "TIMEOUT">>,
     <<"BackendError", "BACKEND_ERROR">>, <<"ToolTimeoutError", "TIMEOUT">>,
     <<"PermissionDeniedError", "PERMISSION_ERROR">>, <<"ToolError", "TOOL_ERROR">>,
     <<"TaskTimeoutError", "TIMEOUT">>, <<"TaskCancelledError", "CANCELLED">>,
     <<"WorkflowCancelledError", "CANCELLED">>, <<"ReviewRejectedError", "REVIEW_REJECTED">>,
     <<"ContextError", "CONTEXT_ERROR">>, <<"NoAgentAvailableError", "ROUTING_ERROR">>,
     <<"UnknownAgentError", "ROUTING_ERROR">>, <<"UnknownBackendError", "ROUTING_ERROR">>,
     <<"UnknownProviderError", "ROUTING_ERROR">>, <<"InvalidReferenceError", "ROUTING_ERROR">>,
     <<"PlanningError", "CONTEXT_ERROR">>, <<"DAGError", "CONTEXT_ERROR">> >>

FailureCategory ==
  {"PROVIDER_ERROR", "BACKEND_ERROR", "TOOL_ERROR", "PERMISSION_ERROR", "CODE_ERROR",
   "TEST_FAILURE", "CONTEXT_ERROR", "TIMEOUT", "RATE_LIMIT", "ROUTING_ERROR",
   "REVIEW_REJECTED", "CANCELLED", "UNKNOWN"}

(* Exceptions of Python itself, those of a faulty program among them.       *)
Faulty   == {"SyntaxError", "NameError", "AttributeError", "TypeError",
             "ValueError", "KeyError", "IndexError"}
Builtins == Faulty \cup {"TimeoutError", "ConnectionError", "OSError"}

Exceptions == DOMAIN Code \cup Builtins

(* Mutant of the next: the last class that fits counts.                     *)
ClassifyByLast(e) ==
  LET fits == {k \in DOMAIN ExceptionMap : IsA(e, ExceptionMap[k][1])}
  IN IF e = "TimeoutError" THEN "TIMEOUT"
     ELSE IF fits # {} THEN ExceptionMap[Max(fits)][2]
     ELSE IF e \in Faulty THEN "CODE_ERROR" ELSE "UNKNOWN"

(* classify_exception                                                       *)
ClassifyException(e) ==
  LET fits == {k \in DOMAIN ExceptionMap : IsA(e, ExceptionMap[k][1])}
  IN IF e = "TimeoutError" THEN "TIMEOUT"
     ELSE IF fits # {} THEN ExceptionMap[Min(fits)][2]
     ELSE IF e \in Faulty THEN "CODE_ERROR" ELSE "UNKNOWN"

(* classify_result: by the code; a failed test run decides only where the   *)
(* code says nothing.                                                       *)
ResultMap ==
  [permission_denied |-> "PERMISSION_ERROR", approval_required |-> "PERMISSION_ERROR",
   tool_error |-> "TOOL_ERROR", tool_execution_error |-> "TOOL_ERROR",
   tool_timeout |-> "TIMEOUT", provider_error |-> "PROVIDER_ERROR",
   provider_unavailable |-> "PROVIDER_ERROR", provider_timeout |-> "TIMEOUT",
   rate_limit |-> "RATE_LIMIT", backend_error |-> "BACKEND_ERROR",
   backend_unavailable |-> "BACKEND_ERROR", backend_timeout |-> "TIMEOUT",
   task_timeout |-> "TIMEOUT", task_cancelled |-> "CANCELLED",
   upstream_failed |-> "CANCELLED", review_rejected |-> "REVIEW_REJECTED",
   no_agent_available |-> "ROUTING_ERROR"]

ClassifyResult(code, facts) ==
  IF code \in DOMAIN ResultMap THEN ResultMap[code]
  ELSE IF "testsFailed" \in facts THEN "TEST_FAILURE" ELSE "UNKNOWN"

(* classify_review: the tests before the security, before all the rest.     *)
ClassifyReview(dims) ==
  IF "tests" \in Complaints(dims) THEN "TEST_FAILURE"
  ELSE IF "security" \in Complaints(dims) THEN "PERMISSION_ERROR"
  ELSE "REVIEW_REJECTED"
=============================================================================
