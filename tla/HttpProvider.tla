----------------------------- MODULE HttpProvider -----------------------------
(***************************************************************************)
(* One call of a network provider (airvis/providers/http.py).  generate()  *)
(* posts the request on a worker thread and translates what goes wrong.    *)
(* stream() reads the reply on a worker thread, which hands its pieces to  *)
(* the event loop; the loop runs the hand-overs in their order and puts    *)
(* the pieces into a queue, from which the caller takes them one by one.   *)
(* The caller may be cancelled, or stop asking, at any of its awaits.      *)
(* The server is the environment; a piece is its number.                   *)
(***************************************************************************)
EXTENDS Naturals, Sequences

CONSTANTS
  MaxPieces,     \* how many pieces a reply has at most
  SilentOnEmpty, \* the provider takes a reply without content for an empty text
  Nobody         \* no exception

ASSUME HttpAssumption == MaxPieces \in Nat /\ SilentOnEmpty \in BOOLEAN

(* What can go wrong before the reply is read, while it is read, and in it. *)
Refusals == {"429", "401", "4xx", "5xx", "unreachable", "disconnected"}
Breaks   == {"read_timeout", "disconnected"}
Defects  == {"bad_json", "no_content"}

VARIABLES
  kind,      \* "none", "generate" or "stream"
  thread,    \* the worker: "off", "open", "reading", "ended" or "failed"
  fault,     \* what went wrong in it, or Nobody
  arrived,   \* how many pieces the server has sent
  handed,    \* hand-overs the loop has yet to run: pieces or EndMark
  queue,     \* the pieces the caller has yet to take, or EndMark
  caller,    \* "idle", "waiting", "using", "joining" or how the call ended
  gone,      \* the caller went away before the end
  got,       \* the pieces it was given
  raised     \* the exception it was given, or Nobody

httpVars == <<kind, thread, fault, arrived, handed, queue, caller, gone, got, raised>>

(* None, which marks the end of a reply; pieces count from 1.               *)
EndMark == 0

Ended == {"returned", "raised", "cancelled"}

HttpInit ==
  /\ kind = "none" /\ thread = "off" /\ fault = Nobody /\ arrived = 0
  /\ handed = <<>> /\ queue = <<>> /\ caller = "idle" /\ gone = FALSE
  /\ got = <<>> /\ raised = Nobody

(* _post: faults it knows become provider errors; a connection that breaks  *)
(* after the request was sent is none of them and leaves as it is.          *)
Translated(f) ==
  CASE f = "429"                             -> "RateLimitError"
    [] f \in {"401", "5xx", "unreachable"}   -> "ProviderUnavailableError"
    [] f = "read_timeout"                    -> "ProviderTimeoutError"
    [] f \in {"4xx", "bad_json", "no_content"} -> "ProviderError"
    [] f = "disconnected"                    -> "ConnectionError"

(* stream() translates nothing.                                             *)
Untranslated(f) ==
  CASE f \in {"429", "401", "4xx", "5xx"} -> "HTTPError"
    [] f = "unreachable"                  -> "URLError"
    [] f = "read_timeout"                 -> "TimeoutError"
    [] f = "disconnected"                 -> "ConnectionError"

-----------------------------------------------------------------------------
Call(which) ==
  /\ caller = "idle" /\ kind' = which /\ caller' = "waiting" /\ thread' = "open"
  /\ UNCHANGED <<fault, arrived, handed, queue, gone, got, raised>>

(* The finally clause of the worker.                                        *)
HandOver(x) == handed' = IF kind = "stream" THEN Append(handed, x) ELSE handed

Connect ==
  /\ thread = "open" /\ thread' = "reading"
  /\ UNCHANGED <<kind, fault, arrived, handed, queue, caller, gone, got, raised>>

(* Mutant: the mark of the end is put into the queue past the loop.         *)
EndsOutOfTurn(how, f) ==
  /\ thread' = how /\ fault' = f
  /\ queue' = IF kind = "stream" THEN Append(queue, EndMark) ELSE queue
  /\ UNCHANGED <<kind, arrived, handed, caller, gone, got, raised>>

Ends(how, f) ==
  /\ thread' = how /\ fault' = f /\ HandOver(EndMark)
  /\ UNCHANGED <<kind, arrived, queue, caller, gone, got, raised>>

Refused == thread = "open" /\ \E f \in Refusals : Ends("failed", f)

BreaksOff == thread = "reading" /\ \E f \in Breaks : Ends("failed", f)

(* A line of data with some content; other lines, and lines that are not    *)
(* JSON, are skipped.                                                       *)
PieceArrives ==
  /\ thread = "reading" /\ kind = "stream" /\ arrived < MaxPieces
  /\ arrived' = arrived + 1 /\ HandOver(arrived')
  /\ UNCHANGED <<kind, thread, fault, queue, caller, gone, got, raised>>

(* [DONE], or the end of the body, whichever comes first.                   *)
ReplyEnds == thread = "reading" /\ Ends("ended", Nobody)

(* generate() reads the whole reply; two of the three providers raise when  *)
(* there is nothing in it.                                                  *)
Unfit ==
  /\ thread = "reading" /\ kind = "generate"
  /\ \E f \in Defects : ~(f = "no_content" /\ SilentOnEmpty) /\ Ends("failed", f)

LoopTurn ==
  /\ handed # <<>> /\ handed' = Tail(handed) /\ queue' = Append(queue, Head(handed))
  /\ UNCHANGED <<kind, thread, fault, arrived, caller, gone, got, raised>>

TakePiece ==
  /\ caller = "waiting" /\ kind = "stream" /\ queue # <<>>
  /\ queue' = Tail(queue)
  /\ IF Head(queue) = EndMark
       THEN caller' = "joining" /\ UNCHANGED got
       ELSE caller' = "using" /\ got' = Append(got, Head(queue))
  /\ UNCHANGED <<kind, thread, fault, arrived, handed, gone, raised>>

AskNext ==
  /\ caller = "using" /\ caller' = "waiting"
  /\ UNCHANGED <<kind, thread, fault, arrived, handed, queue, gone, got, raised>>

(* The caller closes the generator, or is cancelled while it waits: a       *)
(* stream first waits for its worker, generate() leaves its worker alone.   *)
Leave ==
  /\ \/ caller = "using" \/ caller = "waiting"
  /\ gone' = TRUE
  /\ caller' = IF kind = "stream" THEN "joining" ELSE "cancelled"
  /\ UNCHANGED <<kind, thread, fault, arrived, handed, queue, got, raised>>

(* The worker's end reaches the caller behind all it has handed over; an    *)
(* exception of the worker takes the place of a cancellation.               *)
Join ==
  /\ caller = "joining" /\ thread \in {"ended", "failed"} /\ handed = <<>>
  /\ IF thread = "failed"
       THEN caller' = "raised" /\ raised' = Untranslated(fault)
       ELSE caller' = (IF gone THEN "cancelled" ELSE "returned") /\ UNCHANGED raised
  /\ UNCHANGED <<kind, thread, fault, arrived, handed, queue, gone, got>>

(* A second cancellation does not wait.                                     *)
LeaveAtOnce ==
  /\ caller = "joining" /\ caller' = "cancelled" /\ gone' = TRUE
  /\ UNCHANGED <<kind, thread, fault, arrived, handed, queue, got, raised>>

GenerateEnds ==
  /\ caller = "waiting" /\ kind = "generate" /\ thread \in {"ended", "failed"}
  /\ IF thread = "failed"
       THEN caller' = "raised" /\ raised' = Translated(fault)
       ELSE caller' = "returned" /\ UNCHANGED raised
  /\ UNCHANGED <<kind, thread, fault, arrived, handed, queue, gone, got>>

Worker == Connect \/ Refused \/ BreaksOff \/ PieceArrives \/ ReplyEnds \/ Unfit
Caller == TakePiece \/ AskNext \/ Join \/ GenerateEnds

HttpNext ==
  \/ \E which \in {"generate", "stream"} : Call(which)
  \/ Worker \/ LoopTurn \/ Caller \/ Leave \/ LeaveAtOnce

HttpSpec == HttpInit /\ [][HttpNext]_httpVars

(* Every read of the socket ends within its time-out, the loop turns, and   *)
(* the caller keeps asking.                                                 *)
HttpFairness == WF_httpVars(Worker) /\ WF_httpVars(LoopTurn) /\ WF_httpVars(Caller)

-----------------------------------------------------------------------------
(* The caller of a stream is given the pieces in the order in which they    *)
(* came, and is told that the reply is complete only when nothing went      *)
(* wrong and no piece is missing, although the pieces pass through a worker *)
(* thread, the loop and a queue, and the mark of the end overtakes none.    *)
StreamFaithful ==
  /\ \A k \in DOMAIN got : got[k] = k
  /\ Len(got) <= arrived
  /\ caller = "returned" /\ kind = "stream" =>
       thread = "ended" /\ fault = Nobody /\ Len(got) = arrived

(* Every call ends: with the reply, an exception, or a cancellation.        *)
CallEnds == caller # "idle" ~> caller \in Ended
=============================================================================
