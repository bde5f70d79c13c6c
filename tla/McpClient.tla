------------------------------ MODULE McpClient ------------------------------
(***************************************************************************)
(* MCPClient (airvis/mcp/client.py): JSON-RPC over the pipes of a child    *)
(* process, one request at a time under an asyncio.Lock.  A caller reads   *)
(* lines until one carries the id of its own request; what it leaves       *)
(* unread when it is interrupted is found by the next caller.              *)
(* discover_server (integration.py) connects, initializes and lists the    *)
(* tools before anybody can call one.                                      *)
(***************************************************************************)
EXTENDS Naturals, Sequences, FiniteSets, SequencesExt

CONSTANTS
  Callers,        \* tool calls that may use the server
  Setup,          \* discover_server, a caller of its own
  ServerAsks,     \* does the server send requests of its own, as ping?
  MaxLines        \* bound: lines the server sends of its own accord

Users == Callers \cup {Setup}
Nobody == "nobody"

ASSUME McpAssumption ==
  /\ Setup \notin Callers /\ Nobody \notin Users
  /\ ServerAsks \in BOOLEAN /\ MaxLines \in Nat

VARIABLES
  setup,     \* where discover_server is: start, initialize, list, ready, failed
  pipe,      \* open; dead: the server exited; closed: close() was called
  lock,      \* the tasks in the lock, the holder first (asyncio.Lock is fair)
  reading,   \* has the holder written its request?
  nextId,    \* _next_id
  owed,      \* ids of requests the server has read and not answered
  inbox,     \* lines in the StreamReader: [kind, id]
  asker,     \* history: whose request an id is
  received,  \* history: the line each user's last call returned with
  lines      \* how many lines the server has sent of its own accord

mcpVars == <<setup, pipe, lock, reading, nextId, owed, inbox, asker, received, lines>>

Line(kind, id) == [kind |-> kind, id |-> id]
Nothing == Line("nothing", 0)
Holder == IF lock = <<>> THEN Nobody ELSE lock[1]

McpInit ==
  /\ setup = "start" /\ pipe = "closed"
  /\ lock = <<>> /\ reading = FALSE /\ nextId = 0 /\ owed = {} /\ inbox = <<>> /\ lines = 0
  /\ asker = <<>> /\ received = [u \in Users |-> Nothing]

(* The first line of `async with self._lock`: the user joins the queue.    *)
Enter(u) ==
  /\ lock' = Append(lock, u)
  /\ UNCHANGED <<setup, pipe, reading, nextId, owed, inbox, asker, received, lines>>

(* The holder writes its request, with a fresh id ...                      *)
Sent(u) == Holder = u /\ reading

Send(u) ==
  /\ Holder = u /\ ~reading /\ pipe # "closed"
  /\ reading' = TRUE
  /\ nextId' = nextId + 1
  /\ asker' = Append(asker, u)
  /\ owed' = IF pipe = "open" THEN owed \cup {nextId + 1} ELSE owed
  /\ received' = [received EXCEPT ![u] = Nothing]
  /\ UNCHANGED <<setup, pipe, lock, inbox, lines>>

(* Mutant: the first answer is taken for one's own.                        *)
MatchesAny(line) == line.kind \in {"answer", "error"}

(* ... and reads on until a line carries that id.                          *)
Matches(line) == line.id = nextId

Skip(u) ==
  /\ Sent(u) /\ inbox # <<>> /\ ~Matches(Head(inbox))
  /\ inbox' = Tail(inbox)
  /\ UNCHANGED <<setup, pipe, lock, reading, nextId, owed, asker, received, lines>>

(* Whatever ends a call gives the lock to the next in the queue.           *)
Leaves(u) ==
  \E i \in DOMAIN lock :
    /\ lock[i] = u
    /\ lock' = RemoveAt(lock, i)
    /\ reading' = (reading /\ i # 1)

(* The call returns the result of the line, or raises its error.           *)
Return(u) ==
  /\ Sent(u) /\ inbox # <<>> /\ Matches(Head(inbox))
  /\ received' = [received EXCEPT ![u] = Head(inbox)]
  /\ inbox' = Tail(inbox)
  /\ Leaves(u)
  /\ UNCHANGED <<setup, pipe, nextId, owed, asker, lines>>

(* It raises: nothing arrived for `timeout` seconds, the server has closed *)
(* its end, or there is no process when the user's turn has come.          *)
Raise(u) ==
  /\ Holder = u
  /\ \/ Sent(u) /\ inbox = <<>>
     \/ ~reading /\ pipe = "closed"
  /\ Leaves(u)
  /\ UNCHANGED <<setup, pipe, nextId, owed, inbox, asker, received, lines>>

(* The user is cancelled, in the queue or inside.                          *)
Interrupt(u) ==
  /\ Leaves(u)
  /\ UNCHANGED <<setup, pipe, nextId, owed, inbox, asker, received, lines>>
-----------------------------------------------------------------------------
(* The server answers what it was asked, in any order and late if it       *)
(* likes, and writes notifications and requests with ids of its own.       *)
ServerAnswers ==
  /\ pipe = "open"
  /\ \E i \in owed, kind \in {"answer", "error"} :
       inbox' = Append(inbox, Line(kind, i)) /\ owed' = owed \ {i}
  /\ UNCHANGED <<setup, pipe, lock, reading, nextId, asker, received, lines>>

ServerSpeaks ==
  /\ pipe = "open" /\ lines < MaxLines
  /\ lines' = lines + 1
  /\ \/ inbox' = Append(inbox, Line("notice", 0))
     \/ ServerAsks /\ \E i \in 1..MaxLines : inbox' = Append(inbox, Line("request", i))
  /\ UNCHANGED <<setup, pipe, lock, reading, nextId, owed, asker, received>>

(* The server's end of the pipe closes: it has died, or close() was called *)
(* while somebody was reading.  What it wrote before can still be read.    *)
ServerDies ==
  /\ pipe = "open"
  /\ pipe' = "dead"
  /\ owed' = {}
  /\ UNCHANGED <<setup, lock, reading, nextId, inbox, asker, received, lines>>

Close ==
  /\ setup = "ready" /\ pipe # "closed"
  /\ pipe' = "closed"
  /\ owed' = {}
  /\ UNCHANGED <<setup, lock, reading, nextId, inbox, asker, received, lines>>
-----------------------------------------------------------------------------
(* discover_server: the process is started, asked to initialize and for    *)
(* its tools.  Any failure ends the discovery; nobody closes the process.  *)
Connect ==
  /\ setup = "start"
  /\ \/ setup' = "initialize" /\ pipe' = "open" /\ lock' = <<Setup>>
     \/ setup' = "failed" /\ UNCHANGED <<pipe, lock>>
  /\ UNCHANGED <<reading, nextId, owed, inbox, asker, received, lines>>

SetupReturns ==
  /\ Sent(Setup) /\ inbox # <<>> /\ Matches(Head(inbox))
  /\ inbox' = Tail(inbox)
  /\ received' = [received EXCEPT ![Setup] = Head(inbox)]
  /\ reading' = FALSE
  /\ IF Head(inbox).kind # "error" /\ setup = "initialize"
     THEN setup' = "list" /\ UNCHANGED lock
     ELSE /\ setup' = IF Head(inbox).kind = "error" THEN "failed" ELSE "ready"
          /\ lock' = <<>>
  /\ UNCHANGED <<pipe, nextId, owed, asker, lines>>

SetupRaises ==
  /\ Sent(Setup) /\ inbox = <<>>
  /\ setup' = "failed" /\ lock' = <<>> /\ reading' = FALSE
  /\ UNCHANGED <<pipe, nextId, owed, inbox, asker, received, lines>>

McpSetupStep == Connect \/ Send(Setup) \/ Skip(Setup) \/ SetupReturns \/ SetupRaises
-----------------------------------------------------------------------------
McpTypeOK ==
  /\ setup \in {"start", "initialize", "list", "ready", "failed"}
  /\ pipe \in {"open", "dead", "closed"}
  /\ lock \in Seq(Users) /\ reading \in BOOLEAN /\ nextId \in Nat /\ owed \subseteq 1..nextId
  /\ \A i \in DOMAIN inbox : inbox[i].kind \in {"answer", "error", "notice", "request"}
  /\ asker \in Seq(Users) /\ lines \in 0..MaxLines

(* What a call returns with is the answer to that very call, although the  *)
(* answers to interrupted calls still arrive, late and in any order, and   *)
(* the server may send lines of its own (client.py:107).                   *)
AnswerIsOwn ==
  \A u \in Users : received[u] # Nothing =>
    /\ received[u].kind \in {"answer", "error"}
    /\ received[u].id = Max({i \in DOMAIN asker : asker[i] = u})
=============================================================================
