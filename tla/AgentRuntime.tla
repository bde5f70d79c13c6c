---------------------------- MODULE AgentRuntime ----------------------------
(***************************************************************************)
(* The runtime facade (airvis/runtime.py) in the process that serves it:   *)
(* the chat requests of the web server, their common lock, the history of  *)
(* the default session and its file, the spoken answers, and a server that *)
(* dies and is started again.  With Locked = FALSE the callers are those   *)
(* of websocket_server.py, which share one runtime without a lock.         *)
(*                                                                         *)
(* The file is written as sessions.py and task_store.py write theirs: into *)
(* a sibling ".tmp" of fixed name, which then replaces it.  A file is an   *)
(* inode, so that two writers that open the same sibling share it, and one *)
(* that was opened and not yet written is empty or torn.                   *)
(***************************************************************************)
EXTENDS Naturals, Sequences, FiniteSets

CONSTANTS
  Clients,      \* those that send a chat message, one each per life
  Locked,       \* the calls pass COMMAND_LOCK
  MaxRestarts,  \* how often the server may die
  MaxFaults,    \* how often writing the file may fail
  NoOne          \* no client, no file

ASSUME RuntimeAssumption ==
  Locked \in BOOLEAN /\ MaxRestarts \in Nat /\ MaxFaults \in Nat
ASSUME NoOneAssumption == NoOne \notin Clients /\ NoOne \notin Clients \X {0, 1}

Phases == {"before", "memory", "after"}       \* which save of run() it is
Roles  == {"user", "assistant"}
Torn   == << <<NoOne, "torn">> >>

VARIABLES
  step,         \* where each client's request is
  phase,      \* the save a client is in
  shot,       \* the text a client is writing: a copy of the history
  inode,      \* the file a client has open
  lock,       \* who holds COMMAND_LOCK
  agentState, \* AgentRuntime.state
  messages,   \* session.messages
  outcome,    \* how the workflow of a request ended
  file,       \* sessions.json: an inode or NoOne
  tmp,        \* sessions.tmp: an inode or NoOne
  data,       \* what the inodes hold
  voice,      \* the answers that wait for TTS_LOCK or are spoken; TTS_ACTIVE
  restarts, faults

runVars     == <<step, phase, shot, inode, outcome>>
memVars     == <<lock, agentState, messages, voice>>
diskVars    == <<file, tmp, data>>
runtimeVars == <<runVars, memVars, diskVars, restarts, faults>>

(* One inode per client is enough: a client makes a new one only when the   *)
(* sibling is gone, which then holds none of the older ones it made but     *)
(* the file itself.                                                         *)
Inodes == Clients \X {0, 1}

RuntimeInit ==
  /\ step = [c \in Clients |-> "idle"] /\ phase = [c \in Clients |-> "before"]
  /\ shot = [c \in Clients |-> <<>>] /\ inode = [c \in Clients |-> NoOne]
  /\ outcome = [c \in Clients |-> NoOne]
  /\ lock = NoOne /\ agentState = "idle" /\ messages = <<>>
  /\ voice = [waiting |-> {}, now |-> {}, active |-> FALSE]
  /\ file = NoOne /\ tmp = NoOne /\ data = [i \in Inodes |-> <<>>]
  /\ restarts = 0 /\ faults = 0

Go(c, at) == step' = [step EXCEPT ![c] = at]

-----------------------------------------------------------------------------
(* do_POST: a message waits for COMMAND_LOCK and enters run().              *)
Post(c) ==
  /\ step[c] = "idle" /\ Go(c, IF Locked THEN "lock" ELSE "enter")
  /\ UNCHANGED <<phase, shot, inode, outcome, memVars, diskVars, restarts,
                 faults>>

(* Mutant: as if the lock were not there.                                   *)
AcquireAnyway(c) ==
  /\ step[c] = "lock" /\ lock' = c /\ Go(c, "enter")
  /\ UNCHANGED <<phase, shot, inode, outcome, agentState, messages, voice,
                 diskVars, restarts, faults>>

Acquire(c) ==
  /\ step[c] = "lock" /\ lock = NoOne /\ lock' = c /\ Go(c, "enter")
  /\ UNCHANGED <<phase, shot, inode, outcome, agentState, messages, voice,
                 diskVars, restarts, faults>>

(* run() up to sessions.get(), whose _save takes its copy of the history    *)
(* before the user's message is in it.                                      *)
BeginSave(c, which, history) ==
  /\ Go(c, "open") /\ phase' = [phase EXCEPT ![c] = which]
  /\ shot' = [shot EXCEPT ![c] = history]

Enter(c) ==
  /\ step[c] = "enter" /\ agentState' = "thinking"
  /\ BeginSave(c, "before", messages)
  /\ UNCHANGED <<inode, outcome, lock, messages, voice, diskVars, restarts,
                 faults>>

(* write_text opens, which empties, and then writes; replace() fails when   *)
(* another writer has taken the sibling away.                               *)
NewInode(c) == CHOOSE i \in {c} \X {0, 1} : i # file

Open(c) ==
  /\ step[c] = "open" /\ Go(c, "write")
  /\ LET i == IF tmp = NoOne THEN NewInode(c) ELSE tmp
     IN tmp' = i /\ inode' = [inode EXCEPT ![c] = i]
        /\ data' = [data EXCEPT ![i] = Torn]
  /\ UNCHANGED <<phase, shot, outcome, memVars, file, restarts, faults>>

(* A shorter text written over a longer one leaves its tail behind.         *)
Overwritten(old, new) ==
  IF old # Torn /\ Len(old) > Len(new) THEN Torn ELSE new

Write(c) ==
  /\ step[c] = "write" /\ Go(c, "replace")
  /\ data' = [data EXCEPT ![inode[c]] = Overwritten(@, shot[c])]
  /\ UNCHANGED <<phase, shot, inode, outcome, memVars, file, tmp, restarts,
                 faults>>

(* An OSError of any of the three leaves run(); the state is not touched.   *)
Raise(c) ==
  /\ Go(c, "raised")
  /\ UNCHANGED <<phase, shot, inode, outcome, memVars, diskVars>>

DiskFails(c) ==
  /\ step[c] \in {"open", "write", "replace"} /\ faults < MaxFaults
  /\ faults' = faults + 1 /\ Raise(c) /\ UNCHANGED restarts

AfterSave(c) ==
  IF phase[c] = "before" THEN "ask" ELSE "settle"

Replace(c) ==
  /\ step[c] = "replace"
  /\ IF tmp = NoOne
       THEN Raise(c)
       ELSE /\ file' = tmp /\ tmp' = NoOne /\ Go(c, AfterSave(c))
            /\ inode' = [inode EXCEPT ![c] = NoOne]
            /\ UNCHANGED <<phase, shot, outcome, memVars, data>>
  /\ UNCHANGED <<restarts, faults>>

(* The user's message is kept.  A request to remember something is answered *)
(* at once; otherwise the workflow runs, and may raise: then nothing of the *)
(* answer is kept.                                                          *)
Remember(c) ==
  /\ step[c] = "ask"
  /\ messages' = messages \o << <<c, "user">>, <<c, "assistant">> >>
  /\ outcome' = [outcome EXCEPT ![c] = "completed"]
  /\ BeginSave(c, "memory", messages')
  /\ UNCHANGED <<inode, lock, agentState, voice, diskVars, restarts, faults>>

Ask(c) ==
  /\ step[c] = "ask" /\ Go(c, "engine")
  /\ messages' = Append(messages, <<c, "user">>)
  /\ UNCHANGED <<phase, shot, inode, outcome, lock, agentState, voice, diskVars,
                 restarts, faults>>

EngineReturns(c, result) ==
  /\ step[c] = "engine"
  /\ outcome' = [outcome EXCEPT ![c] = result]
  /\ messages' = Append(messages, <<c, "assistant">>)
  /\ BeginSave(c, "after", messages')
  /\ UNCHANGED <<inode, lock, agentState, voice, diskVars, restarts, faults>>

EngineRaises(c) ==
  /\ step[c] = "engine" /\ Go(c, "failed")
  /\ agentState' = "failed"
  /\ UNCHANGED <<phase, shot, inode, outcome, lock, messages, voice,
                 diskVars, restarts, faults>>

(* The state after the workflow, and the return.                            *)
Settle(c) ==
  /\ step[c] = "settle" /\ Go(c, "kept")
  /\ agentState' = outcome[c]
  /\ UNCHANGED <<phase, shot, inode, outcome, lock, messages, voice,
                 diskVars, restarts, faults>>

(* Mutant: a request that raises keeps the lock.                            *)
ReleaseOnReturn(c) ==
  /\ step[c] \in {"kept", "failed", "raised"}
  /\ lock' = IF lock = c /\ step[c] # "raised" THEN NoOne ELSE lock
  /\ Go(c, IF step[c] = "kept" THEN "answered" ELSE "error")
  /\ UNCHANGED <<phase, shot, inode, outcome, agentState, messages, voice,
                 diskVars, restarts, faults>>

(* The lock is given back whether run() returned or raised; an answer is    *)
(* handed to a thread of its own to be spoken.  Every path of run() that    *)
(* returns returns some text.                                               *)
Release(c) ==
  /\ step[c] \in {"kept", "failed", "raised"}
  /\ lock' = IF lock = c THEN NoOne ELSE lock
  /\ Go(c, CASE step[c] = "kept"   -> "answered"
             [] step[c] = "failed" -> "told"
             [] OTHER            -> "error")
  /\ voice' = IF step[c] # "raised" /\ Locked
                THEN [voice EXCEPT !.waiting = @ \cup {c}] ELSE voice
  /\ UNCHANGED <<phase, shot, inode, outcome, agentState, messages, diskVars,
                 restarts, faults>>

-----------------------------------------------------------------------------

(* _speak_async: the threads take TTS_LOCK in no particular order.          *)
StartSpeaking(c) ==
  /\ c \in voice.waiting /\ voice.now = {}
  /\ voice' = [voice EXCEPT !.waiting = @ \ {c}, !.now = @ \cup {c},
                            !.active = TRUE]
  /\ UNCHANGED <<runVars, lock, agentState, messages, diskVars, restarts, faults>>

(* The finally clause clears the flag, also when speaking failed.           *)
StopSpeaking(c) ==
  /\ c \in voice.now
  /\ voice' = [voice EXCEPT !.now = @ \ {c}, !.active = FALSE]
  /\ UNCHANGED <<runVars, lock, agentState, messages, diskVars, restarts, faults>>

(* The server dies and is started again: only the disk is left, and what of *)
(* it cannot be read counts as no history.                                  *)
Loaded == IF file = NoOne \/ data[file] = Torn THEN <<>> ELSE data[file]

Restart ==
  /\ restarts < MaxRestarts /\ restarts' = restarts + 1
  /\ step' = [c \in Clients |->
              IF step[c] \in {"answered", "told", "error"} THEN step[c] ELSE "idle"]
  /\ phase' = [c \in Clients |-> "before"] /\ shot' = [c \in Clients |-> <<>>]
  /\ inode' = [c \in Clients |-> NoOne] /\ outcome' = [c \in Clients |-> NoOne]
  /\ lock' = NoOne /\ agentState' = "idle" /\ messages' = Loaded
  /\ voice' = [waiting |-> {}, now |-> {}, active |-> FALSE]
  /\ UNCHANGED <<diskVars, faults>>

ClientStep(c) ==
  \/ Acquire(c) \/ Enter(c) \/ Open(c) \/ Write(c) \/ Replace(c)
  \/ Remember(c) \/ Ask(c) \/ EngineRaises(c) \/ Settle(c) \/ Release(c)
  \/ \E result \in {"completed", "cancelled", "failed"} :
       EngineReturns(c, result)

Speaking == \E c \in Clients : StartSpeaking(c) \/ StopSpeaking(c)

RuntimeNext ==
  \/ \E c \in Clients : Post(c) \/ ClientStep(c) \/ DiskFails(c)
  \/ Speaking
  \/ Restart

(* Threads run; the lock goes to every thread that keeps waiting for it     *)
(* while it is given back again and again; a workflow ends (WorkflowRun).   *)
RuntimeFairness ==
  /\ \A c \in Clients : SF_runtimeVars(Acquire(c))
                        /\ WF_runtimeVars(ClientStep(c))
  /\ WF_runtimeVars(Speaking)

-----------------------------------------------------------------------------
RuntimeTypeOK ==
  /\ \A c \in Clients : inode[c] \in Inodes \cup {NoOne}
  /\ lock \in Clients \cup {NoOne} /\ tmp \in Inodes \cup {NoOne}
  /\ file \in Inodes \cup {NoOne} /\ restarts \in 0 .. MaxRestarts

(* What a client was told has been kept: once a request is answered, its    *)
(* question and its answer are in the history and in the file, which can be *)
(* read at every moment, so that no crash and no failed save, at any point  *)
(* of any other request, loses them.                                        *)
Has(history, c) ==
  \A r \in Roles : \E k \in DOMAIN history : history[k] = <<c, r>>

AnswersKept ==
  /\ file # NoOne => data[file] # Torn
  /\ \A c \in Clients :
       step[c] = "answered" => Has(messages, c) /\ Has(Loaded, c)

(* Every request ends, whatever fails inside it, and the lock comes back.   *)
RequestsEnd ==
  \A c \in Clients : step[c] # "idle" ~> lock # c /\ step[c] \in
                       {"idle", "answered", "told", "error"}
=============================================================================
