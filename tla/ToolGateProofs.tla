--------------------------- MODULE ToolGateProofs ---------------------------
(***************************************************************************)
(* ToolGate and McpClient, for any number of executions, tools, plans and  *)
(* wishes of a model, and any bound: nothing runs that the gate has not    *)
(* passed, a call returns with its own answer, child processes are reaped, *)
(* and a cancelled plan stands still.                                      *)
(***************************************************************************)
EXTENDS ToolGate, TLAPS, SequenceTheorems

(* The actions of one execution, and what the processes behind it do.      *)
LEMMA StepCases ==
  ASSUME [Next]_vars
  PROVE  \/ \E e \in Executions :
              \/ NextStep(e) \/ NextWish(e) \/ SeesCancel(e) \/ AskProvider(e)
              \/ ProviderAnswers(e) \/ ProviderFails(e) \/ OutOfRounds(e)
              \/ Refuse(e) \/ Deny(e) \/ AskHuman(e) \/ Allow(e)
              \/ CriticalRefused(e) \/ ChildStarts(e) \/ McpReturns(e)
              \/ McpRaises(e) \/ ToolTimesOut(e)
              \/ HumanApproves(e) \/ HumanRefuses(e) \/ ToolEnds(e) \/ ChildKilled(e)
              \/ OrphanEnds(e)
              \/ Cancel(e) \/ CutShort(e) \/ GrantAndRetry(e)
              \/ (Send(e) \/ Skip(e)) /\ UNCHANGED gateVars
         \/ PipeEnds \/ McpStep \/ UNCHANGED vars
BY DEF Next, ExecutionStep, Environment

-----------------------------------------------------------------------------
(* A cancelled plan stands still: no invariant is needed, each action that *)
(* takes a step of the plan or asks the provider looks at the event first, *)
(* and a new attempt clears it.                                            *)
LEMMA CancelledStandsStill ==
  ASSUME [Next]_vars, NEW c \in cancelSet, c \in cancelSet'
  PROVE  rounds'[c] = rounds[c] /\ steps'[c] = steps[c]
<1> USE DEF loopVars, gateVars, given
<1>1. ASSUME NEW e \in Executions, NextStep(e)
      PROVE  rounds'[c] = rounds[c] /\ steps'[c] = steps[c]
  BY <1>1 DEF NextStep
<1>2. ASSUME NEW e \in Executions, NextWish(e) \/ ProviderAnswers(e)
      PROVE  rounds'[c] = rounds[c] /\ steps'[c] = steps[c]
  BY <1>2 DEF NextWish, ProviderAnswers
<1>3. ASSUME NEW e \in Executions, AskProvider(e)
      PROVE  rounds'[c] = rounds[c] /\ steps'[c] = steps[c]
  BY <1>3 DEF AskProvider
<1>4. ASSUME NEW e \in Executions, SeesCancel(e) \/ ProviderFails(e) \/ OutOfRounds(e)
      PROVE  rounds'[c] = rounds[c] /\ steps'[c] = steps[c]
  BY <1>4 DEF SeesCancel, ProviderFails, OutOfRounds
<1>5. ASSUME NEW e \in Executions,
             Refuse(e) \/ Deny(e) \/ AskHuman(e) \/ Allow(e) \/ HumanApproves(e) \/ HumanRefuses(e)
      PROVE  rounds'[c] = rounds[c] /\ steps'[c] = steps[c]
  BY <1>5 DEF Refuse, Deny, AskHuman, Allow, HumanApproves, HumanRefuses
<1>6. ASSUME NEW e \in Executions,
             CriticalRefused(e) \/ ChildStarts(e) \/ McpReturns(e) \/ McpRaises(e)
               \/ ToolTimesOut(e) \/ ToolEnds(e) \/ ChildKilled(e) \/ OrphanEnds(e)
      PROVE  rounds'[c] = rounds[c] /\ steps'[c] = steps[c]
  BY <1>6 DEF CriticalRefused, ChildStarts, McpReturns, McpRaises, ToolTimesOut, ToolEnds,
              ChildKilled, OrphanEnds
<1>7. ASSUME NEW e \in Executions, Cancel(e) \/ CutShort(e)
      PROVE  rounds'[c] = rounds[c] /\ steps'[c] = steps[c]
  BY <1>7 DEF Cancel, CutShort
<1>8. ASSUME NEW e \in Executions, GrantAndRetry(e)
      PROVE  rounds'[c] = rounds[c] /\ steps'[c] = steps[c]
  BY <1>8 DEF GrantAndRetry
<1>9. CASE UNCHANGED gateVars \/ PipeEnds \/ McpStep
  BY <1>9 DEF PipeEnds, McpStep
<1> QED
  BY <1>1, <1>2, <1>3, <1>4, <1>5, <1>6, <1>7, <1>8, <1>9, StepCases DEF vars

(* After cancel() the steps of the plan and the provider are left alone    *)
(* (native.py:76, 95).                                                     *)
THEOREM CancelAlwaysStopsPlan == Spec => CancelStopsPlan
<1>1. [Next]_vars =>
        (\A e \in cancelSet :
           e \in cancelSet' => rounds'[e] = rounds[e] /\ steps'[e] = steps[e])
  BY CancelledStandsStill
<1> QED
  BY <1>1, PTL DEF Spec, CancelStopsPlan
-----------------------------------------------------------------------------
(***************************************************************************)
(* AnswerIsOwn.  An id is the place of its request in the history of       *)
(* askers, so the newest request is the one whose id is compared, and      *)
(* while its asker reads it holds the lock, which nobody else can enter.   *)
(* What is in the pipe belongs to requests made so far.  The setup holds   *)
(* the lock alone before it lets anybody else in.                          *)
(***************************************************************************)
OwnLines == {Line("notice", 0)} \cup (IF ServerAsks THEN {Line("request", i) : i \in Nat} ELSE {})
LinesOf(n) == {Line(kind, i) : kind \in {"answer", "error"}, i \in 1..n} \cup OwnLines

HistoryFits == asker \in Seq(Users) /\ nextId = Len(asker)

PipeFits == owed \subseteq 1..nextId /\ inbox \in Seq(LinesOf(nextId))

LockFits ==
  \/ lock = <<>> /\ ~reading
  \/ lock = <<Setup>> /\ setup \in {"initialize", "list"}
  \/ lock \in Seq(Callers) /\ lock # <<>> /\ setup = "ready"

ReaderAskedLast == reading => asker # <<>> /\ asker[nextId] = lock[1]

(* (An id the server gave to a request of its own may be mistaken.)         *)
NoneMistaken == ServerAsks \/ AnswerIsOwn

McpInv ==
  /\ HistoryFits /\ PipeFits /\ LockFits /\ ReaderAskedLast
  /\ DOMAIN received = Users
  /\ NoneMistaken

LEMMA MaxIs ==
  ASSUME NEW S \in SUBSET Nat, NEW n \in S, \A m \in S : m <= n
  PROVE  Max(S) = n
<1>1. Max(S) \in S /\ \A m \in S : Max(S) >= m
  <2>1. \E x \in S : \A y \in S : x >= y
    OBVIOUS
  <2> QED
    BY <2>1 DEF Max
<1>2. Max(S) \in Nat /\ n \in Nat /\ Max(S) >= n /\ Max(S) <= n
  BY <1>1
<1> QED
  BY <1>2

LEMMA HolderIs ==
  ASSUME NEW u \in Users, Holder = u
  PROVE  lock # <<>> /\ lock[1] = u
BY McpAssumption DEF Holder

(* Whoever holds the lock as the setup does is alone, and early.           *)
LEMMA SetupIsAlone ==
  ASSUME McpInv, Holder = Setup
  PROVE  lock = <<Setup>> /\ setup \in {"initialize", "list"}
<1>1. lock # <<>> /\ lock[1] = Setup
  BY HolderIs DEF Users
<1>2. lock \notin Seq(Callers)
  <2> SUFFICES ASSUME lock \in Seq(Callers) PROVE FALSE
    OBVIOUS
  <2>1. Len(lock) \in Nat \ {0}
    BY <1>1, EmptySeq
  <2>2. lock[1] \in Callers
    BY <2>1, ElementOfSeq
  <2> QED
    BY <1>1, <2>2, McpAssumption
<1> QED
  BY <1>1, <1>2 DEF McpInv, LockFits

(* A tool call is in the queue of the lock only when the setup is over.    *)
LEMMA CallersCome ==
  ASSUME McpInv, NEW e \in Callers, NEW i \in DOMAIN lock, lock[i] = e
  PROVE  lock \in Seq(Callers) /\ lock # <<>> /\ setup = "ready"
<1>1. lock # <<>>
  OBVIOUS
<1>2. lock # <<Setup>>
  BY McpAssumption
<1> QED
  BY <1>1, <1>2 DEF McpInv, LockFits

LEMMA HeadLine ==
  ASSUME McpInv, inbox # <<>>
  PROVE  /\ Head(inbox) \in LinesOf(nextId)
         /\ Tail(inbox) \in Seq(LinesOf(nextId))
BY HeadTailProperties DEF McpInv, PipeFits

LEMMA McpInitInv == McpInit => McpInv
<1> SUFFICES ASSUME McpInit PROVE McpInv
  OBVIOUS
<1>1. HistoryFits /\ PipeFits
  BY EmptySeq DEF McpInit, HistoryFits, PipeFits
<1>2. LockFits /\ ReaderAskedLast /\ DOMAIN received = Users /\ NoneMistaken
  BY DEF McpInit, LockFits, ReaderAskedLast,
         NoneMistaken, AnswerIsOwn
<1> QED
  BY <1>1, <1>2 DEF McpInv

(* The steps of the pipe: nobody's answer and nobody's lock is touched.    *)
LEMMA PipeKeepsInv ==
  ASSUME McpInv, ServerAnswers \/ ServerSpeaks \/ ServerDies \/ Close
  PROVE  McpInv'
<1> USE DEF McpInv
<1>1. UNCHANGED <<setup, lock, reading, nextId, asker, received>>
  BY DEF ServerAnswers, ServerSpeaks, ServerDies, Close
<1>2. PipeFits'
  <2>1. CASE ServerAnswers
    <3>1. PICK i \in owed, kind \in {"answer", "error"} :
            inbox' = Append(inbox, Line(kind, i)) /\ owed' = owed \ {i}
      BY <2>1 DEF ServerAnswers
    <3>2. Line(kind, i) \in LinesOf(nextId)
      BY DEF PipeFits, LinesOf
    <3> QED
      BY <1>1, <3>1, <3>2, AppendProperties DEF PipeFits
  <2>2. CASE ServerSpeaks
    <3>1. PICK line \in OwnLines : inbox' = Append(inbox, line) /\ owed' = owed
      <4>1. \A i \in 1..MaxLines : i \in Nat
        BY McpAssumption
      <4> QED
        BY <2>2, <4>1 DEF ServerSpeaks, OwnLines
    <3>2. line \in LinesOf(nextId)
      BY DEF LinesOf
    <3> QED
      BY <1>1, <3>1, <3>2, AppendProperties DEF PipeFits
  <2>3. CASE ServerDies \/ Close
    BY <1>1, <2>3 DEF ServerDies, Close, PipeFits
  <2> QED
    BY <2>1, <2>2, <2>3
<1> QED
  BY <1>1, <1>2 DEF HistoryFits, LockFits, ReaderAskedLast,
                    NoneMistaken, AnswerIsOwn

LEMMA SendKeepsInv ==
  ASSUME McpInv, NEW u \in Users, Send(u)
  PROVE  McpInv'
<1> USE DEF McpInv, HistoryFits
<1>1. lock # <<>> /\ lock[1] = u
  BY HolderIs DEF Send
<1>2. /\ asker' = Append(asker, u) /\ nextId' = nextId + 1 /\ nextId \in Nat
      /\ reading' = TRUE /\ UNCHANGED <<setup, lock, inbox>>
  BY LenProperties DEF Send
<1>3. HistoryFits'
  BY <1>2, AppendProperties
<1>4. PipeFits'
  <2>1. LinesOf(nextId) \subseteq LinesOf(nextId')
    BY <1>2 DEF LinesOf
  <2>2. inbox' \in Seq(LinesOf(nextId'))
    BY <1>2, <2>1, LenProperties DEF PipeFits
  <2>3. owed' \subseteq 1..nextId'
    <3>1. owed \subseteq 1..nextId /\ owed' \subseteq owed \cup {nextId + 1}
      BY DEF Send, PipeFits
    <3>2. \A i \in 1..nextId \cup {nextId + 1} : i \in 1..nextId'
      BY <1>2
    <3> QED
      BY <3>1, <3>2
  <2> QED
    BY <2>2, <2>3 DEF PipeFits
<1>5. LockFits'
  BY <1>1, <1>2 DEF LockFits
<1>6. ReaderAskedLast'
  BY <1>1, <1>2, AppendProperties DEF ReaderAskedLast
<1>7. DOMAIN received' = Users /\ received'[u] = Nothing
      /\ \A w \in Users \ {u} : received'[w] = received[w]
  BY DEF Send
<1>8. ASSUME NEW w \in Users \ {u}
      PROVE  {i \in DOMAIN asker' : asker'[i] = w} = {i \in DOMAIN asker : asker[i] = w}
  <2>1. DOMAIN asker' = 1..Len(asker)+1 /\ DOMAIN asker = 1..Len(asker)
    BY <1>2, <1>3, AppendProperties, LenProperties
  <2>2. asker'[Len(asker)+1] = u /\ \A i \in 1..Len(asker) : asker'[i] = asker[i]
    BY <1>2, AppendProperties
  <2> QED
    BY <1>2, <2>1, <2>2
<1>9. NoneMistaken'
  BY <1>7, <1>8 DEF NoneMistaken, AnswerIsOwn
<1> QED
  BY <1>3, <1>4, <1>5, <1>6, <1>7, <1>9

LEMMA SkipKeepsInv ==
  ASSUME McpInv, NEW u \in Users, Skip(u)
  PROVE  McpInv'
<1>1. Tail(inbox) \in Seq(LinesOf(nextId))
  BY HeadLine DEF Skip
<1> QED
  BY <1>1 DEF McpInv, Skip, HistoryFits, PipeFits, LockFits, ReaderAskedLast,
              NoneMistaken, AnswerIsOwn

(* The line that carries the newest id answers the one who asked last.     *)
LEMMA NewestIsOwn ==
  ASSUME McpInv, NEW u \in Users, Sent(u), inbox # <<>>, Matches(Head(inbox)),
         received' = [received EXCEPT ![u] = Head(inbox)], asker' = asker
  PROVE  DOMAIN received' = Users /\ NoneMistaken'
<1> USE DEF McpInv, HistoryFits
<1>1. asker # <<>> /\ asker[nextId] = u
  BY HolderIs DEF Sent, ReaderAskedLast
<1>2. nextId \in Nat \ {0} /\ DOMAIN asker = 1..nextId
  BY <1>1, EmptySeq, LenProperties
<1>3. Max({i \in DOMAIN asker : asker[i] = u}) = nextId
  BY <1>1, <1>2, MaxIs
<1>4. Head(inbox).id = nextId /\ (ServerAsks \/ Head(inbox).kind \in {"answer", "error"})
  BY <1>2, HeadLine DEF Matches, LinesOf, OwnLines, Line
<1> QED
  BY <1>3, <1>4 DEF NoneMistaken, AnswerIsOwn

(* Leaving the queue of the lock moves its head only with the holder.      *)
LEMMA LeavesKeepsLock ==
  ASSUME McpInv, NEW e \in Callers, Leaves(e), UNCHANGED <<setup, asker, nextId>>
  PROVE  LockFits' /\ ReaderAskedLast' /\ setup = "ready"
<1>1. PICK i \in DOMAIN lock :
        lock[i] = e /\ lock' = RemoveAt(lock, i) /\ reading' = (reading /\ i # 1)
  BY DEF Leaves
<1>2. lock \in Seq(Callers) /\ lock # <<>> /\ setup = "ready"
  BY <1>1, CallersCome
<1>3. Len(lock) \in Nat /\ DOMAIN lock = 1..Len(lock) /\ \A k \in 1..Len(lock) : lock[k] \in Callers
  BY <1>2, LenProperties, ElementOfSeq
<1> DEFINE before == SubSeq(lock, 1, i - 1)
           after  == SubSeq(lock, i + 1, Len(lock))
<1>4. /\ before \in Seq(Callers) /\ Len(before) = i - 1
      /\ i # 1 => before[1] = lock[1]
  <2>1. i - 1 \in Int /\ 1 \in Int /\ \A k \in 1 .. i - 1 : lock[k] \in Callers
    BY <1>3
  <2>2. /\ before \in Seq(Callers) /\ Len(before) = IF 1 <= i - 1 THEN i - 1 - 1 + 1 ELSE 0
        /\ \A k \in 1 .. i - 1 - 1 + 1 : before[k] = lock[1 + k - 1]
    BY <2>1, SubSeqProperties
  <2> QED
    BY <1>3, <2>2
<1>5. after \in Seq(Callers)
  <2>1. i + 1 \in Int /\ Len(lock) \in Int /\ \A k \in i + 1 .. Len(lock) : lock[k] \in Callers
    BY <1>3
  <2> QED
    BY <2>1, SubSeqProperties
<1>6. lock' = before \o after
  BY <1>1 DEF RemoveAt
<1> HIDE DEF before, after
<1>7. /\ lock' \in Seq(Callers)
      /\ i # 1 => lock' # <<>> /\ lock'[1] = lock[1]
  BY <1>3, <1>4, <1>5, <1>6, ConcatProperties, LenProperties, EmptySeq
<1>8. LockFits'
  BY <1>1, <1>2, <1>7 DEF LockFits
<1>9. ReaderAskedLast'
  BY <1>1, <1>7 DEF McpInv, ReaderAskedLast
<1> QED
  BY <1>2, <1>8, <1>9

LEMMA CallerKeepsInv ==
  ASSUME McpInv, NEW e \in Callers, Return(e) \/ Raise(e) \/ Interrupt(e)
  PROVE  McpInv' /\ setup = "ready" /\ setup' = setup
<1>1. Leaves(e) /\ UNCHANGED <<setup, asker, nextId>>
  BY DEF Return, Raise, Interrupt
<1>2. LockFits' /\ ReaderAskedLast' /\ setup = "ready" /\ HistoryFits'
  BY <1>1, LeavesKeepsLock DEF McpInv, HistoryFits
<1>3. PipeFits'
  BY HeadLine DEF McpInv, PipeFits, Return, Raise, Interrupt
<1>4. DOMAIN received' = Users /\ NoneMistaken'
  <2>1. CASE Return(e)
    BY <2>1, NewestIsOwn DEF Return, Users
  <2>2. CASE Raise(e) \/ Interrupt(e)
    BY <2>2 DEF Raise, Interrupt, McpInv, NoneMistaken, AnswerIsOwn
  <2> QED
    BY <2>1, <2>2
<1> QED
  BY <1>1, <1>2, <1>3, <1>4 DEF McpInv

LEMMA EnterKeepsInv ==
  ASSUME McpInv, NEW e \in Callers, Enter(e), setup = "ready"
  PROVE  McpInv'
<1>1. lock \in Seq(Callers)
  BY EmptySeq DEF McpInv, LockFits
<1>2. lock' \in Seq(Callers) /\ lock' # <<>> /\ (lock # <<>> => lock'[1] = lock[1])
  <2>1. lock # <<>> => Len(lock) \in Nat \ {0}
    BY <1>1, EmptySeq
  <2> QED
    BY <1>1, <2>1, AppendProperties DEF Enter
<1>3. reading => lock # <<>>
  BY DEF McpInv, LockFits
<1> QED
  BY <1>2, <1>3 DEF McpInv, Enter, HistoryFits, PipeFits, LockFits, ReaderAskedLast,
                    NoneMistaken, AnswerIsOwn

(* The setup: it takes the lock first, and once it is over it is over.     *)
LEMMA SetupKeepsInv ==
  ASSUME McpInv, McpSetupStep
  PROVE  McpInv' /\ (setup = "ready" => setup' = "ready")
<1>1. CASE Connect
  <2>1. lock = <<>> /\ ~reading
    BY <1>1 DEF Connect, McpInv, LockFits
  <2> QED
    BY <1>1, <2>1 DEF Connect, McpInv, HistoryFits, PipeFits, LockFits, ReaderAskedLast,
                      NoneMistaken, AnswerIsOwn
<1>2. CASE Send(Setup) \/ Skip(Setup)
  BY <1>2, SendKeepsInv, SkipKeepsInv DEF Users, Send, Skip
<1>3. CASE SetupReturns
  <2>1. lock = <<Setup>> /\ setup \in {"initialize", "list"}
    BY <1>3, SetupIsAlone DEF SetupReturns, Sent
  <2>2. PipeFits' /\ HistoryFits'
    BY <1>3, HeadLine DEF SetupReturns, McpInv, HistoryFits, PipeFits
  <2>3. LockFits' /\ ReaderAskedLast'
    BY <1>3, <2>1 DEF SetupReturns, LockFits, ReaderAskedLast
  <2>4. DOMAIN received' = Users /\ NoneMistaken'
    BY <1>3, NewestIsOwn DEF SetupReturns, Users
  <2> QED
    BY <2>1, <2>2, <2>3, <2>4 DEF McpInv
<1>4. CASE SetupRaises
  <2>1. lock = <<Setup>> /\ setup \in {"initialize", "list"}
    BY <1>4, SetupIsAlone DEF SetupRaises, Sent
  <2> QED
    BY <1>4, <2>1 DEF SetupRaises, McpInv, HistoryFits, PipeFits, LockFits, ReaderAskedLast,
                      NoneMistaken, AnswerIsOwn
<1> QED
  BY <1>1, <1>2, <1>3, <1>4 DEF McpSetupStep
-----------------------------------------------------------------------------
(***************************************************************************)
(* RunsAreGated and ChildrenReaped.  Between the gate and the run lies an  *)
(* await while a human is asked; what was not forbidden before it is not   *)
(* forbidden after it, since the configuration never changes and grants    *)
(* only grow.                                                              *)
(***************************************************************************)
Shapes ==
  /\ DOMAIN stage = Executions /\ DOMAIN call = Executions /\ DOMAIN made = Executions
  /\ \E w \in Workloads : config = w.config
  /\ children \in [Executions -> Nat] /\ orphans \in [Executions -> Nat]

(* The tool of x has been entered.                                         *)
Entered(x) == stage[x] \in {"run", "child"}

Admitted(e) == Known(call[e].tool) /\ ~Forbidden(e, call[e].tool)

AllAdmitted == \A e \in Executions : stage[e] = "human" \/ Entered(e) => Admitted(e)

GateInv == Shapes /\ AllAdmitted /\ RunsAreGated /\ ChildrenReaped

ToolInv == McpInv /\ GateInv

LEMMA ToolInit == Init => ToolInv
<1> SUFFICES ASSUME Init PROVE ToolInv
  OBVIOUS
<1>1. McpInv
  BY McpInitInv DEF Init
<1>2. Shapes
  BY DEF Init, Shapes
<1>3. AllAdmitted /\ RunsAreGated /\ ChildrenReaped
  BY DEF Init, AllAdmitted, Entered, RunsAreGated, ChildrenReaped
<1> QED
  BY <1>1, <1>2, <1>3 DEF ToolInv, GateInv

(* What a step never takes back.                                           *)
Monotone ==
  /\ config' = config /\ granted \subseteq granted'
  /\ setup = "ready" => setup' = "ready"

(* x is where it was, with the call it had, its approval and its children. *)
Stays(x) ==
  /\ stage'[x] = stage[x] /\ call'[x] = call[x] /\ made'[x] = made[x]
  /\ children'[x] = children[x] /\ orphans'[x] = orphans[x]
  /\ <<x, made[x]>> \in approvals => <<x, made[x]>> \in approvals'

LEMMA StillAdmitted ==
  ASSUME Monotone, NEW x \in Executions, Admitted(x), call'[x] = call[x]
  PROVE  Admitted(x)'
BY DEF Monotone, Admitted, Known, Forbidden, Missing, Policy

(* The children of x are accounted for.                                    *)
Reaped(x) == children[x] = orphans[x] + (IF stage[x] = "child" THEN 1 ELSE 0)

(* Those that stay where they are stay gated.                              *)
LEMMA StaysGated ==
  ASSUME GateInv, Monotone, NEW x \in Executions, Stays(x)
  PROVE  /\ (stage[x] = "human" \/ Entered(x))' => Admitted(x)'
         /\ Entered(x)' => Passed(x)'
         /\ Reaped(x)'
<1>1. (stage[x] = "human" \/ Entered(x))' => Admitted(x) /\ Admitted(x)'
  BY StillAdmitted DEF GateInv, AllAdmitted, Entered, Stays
<1>2. Entered(x)' => Passed(x)'
  <2> SUFFICES ASSUME Entered(x)' PROVE Passed(x)'
    OBVIOUS
  <2>1. Passed(x) /\ Admitted(x)'
    BY <1>1 DEF GateInv, RunsAreGated, Entered, Stays
  <2> QED
    BY <2>1 DEF Passed, Admitted, Stays, Monotone, Policy, Risk
<1>3. Reaped(x)'
  BY DEF GateInv, ChildrenReaped, Reaped, Stays
<1> QED
  BY <1>1, <1>2, <1>3

(* A step of e alone keeps what holds of all, if it keeps what holds of e. *)
LEMMA AloneKeepsInv ==
  ASSUME GateInv, NEW e \in Executions, Monotone, Shapes',
         \A x \in Executions \ {e} : Stays(x),
         (stage[e] = "human" \/ Entered(e))' => Admitted(e)',
         Entered(e)' => Passed(e)',
         Reaped(e)'
  PROVE  GateInv'
<1>1. AllAdmitted'
  BY StaysGated DEF AllAdmitted, Entered
<1>2. RunsAreGated'
  BY StaysGated DEF RunsAreGated, Entered
<1>3. ChildrenReaped'
  BY StaysGated DEF ChildrenReaped, Reaped
<1> QED
  BY <1>1, <1>2, <1>3 DEF GateInv

(* A step of e after which e neither waits for a human nor runs a tool.    *)
Retreats(e) ==
  /\ Monotone /\ Shapes'
  /\ \A x \in Executions \ {e} : Stays(x)
  /\ stage'[e] \notin {"human", "run", "child"}
  /\ children'[e] = orphans'[e]

LEMMA RetreatKeepsInv ==
  ASSUME GateInv, NEW e \in Executions, Retreats(e)
  PROVE  GateInv'
<1>1. ~(stage[e] = "human" \/ Entered(e))' /\ Reaped(e)'
  BY DEF Retreats, Shapes, Entered, Reaped
<1> QED
  BY <1>1, AloneKeepsInv DEF Retreats

LEMMA CallIsOver ==
  ASSUME Shapes, NEW e \in Executions, NEW how, NEW ok,
         CallFails(e, how) \/ CallReturns(e, ok)
  PROVE  /\ DOMAIN stage' = Executions /\ DOMAIN call' = Executions
         /\ \A x \in Executions \ {e} : stage'[x] = stage[x] /\ call'[x] = call[x]
         /\ stage'[e] \notin {"human", "run", "child"}
BY DEF Shapes, CallFails, CallReturns, Ends

(* The steps of the loop, of the provider and of cancel(): no tool runs.   *)
LEMMA LoopRetreats ==
  ASSUME ToolInv, NEW e \in Executions,
         \/ NextStep(e) \/ NextWish(e) \/ SeesCancel(e) \/ AskProvider(e)
         \/ ProviderAnswers(e) \/ ProviderFails(e) \/ OutOfRounds(e) \/ GrantAndRetry(e)
  PROVE  Retreats(e) /\ UNCHANGED mcpVars
<1> USE DEF loopVars, given
<1>1. /\ DOMAIN stage = Executions /\ DOMAIN call = Executions /\ DOMAIN made = Executions
      /\ Shapes
  BY DEF ToolInv, GateInv, Shapes
<1>2. stage[e] \in {"loop", "provider", "done"}
  BY DEF NextStep, NextWish, SeesCancel, AskProvider, ProviderAnswers, ProviderFails,
         OutOfRounds, GrantAndRetry
<1>3. children[e] = orphans[e]
  BY <1>1, <1>2 DEF ToolInv, GateInv, ChildrenReaped, Shapes
<1>4. config' = config /\ children' = children /\ orphans' = orphans /\ UNCHANGED mcpVars
  BY DEF NextStep, NextWish, SeesCancel, AskProvider, ProviderAnswers, ProviderFails,
         OutOfRounds, GrantAndRetry
<1>5. granted \subseteq granted'
      /\ \A x \in Executions \ {e} : <<x, made[x]>> \in approvals => <<x, made[x]>> \in approvals'
  <2>1. CASE GrantAndRetry(e)
    <3>1. approvals' = {a \in approvals : a[1] # e}
      BY <2>1 DEF GrantAndRetry
    <3> QED
      BY <2>1, <3>1 DEF GrantAndRetry
  <2>2. CASE ~GrantAndRetry(e)
    BY <2>2 DEF NextStep, NextWish, SeesCancel, AskProvider, ProviderAnswers, ProviderFails,
                OutOfRounds
  <2> QED
    BY <2>1, <2>2
<1>6. /\ DOMAIN stage' = Executions /\ DOMAIN call' = Executions /\ DOMAIN made' = Executions
      /\ \A x \in Executions \ {e} :
           stage'[x] = stage[x] /\ call'[x] = call[x] /\ made'[x] = made[x]
      /\ stage'[e] \in {"gate", "done", "provider", "loop"}
  <2>1. CASE NextStep(e) \/ NextWish(e)
    BY <1>1, <2>1 DEF NextStep, NextWish, Begins
  <2>2. CASE SeesCancel(e) \/ AskProvider(e) \/ ProviderFails(e) \/ OutOfRounds(e)
    BY <1>1, <2>2 DEF SeesCancel, AskProvider, ProviderFails, OutOfRounds, Ends
  <2>3. CASE ProviderAnswers(e)
    BY <1>1, <2>3 DEF ProviderAnswers, Ends
  <2>4. CASE GrantAndRetry(e)
    BY <1>1, <2>4 DEF GrantAndRetry
  <2> QED
    BY <2>1, <2>2, <2>3, <2>4
<1> QED
  BY <1>1, <1>3, <1>4, <1>5, <1>6 DEF Retreats, Monotone, Shapes, Stays, mcpVars

(* A call that is refused, returns, fails or is interrupted.               *)
LEMMA CallRetreats ==
  ASSUME ToolInv, NEW e \in Executions,
         \/ Refuse(e) \/ Deny(e) \/ HumanRefuses(e) \/ CriticalRefused(e) \/ ToolEnds(e)
         \/ ChildKilled(e) \/ McpReturns(e) \/ McpRaises(e) \/ ToolTimesOut(e) \/ CutShort(e)
  PROVE  Retreats(e) /\ (\/ UNCHANGED mcpVars
                         \/ Return(e) \/ Raise(e) \/ Interrupt(e))
<1> USE DEF loopVars, given
<1>1. Shapes
  BY DEF ToolInv, GateInv
<1>2. config' = config /\ granted' = granted /\ made' = made /\ approvals' = approvals
  BY DEF Refuse, Deny, HumanRefuses, CriticalRefused, ToolEnds, ChildKilled, McpReturns,
         McpRaises, ToolTimesOut, CutShort
<1>3. \/ UNCHANGED mcpVars
      \/ Return(e) \/ Raise(e) \/ Interrupt(e)
  BY DEF Refuse, Deny, HumanRefuses, CriticalRefused, ToolEnds, ChildKilled, McpReturns,
         McpRaises, ToolTimesOut, CutShort, Severed
<1>4. setup' = setup
  BY <1>3 DEF mcpVars, Return, Raise, Interrupt
<1>5. /\ DOMAIN stage' = Executions /\ DOMAIN call' = Executions
      /\ \A x \in Executions \ {e} : stage'[x] = stage[x] /\ call'[x] = call[x]
      /\ stage'[e] \notin {"human", "run", "child"}
  <2>1. CASE CutShort(e)
    BY <1>1, <2>1 DEF CutShort, Ends, Shapes
  <2>2. CASE ~CutShort(e)
    <3>1. \/ \E how : CallFails(e, how)
          \/ \E ok : CallReturns(e, ok)
      BY <2>2 DEF Refuse, Deny, HumanRefuses, CriticalRefused, ToolEnds, ChildKilled,
                  McpReturns, McpRaises, ToolTimesOut
    <3> QED
      BY <1>1, <3>1, CallIsOver
  <2> QED
    BY <2>1, <2>2
<1>6. /\ children' \in [Executions -> Nat] /\ orphans' \in [Executions -> Nat]
      /\ \A x \in Executions \ {e} : children'[x] = children[x] /\ orphans'[x] = orphans[x]
      /\ children'[e] = orphans'[e]
  <2>1. /\ children \in [Executions -> Nat] /\ orphans \in [Executions -> Nat]
        /\ children[e] = orphans[e] + (IF stage[e] = "child" THEN 1 ELSE 0)
    BY <1>1 DEF Shapes, ToolInv, GateInv, ChildrenReaped
  <2>2. CASE /\ stage[e] # "child"
             /\ children' = children /\ orphans' = orphans
    BY <2>1, <2>2
  <2>3. CASE /\ stage[e] = "child"
             /\ children' = [children EXCEPT ![e] = @ - 1] /\ orphans' = orphans
    BY <2>1, <2>3
  <2>4. CASE /\ stage[e] = "child"
             /\ children' = children /\ orphans' = [orphans EXCEPT ![e] = @ + 1]
    BY <2>1, <2>4
  <2>5. CASE Refuse(e) \/ Deny(e) \/ HumanRefuses(e) \/ CriticalRefused(e)
    BY <2>2, <2>5 DEF Refuse, Deny, HumanRefuses, CriticalRefused, Runs
  <2>6. CASE ToolEnds(e) \/ ChildKilled(e)
    BY <2>2, <2>3, <2>6 DEF ToolEnds, ChildKilled, Runs
  <2>7. CASE McpReturns(e) \/ McpRaises(e)
    BY <2>2, <2>7 DEF McpReturns, McpRaises, Runs
  <2>8. CASE ToolTimesOut(e) \/ CutShort(e)
    BY <2>2, <2>4, <2>8 DEF ToolTimesOut, CutShort, Severed
  <2> QED
    BY <2>5, <2>6, <2>7, <2>8
<1>7. Shapes' /\ Monotone
  BY <1>1, <1>2, <1>4, <1>5, <1>6 DEF Shapes, Monotone
<1> QED
  BY <1>2, <1>3, <1>5, <1>6, <1>7 DEF Retreats, Stays

(* The gate lets a call in, at once or after asking a human.               *)
LEMMA Advances ==
  ASSUME ToolInv, NEW e \in Executions, Allow(e) \/ AskHuman(e) \/ HumanApproves(e)
  PROVE  GateInv' /\ (UNCHANGED mcpVars \/ (Enter(e) /\ setup = "ready"))
<1> USE DEF loopVars, given
<1>1. Shapes
  BY DEF ToolInv, GateInv
<1>2. /\ UNCHANGED <<config, granted, call, made, children, orphans>>
      /\ approvals \subseteq approvals'
      /\ stage'[e] \in {"human", "run"} /\ DOMAIN stage' = Executions
      /\ \A x \in Executions \ {e} : stage'[x] = stage[x]
  BY <1>1 DEF Allow, AskHuman, HumanApproves, Enters, Shapes
<1>3. /\ UNCHANGED mcpVars \/ Enter(e)
      /\ Enter(e) /\ ~UNCHANGED mcpVars => Tools[call[e].tool].kind = "mcp"
  BY DEF Allow, AskHuman, HumanApproves, Enters
<1>4. setup' = setup
  BY <1>3 DEF mcpVars, Enter
<1>5. Monotone /\ Shapes'
  BY <1>1, <1>2, <1>4 DEF Monotone, Shapes
<1>6. Admitted(e)
  <2>1. CASE Allow(e) \/ AskHuman(e)
    BY <2>1 DEF Allow, AskHuman, Admitted, Evaluate
  <2>2. CASE HumanApproves(e)
    BY <2>2 DEF HumanApproves, ToolInv, GateInv, AllAdmitted
  <2> QED
    BY <2>1, <2>2
<1>7. \A x \in Executions \ {e} : Stays(x)
  BY <1>2 DEF Stays
<1>8. Admitted(e)'
  BY <1>2, <1>5, <1>6, StillAdmitted
<1>9. Entered(e)' => Passed(e)'
  <2>1. CASE Allow(e)
    <3>1. Evaluate(e, call[e].tool) = "allow" /\ call[e].tool \in DOMAIN Tools
      BY <2>1 DEF Allow, Known
    <3>2. Risk(call[e].tool) \in Nat /\ config.ceiling \in Nat
      BY <1>1, <3>1, ToolAssumption DEF Risk, Shapes
    <3>3. Passed(e)
      BY <3>1, <3>2 DEF Passed, Evaluate
    <3> QED
      BY <1>2, <1>8, <3>3 DEF Passed, Admitted, Policy, Risk
  <2>2. CASE AskHuman(e)
    BY <1>1, <2>2 DEF AskHuman, Shapes, Entered
  <2>3. CASE HumanApproves(e)
    <3>1. <<e, made'[e]>> \in approvals'
      BY <2>3, <1>2 DEF HumanApproves
    <3> QED
      BY <1>8, <3>1 DEF Passed, Admitted
  <2> QED
    BY <2>1, <2>2, <2>3
<1>10. Reaped(e)'
  <2>1. stage[e] # "child" /\ stage'[e] # "child"
    BY <1>2 DEF Allow, AskHuman, HumanApproves
  <2> QED
    BY <1>2, <2>1 DEF Reaped, ToolInv, GateInv, ChildrenReaped
<1>11. GateInv'
  BY <1>5, <1>7, <1>8, <1>9, <1>10, AloneKeepsInv DEF ToolInv
<1>12. UNCHANGED mcpVars \/ (Enter(e) /\ setup = "ready")
  BY <1>3, <1>6 DEF Admitted, Known
<1> QED
  BY <1>11, <1>12

(* A child starts in a call that runs; an orphan ends.                     *)
LEMMA ChildrenComeAndGo ==
  ASSUME GateInv, NEW e \in Executions, ChildStarts(e) \/ OrphanEnds(e)
  PROVE  GateInv' /\ UNCHANGED mcpVars
<1> USE DEF loopVars, given
<1>1. /\ Shapes
      /\ children[e] = orphans[e] + (IF stage[e] = "child" THEN 1 ELSE 0)
  BY DEF GateInv, ChildrenReaped
<1>2. UNCHANGED <<config, granted, call, made, approvals, mcpVars>>
  BY DEF ChildStarts, OrphanEnds
<1>3. /\ DOMAIN stage' = Executions
      /\ children' \in [Executions -> Nat] /\ orphans' \in [Executions -> Nat]
      /\ \A x \in Executions \ {e} :
           stage'[x] = stage[x] /\ children'[x] = children[x] /\ orphans'[x] = orphans[x]
      /\ Reaped(e)'
  <2>1. CASE ChildStarts(e)
    BY <1>1, <2>1 DEF ChildStarts, Shapes, Runs, Reaped
  <2>2. CASE OrphanEnds(e)
    <3>1. orphans[e] - 1 \in Nat /\ children[e] - 1 \in Nat /\ stage' = stage
      BY <1>1, <2>2 DEF OrphanEnds, Shapes
    <3> QED
      BY <1>1, <2>2, <3>1 DEF OrphanEnds, Shapes, Reaped
  <2> QED
    BY <2>1, <2>2
<1>4. Monotone /\ Shapes' /\ \A x \in Executions \ {e} : Stays(x)
  BY <1>1, <1>2, <1>3 DEF Monotone, Shapes, Stays, mcpVars
<1>5. /\ (stage[e] = "human" \/ Entered(e))' => stage[e] = "human" \/ Entered(e)
      /\ Entered(e)' => Entered(e)
  BY <1>1 DEF ChildStarts, OrphanEnds, Runs, Shapes, Entered
<1>6. (stage[e] = "human" \/ Entered(e))' => Admitted(e)'
  BY <1>2, <1>4, <1>5, StillAdmitted DEF GateInv, AllAdmitted
<1>7. Entered(e)' => Passed(e)'
  <2> SUFFICES ASSUME Entered(e)' PROVE Passed(e)'
    OBVIOUS
  <2>1. Passed(e)
    BY <1>5 DEF GateInv, RunsAreGated, Entered
  <2> QED
    BY <1>2, <2>1 DEF Passed, Forbidden, Missing, Policy, Risk
<1> QED
  BY <1>2, <1>3, <1>4, <1>6, <1>7, AloneKeepsInv

(* Steps that leave every call where it is.                                *)
LEMMA StandingKeepsGate ==
  ASSUME GateInv, UNCHANGED <<config, granted, stage, call, made, approvals, children, orphans>>,
         setup = "ready" => setup' = "ready"
  PROVE  GateInv'
<1>1. Monotone /\ Shapes' /\ \A x \in Executions : Stays(x)
  BY DEF Monotone, GateInv, Shapes, Stays
<1>2. AllAdmitted' /\ RunsAreGated'
  BY <1>1, StaysGated DEF AllAdmitted, RunsAreGated, Entered
<1>3. ChildrenReaped'
  BY DEF GateInv, ChildrenReaped
<1> QED
  BY <1>1, <1>2, <1>3 DEF GateInv

LEMMA ToolStep ==
  ASSUME ToolInv, [Next]_vars
  PROVE  ToolInv'
<1> USE DEF loopVars, gateVars, given
<1>1. McpInv /\ GateInv /\ Executions = Callers /\ Executions \subseteq Users
  BY ToolAssumption DEF ToolInv, Users
<1>2. UNCHANGED mcpVars => McpInv'
  BY <1>1 DEF mcpVars, McpInv, HistoryFits, PipeFits, LockFits, ReaderAskedLast,
              NoneMistaken, AnswerIsOwn
<1>3. ASSUME NEW e \in Executions,
             \/ NextStep(e) \/ NextWish(e) \/ SeesCancel(e) \/ AskProvider(e)
             \/ ProviderAnswers(e) \/ ProviderFails(e) \/ OutOfRounds(e) \/ GrantAndRetry(e)
      PROVE  ToolInv'
  BY <1>1, <1>2, <1>3, LoopRetreats, RetreatKeepsInv DEF ToolInv
<1>4. ASSUME NEW e \in Executions,
             \/ Refuse(e) \/ Deny(e) \/ HumanRefuses(e) \/ CriticalRefused(e) \/ ToolEnds(e)
             \/ ChildKilled(e) \/ McpReturns(e) \/ McpRaises(e) \/ ToolTimesOut(e) \/ CutShort(e)
      PROVE  ToolInv'
  BY <1>1, <1>2, <1>4, CallRetreats, RetreatKeepsInv, CallerKeepsInv DEF ToolInv
<1>5. ASSUME NEW e \in Executions, Allow(e) \/ AskHuman(e) \/ HumanApproves(e)
      PROVE  ToolInv'
  BY <1>1, <1>2, <1>5, Advances, EnterKeepsInv DEF ToolInv
<1>6. ASSUME NEW e \in Executions, ChildStarts(e) \/ OrphanEnds(e)
      PROVE  ToolInv'
  BY <1>1, <1>2, <1>6, ChildrenComeAndGo DEF ToolInv
<1>7. ASSUME UNCHANGED <<config, granted, stage, call, made, approvals, children, orphans>>,
             setup = "ready" => setup' = "ready"
      PROVE  GateInv'
  BY <1>1, <1>7, StandingKeepsGate
<1>8. ASSUME NEW e \in Executions, Send(e) \/ Skip(e), UNCHANGED gateVars
      PROVE  ToolInv'
  <2>1. McpInv' /\ setup' = setup
    BY <1>1, <1>8, SendKeepsInv, SkipKeepsInv DEF Send, Skip
  <2> QED
    BY <1>7, <1>8, <2>1 DEF ToolInv
<1>12. ASSUME NEW e \in Executions, Cancel(e)
       PROVE  ToolInv'
  BY <1>2, <1>7, <1>12 DEF Cancel, ToolInv, mcpVars
<1>9. CASE PipeEnds
  <2>1. McpInv' /\ setup' = setup
    BY <1>1, <1>9, PipeKeepsInv DEF PipeEnds, ServerDies, Close
  <2> QED
    BY <1>7, <1>9, <2>1 DEF ToolInv, PipeEnds
<1>10. CASE McpStep
  <2>1. McpInv' /\ (setup = "ready" => setup' = "ready")
    <3>1. CASE McpSetupStep
      BY <1>1, <3>1, SetupKeepsInv
    <3>2. CASE ServerAnswers \/ ServerSpeaks
      BY <1>1, <3>2, PipeKeepsInv DEF ServerAnswers, ServerSpeaks
    <3> QED
      BY <1>10, <3>1, <3>2 DEF McpStep
  <2> QED
    BY <1>7, <1>10, <2>1 DEF ToolInv, McpStep
<1>11. CASE UNCHANGED vars
  BY <1>2, <1>7, <1>11 DEF vars, mcpVars, ToolInv
<1> QED
  BY <1>3, <1>4, <1>5, <1>6, <1>8, <1>9, <1>10, <1>11, <1>12, StepCases

(***************************************************************************)
(* What the gate and the pipe need of each other: a tool of the server is  *)
(* let in only when the setup of the server is over, which is what keeps   *)
(* its lock in order.                                                      *)
(***************************************************************************)
THEOREM ToolInvariant == Spec => []ToolInv
<1>1. Init => ToolInv
  BY ToolInit
<1>2. ToolInv /\ [Next]_vars => ToolInv'
  BY ToolStep
<1> QED
  BY <1>1, <1>2, PTL DEF Spec

(* What runs has passed the gate, for any tools, policies, agents and      *)
(* workloads, and however many calls wait for a human (permissions.py:3).  *)
THEOREM RunsAlwaysGated == Spec => []RunsAreGated
<1>1. ToolInv => RunsAreGated
  BY DEF ToolInv, GateInv
<1> QED
  BY <1>1, ToolInvariant, PTL

(* A call returns with the answer to that very call, however many callers  *)
(* are interrupted and however late the answers come, provided the server  *)
(* sends no request of its own, whose id the client would take for an      *)
(* answer (client.py:107).                                                 *)
THEOREM AnswerAlwaysOwn == ASSUME ~ServerAsks PROVE Spec => []AnswerIsOwn
<1>1. ToolInv => AnswerIsOwn
  BY DEF ToolInv, McpInv, NoneMistaken
<1> QED
  BY <1>1, ToolInvariant, PTL

(* Whatever the number of calls, interruptions and retries, a child that   *)
(* runs belongs to the call in progress or was left behind by an           *)
(* interruption from outside (terminal.py:98).                             *)
THEOREM ChildrenAlwaysReaped == Spec => []ChildrenReaped
<1>1. ToolInv => ChildrenReaped
  BY DEF ToolInv, GateInv
<1> QED
  BY <1>1, ToolInvariant, PTL
=============================================================================
