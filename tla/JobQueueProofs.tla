---------------------------- MODULE JobQueueProofs ----------------------------
(***************************************************************************)
(* JobQueue, for any number of requests, daemons and clients: JobInv is an *)
(* invariant, the daemons implement RequestQueue, and what a thread of the *)
(* pool does to a job agrees with what its kernel found.                   *)
(***************************************************************************)
EXTENDS JobQueue, TLAPS, WellFoundedInduction, SequenceTheorems, FiniteSetTheorems

(* The actions of one daemon, client, host or job, as the cases of a step. *)
LEMMA StepCases ==
  ASSUME [Next]_vars
  PROVE  \/ \E r \in Requests : Create(r) \/ Fill(r)
         \/ \E c \in Clients, r \in Direct : ClientSpawns(c, r)
         \/ \E c \in Clients : ClientCloses(c)
         \/ \E d \in Daemons : \/ Scan(d) \/ Read(d) \/ EndOfSnapshot(d) \/ Unlink(d)
                               \/ Answer(d) \/ Abandon(d) \/ Close(d)
                               \/ AnswerFails(d) \/ Stop(d) \/ Restart(d)
         \/ \E h \in Hosts : RunJob(h) \/ Exit(h) \/ Crash(h)
         \/ \E j \in Jobs : StepJob(j) \/ FinishJob(j) \/ CancelJob(j)
         \/ UNCHANGED vars
  BY DEF Next, DaemonStep

LEMMA MinIsMember ==
  ASSUME NEW S \in SUBSET Nat, S # {}
  PROVE  Min(S) \in S
<1>1. PICK x \in S : \A y \in S : ~(<<y, x>> \in OpToRel(<, Nat))
  BY NatLessThanWellFounded, WFMin
<1>2. ASSUME NEW y \in S
      PROVE  x <= y
  <2>1. <<y, x>>[1] = y /\ <<y, x>>[2] = x /\ <<y, x>> \in Nat \X Nat
    OBVIOUS
  <2> QED
    BY <1>1, <2>1 DEF OpToRel
<1> QED
  BY <1>2 DEF Min

LEMMA JobInit ==
  ASSUME Init
  PROVE  JobInv
<1> USE DEF Init
<1>1. JobTypeOK
  BY EmptySeq DEF JobTypeOK
<1>2. TakenIsSettledOnce
  BY DEF TakenIsSettledOnce, Holds
<1> QED
  BY <1>1, <1>2 DEF JobInv

LEMMA SubmitType ==
  ASSUME JobTypeOK, NEW j \in Jobs, Submit(j)
  PROVE  /\ job' \in [Jobs -> {"none", "queued", "running", "completed", "failed"}]
         /\ pending' \in [Hosts -> Seq(Jobs)]
<1>1. j[1] \in Hosts
  BY DEF Jobs, Hosts
<1>2. Append(pending[j[1]], j) \in Seq(Jobs)
  BY <1>1, AppendProperties DEF JobTypeOK
<1> QED
  BY <1>1, <1>2 DEF Submit, JobTypeOK

(* Every variable of JobQueue keeps its type.                              *)
LEMMA JobTypeStep ==
  ASSUME JobInv, [Next]_vars
  PROVE  JobTypeOK'
<1> USE DEF JobTypeOK, JobInv, queueVars, daemonVars
<1>1. ASSUME NEW r \in Requests, Create(r) \/ Fill(r)
      PROVE  JobTypeOK'
  BY <1>1 DEF Create, Fill
<1>2. ASSUME NEW c \in Clients, NEW r \in Direct, ClientSpawns(c, r)
      PROVE  JobTypeOK'
  <2>1. <<c, r>> \in Jobs
    BY DEF Jobs
  <2> QED
    BY <1>2, <2>1, SubmitType DEF ClientSpawns
<1>3. ASSUME NEW c \in Clients, ClientCloses(c)
      PROVE  JobTypeOK'
  BY <1>3, EmptySeq DEF ClientCloses, ShutDown
<1>4. ASSUME NEW d \in Daemons
      PROVE  d \in Hosts
  BY <1>4 DEF Hosts
<1>5. ASSUME NEW d \in Daemons, Scan(d) \/ EndOfSnapshot(d)
      PROVE  JobTypeOK'
  <2>1. CASE Scan(d)
    <3>1. snapshot' \in [Daemons -> SUBSET Requests]
      BY <2>1 DEF Scan
    <3> QED
      BY <2>1, <3>1 DEF Scan
  <2>2. CASE EndOfSnapshot(d)
    BY <2>2 DEF EndOfSnapshot
  <2> QED
    BY <1>5, <2>1, <2>2
<1>6. ASSUME NEW d \in Daemons, Read(d)
      PROVE  JobTypeOK'
  <2>1. Min(snapshot[d]) \in snapshot[d]
    BY <1>6, MinIsMember, JobAssumption DEF Read
  <2> QED
    BY <1>6, <2>1 DEF Read
<1>7. ASSUME NEW d \in Daemons, Unlink(d)
      PROVE  JobTypeOK'
  <2>1. <<d, item[d]>> \in Jobs
    BY <1>7 DEF Unlink, TakenIsSettledOnce, Jobs
  <2>2. CASE file[item[d]] = "absent"
    BY <1>7, <2>2 DEF Unlink
  <2>3. CASE file[item[d]] # "absent"
    BY <1>7, <2>1, <2>3, SubmitType DEF Unlink
  <2> QED
    BY <2>2, <2>3
<1>8. ASSUME NEW d \in Daemons, at[d] = "wait"
      PROVE  item[d] \in Requests /\ <<d, item[d]>> \in Jobs
  BY <1>8 DEF TakenIsSettledOnce, Jobs
<1>9. ASSUME NEW d \in Daemons, Answer(d)
      PROVE  JobTypeOK'
  BY <1>8, <1>9 DEF Answer, Ended
<1>10. ASSUME NEW d \in Daemons, AnswerFails(d)
       PROVE  JobTypeOK'
  <2>1. item[d] \in Requests
    BY <1>8, <1>10 DEF AnswerFails
  <2>2. pending' \in [Hosts -> Seq(Jobs)]
    BY <1>10, EmptySeq DEF AnswerFails, ShutDown
  <2>3. process' \in [Hosts -> {"up", "closing", "down", "off"}]
    BY <1>10 DEF AnswerFails, ShutDown
  <2>4. dropped' \subseteq Requests /\ faults' \in Nat
    BY <1>10, <2>1 DEF AnswerFails
  <2> QED
    BY <1>10, <2>2, <2>3, <2>4 DEF AnswerFails
<1>11. ASSUME NEW d \in Daemons, Abandon(d)
       PROVE  JobTypeOK'
  BY <1>8, <1>11 DEF Abandon
<1>12. ASSUME NEW d \in Daemons, Stop(d)
       PROVE  JobTypeOK'
  BY <1>12 DEF Stop
<1>13. ASSUME NEW d \in Daemons, Close(d)
       PROVE  JobTypeOK'
  BY <1>13, EmptySeq DEF Close, ShutDown
<1>14. ASSUME NEW d \in Daemons, Restart(d)
       PROVE  JobTypeOK'
  BY <1>14 DEF Restart
<1>15. ASSUME NEW h \in Hosts, RunJob(h)
       PROVE  JobTypeOK'
  <2>1. Head(pending[h]) \in Jobs /\ Tail(pending[h]) \in Seq(Jobs)
    BY <1>15, HeadTailProperties DEF RunJob
  <2> QED
    BY <1>15, <2>1 DEF RunJob
<1>16. ASSUME NEW h \in Hosts, Exit(h)
       PROVE  JobTypeOK'
  BY <1>16, EmptySeq DEF Exit, Vanish
<1>17. ASSUME NEW h \in Hosts, Crash(h)
       PROVE  JobTypeOK'
  BY <1>17, EmptySeq DEF Crash, Vanish
<1>18. ASSUME NEW j \in Jobs, StepJob(j) \/ FinishJob(j) \/ CancelJob(j)
       PROVE  JobTypeOK'
  BY <1>18 DEF StepJob, FinishJob, CancelJob
<1>19. CASE UNCHANGED vars
  BY <1>19 DEF vars
<1> QED
  BY StepCases, <1>1, <1>2, <1>3, <1>5, <1>6, <1>7, <1>9, <1>10, <1>11, <1>12, <1>13,
     <1>14, <1>15, <1>16, <1>17, <1>18, <1>19
-----------------------------------------------------------------------------
(* What does not touch the files or the place of a daemon.                 *)
LEMMA QuietSettled ==
  ASSUME JobInv, UNCHANGED <<queueVars, dropped>>,
         \A d \in Daemons : /\ at'[d] \in {"unlink", "wait"} => at'[d] = at[d] /\ item'[d] = item[d]
                            /\ \A r \in Requests : Holds(d, r)' => Holds(d, r)
  PROVE  TakenIsSettledOnce'
  BY DEF JobInv, TakenIsSettledOnce, queueVars

(* Nobody holds a request that a daemon lets go.                           *)
LEMMA DropSettled ==
  ASSUME JobInv, NEW d \in Daemons, NEW r \in Requests, Holds(d, r),
         UNCHANGED <<queueVars, item>>, dropped' = dropped \cup {r},
         \A e \in Daemons : at'[e] \in {"unlink", "wait"} => at'[e] = at[e],
         \A e \in Daemons, q \in Requests : Holds(e, q)' => Holds(e, q) /\ e # d
  PROVE  TakenIsSettledOnce'
<1> USE DEF JobInv, JobTypeOK, TakenIsSettledOnce, queueVars
<1>1. r \in accepted /\ file[r] = "absent" /\ result[r] = "none"
  OBVIOUS
<1>2. ASSUME NEW e \in Daemons, Holds(e, r)'
      PROVE  FALSE
  BY <1>2
<1>3. \A q \in Requests :
       /\ file'[q] = "ready" => q \in accepted'
       /\ file'[q] = "torn" => q \notin accepted'
       /\ result'[q] # "none" \/ q \in dropped' => q \in accepted' /\ file'[q] = "absent"
       /\ ~(result'[q] # "none" /\ q \in dropped')
  BY <1>1
<1>4. \A e \in Daemons :
       /\ at'[e] \in {"unlink", "wait"} => item'[e] \in accepted'
       /\ \A q \in Requests : Holds(e, q)' =>
            /\ q \in accepted' /\ file'[q] = "absent" /\ result'[q] = "none" /\ q \notin dropped'
            /\ \A f \in Daemons : Holds(f, q)' => f = e
  BY <1>2
<1> QED
  BY <1>3, <1>4

LEMMA JobStep ==
  ASSUME JobInv, [Next]_vars
  PROVE  TakenIsSettledOnce'
<1> USE DEF JobInv, JobTypeOK, queueVars, daemonVars
<1>1. ASSUME NEW r \in Requests, Create(r)
      PROVE  TakenIsSettledOnce'
  BY <1>1 DEF Create, TakenIsSettledOnce, Holds
<1>2. ASSUME NEW r \in Requests, Fill(r)
      PROVE  TakenIsSettledOnce'
  BY <1>2 DEF Fill, TakenIsSettledOnce, Holds
<1>3. ASSUME NEW c \in Clients, NEW r \in Direct, ClientSpawns(c, r)
      PROVE  TakenIsSettledOnce'
  BY <1>3, QuietSettled DEF ClientSpawns, Holds
<1>4. ASSUME NEW c \in Clients, ClientCloses(c)
      PROVE  TakenIsSettledOnce'
  BY <1>4, QuietSettled, JobAssumption DEF ClientCloses, ShutDown, Holds
<1>5. ASSUME NEW d \in Daemons, Scan(d) \/ EndOfSnapshot(d) \/ Stop(d)
      PROVE  TakenIsSettledOnce'
  BY <1>5, QuietSettled DEF Scan, EndOfSnapshot, Stop, Holds
<1>6. ASSUME NEW d \in Daemons, Close(d)
      PROVE  TakenIsSettledOnce'
  BY <1>6, QuietSettled DEF Close, ShutDown, Holds
<1>7. ASSUME NEW d \in Daemons, Restart(d)
      PROVE  TakenIsSettledOnce'
  BY <1>7, QuietSettled DEF Restart, Holds
<1>8. ASSUME NEW d \in Daemons, Read(d)
      PROVE  TakenIsSettledOnce'
  <2>1. Min(snapshot[d]) \in Requests
    BY <1>8, MinIsMember, JobAssumption DEF Read
  <2>2. at'[d] = "unlink" => item'[d] \in accepted
    BY <1>8, <2>1 DEF Read, TakenIsSettledOnce
  <2>3. /\ \A e \in Daemons \ {d} : at'[e] = at[e] /\ item'[e] = item[e]
        /\ at'[d] # "wait"
        /\ UNCHANGED <<queueVars, dropped, process>>
    BY <1>8 DEF Read
  <2>4. \A e \in Daemons, r \in Requests : Holds(e, r)' => Holds(e, r)
    BY <2>3 DEF Holds
  <2> QED
    BY <2>2, <2>3, <2>4 DEF TakenIsSettledOnce
<1>9. ASSUME NEW d \in Daemons, Unlink(d)
      PROVE  TakenIsSettledOnce'
  <2>1. item[d] \in accepted /\ item[d] \in Requests
    BY <1>9 DEF Unlink, TakenIsSettledOnce
  <2>2. CASE file[item[d]] = "absent"
    BY <1>9, <2>2, QuietSettled DEF Unlink, Holds
  <2>3. CASE file[item[d]] # "absent"
    <3>1. file[item[d]] = "ready" /\ result[item[d]] = "none" /\ item[d] \notin dropped
      BY <2>1, <2>3 DEF TakenIsSettledOnce
    <3>2. \A e \in Daemons : ~Holds(e, item[d])
      BY <2>1, <3>1 DEF TakenIsSettledOnce
    <3>3. /\ file' = [file EXCEPT ![item[d]] = "absent"]
          /\ at' = [at EXCEPT ![d] = "wait"]
          /\ UNCHANGED <<accepted, result, item, process, dropped>>
      BY <1>9, <2>3 DEF Unlink
    <3>4. \A e \in Daemons, r \in Requests :
            Holds(e, r)' => (e = d /\ r = item[d]) \/ (e # d /\ Holds(e, r))
      BY <3>3 DEF Holds
    <3>5. \A r \in Requests :
            /\ file'[r] = "ready" => r \in accepted'
            /\ file'[r] = "torn" => r \notin accepted'
            /\ result'[r] # "none" \/ r \in dropped' => r \in accepted' /\ file'[r] = "absent"
            /\ ~(result'[r] # "none" /\ r \in dropped')
      BY <2>1, <3>3 DEF TakenIsSettledOnce
    <3>6. \A e \in Daemons :
            /\ at'[e] \in {"unlink", "wait"} => item'[e] \in accepted'
            /\ \A r \in Requests : Holds(e, r)' =>
                 /\ r \in accepted' /\ file'[r] = "absent" /\ result'[r] = "none" /\ r \notin dropped'
                 /\ \A f \in Daemons : Holds(f, r)' => f = e
      BY <2>1, <3>1, <3>2, <3>3, <3>4 DEF TakenIsSettledOnce
    <3> QED
      BY <3>5, <3>6 DEF TakenIsSettledOnce
  <2> QED
    BY <2>2, <2>3
<1>10. ASSUME NEW d \in Daemons, process[d] = "up", at[d] = "wait"
       PROVE  item[d] \in Requests /\ Holds(d, item[d])
  BY <1>10 DEF TakenIsSettledOnce, Holds
<1>11. ASSUME NEW d \in Daemons, Answer(d)
       PROVE  TakenIsSettledOnce'
  <2>1. item[d] \in Requests /\ Holds(d, item[d])
    BY <1>10, <1>11 DEF Answer
  <2>2. /\ item[d] \in accepted /\ file[item[d]] = "absent" /\ item[d] \notin dropped
        /\ \A e \in Daemons : Holds(e, item[d]) => e = d
    BY <2>1 DEF TakenIsSettledOnce
  <2>3. /\ at' = [at EXCEPT ![d] = "next"] /\ UNCHANGED <<file, accepted, item, process, dropped>>
        /\ \A r \in Requests : r # item[d] => result'[r] = result[r]
    BY <1>11 DEF Answer
  <2>4. \A e \in Daemons, r \in Requests : Holds(e, r)' => Holds(e, r) /\ e # d /\ r # item[d]
    BY <2>2, <2>3 DEF Holds
  <2>5. \A r \in Requests :
          /\ file'[r] = "ready" => r \in accepted'
          /\ file'[r] = "torn" => r \notin accepted'
          /\ result'[r] # "none" \/ r \in dropped' => r \in accepted' /\ file'[r] = "absent"
          /\ ~(result'[r] # "none" /\ r \in dropped')
    BY <2>2, <2>3 DEF TakenIsSettledOnce
  <2>6. \A e \in Daemons :
          /\ at'[e] \in {"unlink", "wait"} => item'[e] \in accepted'
          /\ \A r \in Requests : Holds(e, r)' =>
               /\ r \in accepted' /\ file'[r] = "absent" /\ result'[r] = "none" /\ r \notin dropped'
               /\ \A f \in Daemons : Holds(f, r)' => f = e
    BY <2>3, <2>4 DEF TakenIsSettledOnce
  <2> QED
    BY <2>5, <2>6 DEF TakenIsSettledOnce
<1>12. ASSUME NEW d \in Daemons, AnswerFails(d)
       PROVE  TakenIsSettledOnce'
  <2>1. \A e \in Daemons, q \in Requests : Holds(e, q)' => Holds(e, q) /\ e # d
    BY <1>12 DEF AnswerFails, ShutDown, Holds, Hosts
  <2> QED
    BY <1>10, <1>12, <2>1, DropSettled DEF AnswerFails
<1>13. ASSUME NEW d \in Daemons, Abandon(d)
       PROVE  TakenIsSettledOnce'
  <2>1. \A e \in Daemons, q \in Requests : Holds(e, q)' => Holds(e, q) /\ e # d
    BY <1>13 DEF Abandon, Holds
  <2>2. \A e \in Daemons : at'[e] \in {"unlink", "wait"} => at'[e] = at[e]
    BY <1>13 DEF Abandon
  <2> QED
    BY <1>10, <1>13, <2>1, <2>2, DropSettled DEF Abandon
<1>14. ASSUME NEW h \in Hosts, Exit(h) \/ RunJob(h)
       PROVE  TakenIsSettledOnce'
  <2>1. CASE Exit(h)
    BY <2>1, QuietSettled DEF Exit, Vanish, Holds
  <2>2. CASE RunJob(h)
    BY <2>2, QuietSettled DEF RunJob, Holds
  <2> QED
    BY <1>14, <2>1, <2>2
<1>15. ASSUME NEW h \in Hosts, Crash(h)
       PROVE  TakenIsSettledOnce'
  <2>1. /\ process' = [process EXCEPT ![h] = "down"] /\ UNCHANGED <<queueVars, daemonVars>>
        /\ dropped' = dropped \cup
             {r \in Requests : h \in Daemons /\ process[h] = "up" /\ at[h] = "wait" /\ item[h] = r}
    BY <1>15 DEF Crash, Vanish
  <2>2. \A e \in Daemons, q \in Requests : Holds(e, q)' => Holds(e, q) /\ e # h
    BY <2>1 DEF Holds
  <2>3. CASE h \in Daemons /\ process[h] = "up" /\ at[h] = "wait"
    <3>1. item[h] \in Requests /\ Holds(h, item[h])
      BY <1>10, <2>3
    <3>2. dropped' = dropped \cup {item[h]}
      BY <2>1, <2>3, <3>1
    <3> QED
      BY <2>1, <2>2, <2>3, <3>1, <3>2, DropSettled
  <2>4. CASE ~(h \in Daemons /\ process[h] = "up" /\ at[h] = "wait")
    <3>1. dropped' = dropped
      BY <2>1, <2>4
    <3> QED
      BY <2>1, <2>2, <3>1, QuietSettled
  <2> QED
    BY <2>3, <2>4
<1>16. ASSUME NEW j \in Jobs, StepJob(j) \/ FinishJob(j) \/ CancelJob(j)
       PROVE  TakenIsSettledOnce'
  BY <1>16, QuietSettled DEF StepJob, FinishJob, CancelJob, Holds
<1>17. CASE UNCHANGED vars
  BY <1>17, QuietSettled DEF vars, Holds
<1> QED
  BY StepCases, <1>1, <1>2, <1>3, <1>4, <1>5, <1>6, <1>7, <1>8, <1>9, <1>11, <1>12, <1>13,
     <1>14, <1>15, <1>16, <1>17

(* A request is held by one daemon at most, and answered or lost once.     *)
THEOREM JobInvariant == Spec => []JobInv
<1>1. Init => JobInv
  BY JobInit
<1>2. JobInv /\ [Next]_vars => JobInv'
  BY JobTypeStep, JobStep DEF JobInv
<1> QED
  BY <1>1, <1>2, PTL DEF Spec
-----------------------------------------------------------------------------
(* The two ways a step shows in RequestQueue without being one of its own: *)
(* not at all, and through the one request it is about.                    *)
LEMMA StutterStep ==
  ASSUME UNCHANGED <<queueVars, dropped>>,
         \A d \in Daemons, r \in Requests : Holds(d, r)' <=> Holds(d, r)
  PROVE  UNCHANGED <<[r \in Requests |-> StateOf(r)],
                     [r \in Requests |-> {d \in Daemons : Holds(d, r)}]>>
  BY DEF StateOf, queueVars

LEMMA HeldIsTaken ==
  ASSUME JobInv, NEW d \in Daemons, NEW r \in Requests, Holds(d, r)
  PROVE  StateOf(r) = "taken" /\ \A e \in Daemons : Holds(e, r) => e = d
  BY DEF JobInv, TakenIsSettledOnce, StateOf

(* A daemon lets a request go.                                             *)
LEMMA LetGo ==
  ASSUME JobInv, NEW d \in Daemons, NEW r \in Requests, Holds(d, r),
         NEW end \in {"answered", "lost"},
         \A q \in Requests : StateOf(q)' = IF q = r THEN end ELSE StateOf(q),
         \A e \in Daemons, q \in Requests : Holds(e, q)' <=> Holds(e, q) /\ e # d
  PROVE  Queue!QueueNext
<1>1. StateOf(r) = "taken" /\ \A e \in Daemons : Holds(e, r) => e = d
  BY HeldIsTaken
<1>2. \A q \in Requests : Holds(d, q) => q = r
  BY DEF Holds
<1>3. Queue!GiveBack(r, end)
  BY <1>1, <1>2 DEF Queue!GiveBack
<1> QED
  BY <1>3 DEF Queue!QueueNext

LEMMA Dropped ==
  ASSUME JobInv, NEW d \in Daemons, NEW r \in Requests, Holds(d, r),
         UNCHANGED queueVars, dropped' = dropped \cup {r},
         \A e \in Daemons, q \in Requests : Holds(e, q)' <=> Holds(e, q) /\ e # d
  PROVE  Queue!QueueNext
<1>1. r \in accepted /\ file[r] = "absent" /\ result[r] = "none"
  BY DEF JobInv, TakenIsSettledOnce
<1>2. \A q \in Requests : StateOf(q)' = IF q = r THEN "lost" ELSE StateOf(q)
  BY <1>1 DEF StateOf, queueVars
<1> QED
  BY <1>2, LetGo

LEMMA QueueStep ==
  ASSUME JobInv, [Next]_vars
  PROVE  [Queue!QueueNext]_<<[r \in Requests |-> StateOf(r)],
                             [r \in Requests |-> {d \in Daemons : Holds(d, r)}]>>
<1> USE DEF JobInv, JobTypeOK, queueVars, daemonVars
<1> DEFINE Goal == [Queue!QueueNext]_<<[r \in Requests |-> StateOf(r)],
                                       [r \in Requests |-> {d \in Daemons : Holds(d, r)}]>>
<1> HIDE DEF Goal
<1>0. Queue!QueueNext => Goal
  BY DEF Goal
<1>00. ASSUME UNCHANGED <<queueVars, dropped>>,
              \A d \in Daemons, r \in Requests : Holds(d, r)' <=> Holds(d, r)
       PROVE  Goal
  BY <1>00, StutterStep DEF Goal
<1>1. ASSUME NEW r \in Requests, Create(r)
      PROVE  Goal
  <2>1. \A q \in Requests : StateOf(q)' = StateOf(q)
    BY <1>1 DEF Create, StateOf
  <2>2. \A d \in Daemons, q \in Requests : Holds(d, q)' <=> Holds(d, q)
    BY <1>1 DEF Create, Holds
  <2> QED
    BY <2>1, <2>2 DEF Goal
<1>2. ASSUME NEW r \in Requests, Fill(r)
      PROVE  Goal
  <2>1. r \notin accepted
    BY <1>2 DEF Fill, TakenIsSettledOnce
  <2>2. StateOf(r) = "new"
    BY <2>1 DEF StateOf
  <2>3. \A q \in Requests : StateOf(q)' = IF q = r THEN "waiting" ELSE StateOf(q)
    BY <1>2 DEF Fill, StateOf
  <2>4. \A d \in Daemons, q \in Requests : Holds(d, q)' <=> Holds(d, q)
    BY <1>2 DEF Fill, Holds
  <2>5. Queue!Accept(r)
    BY <2>2, <2>3, <2>4 DEF Queue!Accept
  <2> QED
    BY <1>0, <2>5 DEF Queue!QueueNext
<1>3. ASSUME NEW c \in Clients, NEW r \in Direct, ClientSpawns(c, r)
      PROVE  Goal
  BY <1>3, <1>00 DEF ClientSpawns, Holds
<1>4. ASSUME NEW c \in Clients, ClientCloses(c)
      PROVE  Goal
  BY <1>4, <1>00, JobAssumption DEF ClientCloses, ShutDown, Holds
<1>5. ASSUME NEW d \in Daemons, Scan(d) \/ EndOfSnapshot(d) \/ Stop(d)
      PROVE  Goal
  BY <1>5, <1>00 DEF Scan, EndOfSnapshot, Stop, Holds
<1>6. ASSUME NEW d \in Daemons, Close(d)
      PROVE  Goal
  BY <1>6, <1>00 DEF Close, ShutDown, Holds
<1>7. ASSUME NEW d \in Daemons, Restart(d)
      PROVE  Goal
  BY <1>7, <1>00 DEF Restart, Holds
<1>8. ASSUME NEW d \in Daemons, Read(d)
      PROVE  Goal
  <2>1. /\ UNCHANGED <<queueVars, dropped, process>>
        /\ at[d] # "wait" /\ at'[d] # "wait"
        /\ \A e \in Daemons \ {d} : at'[e] = at[e] /\ item'[e] = item[e]
    BY <1>8 DEF Read
  <2>2. \A e \in Daemons, r \in Requests : Holds(e, r)' <=> Holds(e, r)
    BY <2>1 DEF Holds
  <2> QED
    BY <1>00, <2>1, <2>2
<1>9. ASSUME NEW d \in Daemons, Unlink(d)
      PROVE  Goal
  <2>1. item[d] \in accepted /\ item[d] \in Requests
    BY <1>9 DEF Unlink, TakenIsSettledOnce
  <2>2. CASE file[item[d]] = "absent"
    BY <1>9, <1>00, <2>2 DEF Unlink, Holds
  <2>3. CASE file[item[d]] # "absent"
    <3>1. file[item[d]] = "ready" /\ result[item[d]] = "none" /\ item[d] \notin dropped
      BY <2>1, <2>3 DEF TakenIsSettledOnce
    <3>2. \A e \in Daemons : ~Holds(e, item[d])
      BY <2>1, <3>1 DEF TakenIsSettledOnce
    <3>3. /\ file' = [file EXCEPT ![item[d]] = "absent"]
          /\ at' = [at EXCEPT ![d] = "wait"] /\ at[d] = "unlink" /\ process[d] = "up"
          /\ UNCHANGED <<accepted, result, item, process, dropped>>
      BY <1>9, <2>3 DEF Unlink
    <3>4. \A e \in Daemons, r \in Requests :
            Holds(e, r)' <=> (e = d /\ r = item[d]) \/ Holds(e, r)
      BY <3>3 DEF Holds
    <3>5. StateOf(item[d]) = "waiting"
      BY <2>1, <3>1 DEF StateOf
    <3>6. \A r \in Requests : StateOf(r)' = IF r = item[d] THEN "taken" ELSE StateOf(r)
      BY <2>1, <3>1, <3>3 DEF StateOf
    <3>7. \A r \in Requests : {e \in Daemons : Holds(e, r)'} =
                                 IF r = item[d] THEN {d} ELSE {e \in Daemons : Holds(e, r)}
      BY <2>1, <3>2, <3>4
    <3>8. Queue!Take(item[d], d)
      BY <2>1, <3>5, <3>6, <3>7 DEF Queue!Take
    <3> QED
      BY <1>0, <2>1, <3>8 DEF Queue!QueueNext
  <2> QED
    BY <2>2, <2>3
<1>10. ASSUME NEW d \in Daemons, process[d] = "up", at[d] = "wait"
       PROVE  item[d] \in Requests /\ Holds(d, item[d])
  BY <1>10 DEF TakenIsSettledOnce, Holds
<1>11. ASSUME NEW d \in Daemons, Answer(d)
       PROVE  Goal
  <2>1. item[d] \in Requests /\ Holds(d, item[d])
    BY <1>10, <1>11 DEF Answer
  <2>2. /\ item[d] \in accepted /\ file[item[d]] = "absent" /\ item[d] \notin dropped
    BY <2>1 DEF TakenIsSettledOnce
  <2>3. /\ at' = [at EXCEPT ![d] = "next"] /\ UNCHANGED <<file, accepted, item, process, dropped>>
        /\ \A r \in Requests : r # item[d] => result'[r] = result[r]
        /\ result'[item[d]] # "none"
    BY <1>11, <2>1 DEF Answer, Ended
  <2>4. \A e \in Daemons, r \in Requests : Holds(e, r)' <=> Holds(e, r) /\ e # d
    BY <2>3 DEF Holds
  <2>5. \A r \in Requests : StateOf(r)' = IF r = item[d] THEN "answered" ELSE StateOf(r)
    BY <2>2, <2>3 DEF StateOf
  <2> QED
    BY <1>0, <2>1, <2>4, <2>5, LetGo
<1>12. ASSUME NEW d \in Daemons, AnswerFails(d)
       PROVE  Goal
  <2>1. \A e \in Daemons, q \in Requests : Holds(e, q)' <=> Holds(e, q) /\ e # d
    BY <1>12 DEF AnswerFails, ShutDown, Holds, Hosts
  <2> QED
    BY <1>0, <1>10, <1>12, <2>1, Dropped DEF AnswerFails
<1>13. ASSUME NEW d \in Daemons, Abandon(d)
       PROVE  Goal
  <2>1. \A e \in Daemons, q \in Requests : Holds(e, q)' <=> Holds(e, q) /\ e # d
    BY <1>13 DEF Abandon, Holds
  <2> QED
    BY <1>0, <1>10, <1>13, <2>1, Dropped DEF Abandon
<1>14. ASSUME NEW h \in Hosts, Exit(h)
       PROVE  Goal
  BY <1>14, <1>00 DEF Exit, Vanish, Holds
<1>15. ASSUME NEW h \in Hosts, RunJob(h)
       PROVE  Goal
  BY <1>15, <1>00 DEF RunJob, Holds
<1>16. ASSUME NEW h \in Hosts, Crash(h)
       PROVE  Goal
  <2>1. /\ process' = [process EXCEPT ![h] = "down"] /\ UNCHANGED <<queueVars, daemonVars>>
        /\ dropped' = dropped \cup
             {r \in Requests : h \in Daemons /\ process[h] = "up" /\ at[h] = "wait" /\ item[h] = r}
    BY <1>16 DEF Crash, Vanish
  <2>2. \A e \in Daemons, q \in Requests : Holds(e, q)' <=> Holds(e, q) /\ e # h
    BY <2>1 DEF Holds, Hosts
  <2>3. CASE h \in Daemons /\ process[h] = "up" /\ at[h] = "wait"
    <3>1. item[h] \in Requests /\ Holds(h, item[h])
      BY <1>10, <2>3
    <3>2. dropped' = dropped \cup {item[h]}
      BY <2>1, <2>3, <3>1
    <3> QED
      BY <1>0, <2>1, <2>2, <2>3, <3>1, <3>2, Dropped
  <2>4. CASE ~(h \in Daemons /\ process[h] = "up" /\ at[h] = "wait")
    <3>1. dropped' = dropped
      BY <2>1, <2>4
    <3>2. \A e \in Daemons, q \in Requests : Holds(e, q)' <=> Holds(e, q)
      BY <2>2, <2>4 DEF Holds
    <3> QED
      BY <1>00, <2>1, <3>1, <3>2
  <2> QED
    BY <2>3, <2>4
<1>17. ASSUME NEW j \in Jobs, StepJob(j) \/ FinishJob(j) \/ CancelJob(j)
       PROVE  Goal
  BY <1>17, <1>00 DEF StepJob, FinishJob, CancelJob, Holds
<1>18. ASSUME UNCHANGED vars
       PROVE  Goal
  <2>1. UNCHANGED <<queueVars, dropped, process, at, item>>
    BY <1>18 DEF vars
  <2> QED
    BY <1>00, <2>1 DEF Holds
<1>19. Goal
  BY StepCases, <1>1, <1>2, <1>3, <1>4, <1>5, <1>6, <1>7, <1>8, <1>9, <1>11, <1>12, <1>13,
     <1>14, <1>15, <1>16, <1>17, <1>18
<1> QED
  BY <1>19 DEF Goal

(* The daemons of a queue directory, however many there are and whatever   *)
(* stops or kills them, take each request once and answer it or lose it.   *)
THEOREM DaemonsImplementQueue == Spec => ImplementsRequestQueue
<1>1. Init => Queue!QueueInit
  BY DEF Init, Queue!QueueInit, StateOf, Holds
<1>2. JobInv /\ [Next]_vars =>
        [Queue!QueueNext]_<<[r \in Requests |-> StateOf(r)],
                            [r \in Requests |-> {d \in Daemons : Holds(d, r)}]>>
  BY QueueStep
<1> QED
  BY <1>1, <1>2, JobInvariant, PTL DEF Spec, ImplementsRequestQueue, Queue!QueueSpec
-----------------------------------------------------------------------------
(***************************************************************************)
(* The goal behind a job.  VerdictOfLastIteration is not inductive: a goal *)
(* must be followed from its plan, which without a planner is one task,    *)
(* through the evaluation of that task's outcome, and back to the next     *)
(* plan only over a task that failed.                                      *)
(***************************************************************************)
TaskStates == {"pending", "running"} \cup Outcomes

GoalRecord ==
  [at : {"idle", "plan", "execute", "evaluate", "delegate", "repair", "done"},
   status : {"pending", "running", "completed", "exhausted"},
   iteration : Nat, tasks : Seq(TaskStates), result : {"none"} \cup TaskStates, owed : Nat]

Fails(r) == \E i \in DOMAIN r.tasks : r.tasks[i] = "failed"

PlainGoal(r) ==
  /\ r.at # "delegate"
  /\ r.at = "idle" => r.iteration = 0
  /\ r.at \in {"plan", "repair"} => r.iteration = 0 \/ Fails(r)
  /\ r.at \in {"execute", "evaluate"} => DOMAIN r.tasks = {1}
  /\ r.at = "evaluate" => r.tasks[1] \in Outcomes
  /\ r.at = "done" /\ r.status = "completed" =>
       DOMAIN r.tasks = {1} /\ r.tasks[1] \in {"solved", "unsolved"} /\ r.result = r.tasks[1]
  /\ r.at = "done" /\ r.status # "completed" => r.iteration = MaxIterations /\ Fails(r)

GoalInv ==
  /\ goal \in [Goals -> GoalRecord]
  /\ \A g \in Goals : KernelOf[g] \notin Custom => PlainGoal(goal[g])

PoolInv ==
  /\ \A j \in Jobs : /\ job[j] \in {"completed", "failed"} => goal[j].at = "done"
                     /\ job[j] = "completed" => goal[j].status = "completed"
                     /\ job[j] = "failed" => goal[j].status # "completed"
                     /\ job[j] \in {"none", "queued"} /\ j[1] \in Clients => goal[j].at = "idle"
  /\ \A j \in cancelled : j[1] \in Clients /\ job[j] \in {"none", "queued"}

LEMMA NewGoalOK ==
  ASSUME NEW g \in Goals
  PROVE  NewGoal \in GoalRecord
  BY EmptySeq DEF NewGoal, GoalRecord

(* A step of one goal leaves a goal, and a sound one if it was sound.      *)
LEMMA GoalStep ==
  ASSUME GoalInv, NEW g \in Goals, StepGoal(g) \/ BeginGoal(g)
  PROVE  /\ GoalInv'
         /\ goal[g].at # "done"
         /\ \A k \in Goals \ {g} : goal'[k] = goal[k]
<1> DEFINE old == goal[g]
<1>0. old \in GoalRecord /\ (KernelOf[g] \notin Custom => PlainGoal(old))
  BY DEF GoalInv
<1>1. ASSUME NEW new \in GoalRecord, goal' = [goal EXCEPT ![g] = new], old.at # "done",
             KernelOf[g] \notin Custom => PlainGoal(new)
      PROVE  /\ GoalInv'
             /\ goal[g].at # "done"
             /\ \A k \in Goals \ {g} : goal'[k] = goal[k]
  BY <1>1 DEF GoalInv
<1>2. CASE BeginGoal(g)
  <2> DEFINE new == [old EXCEPT !.at = "plan", !.status = "running"]
  <2>1. new \in GoalRecord /\ goal' = [goal EXCEPT ![g] = new] /\ old.at = "idle"
        /\ new.at = "plan" /\ new.iteration = old.iteration
    BY <1>0, <1>2 DEF BeginGoal, GoalRecord, GoalInv
  <2>2. KernelOf[g] \notin Custom => PlainGoal(new)
    BY <1>0, <2>1 DEF PlainGoal
  <2> QED
    BY <1>1, <2>1, <2>2
<1>3. CASE PlanGoal(g)
  <2>1. PICK n \in IF KernelOf[g] \in Custom THEN PlanSizes ELSE {1} :
          goal' = [goal EXCEPT ![g].iteration = @ + 1,
                               ![g].tasks = [i \in 1..n |-> "pending"],
                               ![g].at = IF n = 0 THEN "evaluate" ELSE "execute"]
    BY <1>3 DEF PlanGoal
  <2> DEFINE new == [old EXCEPT !.iteration = @ + 1,
                                !.tasks = [i \in 1..n |-> "pending"],
                                !.at = IF n = 0 THEN "evaluate" ELSE "execute"]
  <2>2. n \in Nat
    BY KernelAssumption
  <2>3. [i \in 1..n |-> "pending"] \in Seq(TaskStates)
    BY <2>2, IsASeq DEF TaskStates
  <2>4. new \in GoalRecord /\ goal' = [goal EXCEPT ![g] = new] /\ old.at # "done"
    BY <1>0, <1>3, <2>1, <2>3 DEF PlanGoal, GoalRecord, GoalInv
  <2>5. KernelOf[g] \notin Custom => DOMAIN new.tasks = {1} /\ new.at = "execute"
    BY <1>0, <2>1 DEF GoalRecord
  <2>6. KernelOf[g] \notin Custom => PlainGoal(new)
    BY <2>5 DEF PlainGoal
  <2> QED
    BY <1>1, <2>4, <2>6
<1>4. CASE OutOfIterations(g)
  <2> DEFINE new == [old EXCEPT !.status = "exhausted", !.at = "done"]
  <2>1. new \in GoalRecord /\ goal' = [goal EXCEPT ![g] = new] /\ old.at = "plan"
        /\ new.at = "done" /\ new.status = "exhausted" /\ new.tasks = old.tasks
        /\ new.iteration = old.iteration /\ old.iteration = MaxIterations
    BY <1>0, <1>4 DEF OutOfIterations, GoalRecord, GoalInv
  <2>2. KernelOf[g] \notin Custom => PlainGoal(new)
    BY <1>0, <2>1, KernelAssumption DEF PlainGoal, Fails
  <2> QED
    BY <1>1, <2>1, <2>2
<1>5. CASE StartTask(g)
  <2>1. TasksIn(g, "pending") \in SUBSET Nat
    <3>1. old.tasks \in Seq(TaskStates)
      BY <1>0 DEF GoalRecord
    <3> QED
      BY <3>1 DEF TasksIn
  <2>2. Min(TasksIn(g, "pending")) \in TasksIn(g, "pending")
    BY <1>5, <2>1, MinIsMember DEF StartTask
  <2> DEFINE i == Min(TasksIn(g, "pending"))
             new == [old EXCEPT !.tasks = [old.tasks EXCEPT ![i] = "running"]]
  <2>3. i \in DOMAIN old.tasks
    BY <2>2 DEF TasksIn
  <2> HIDE DEF i
  <2>4. goal' = [goal EXCEPT ![g] = new] /\ old.at = "execute"
    BY <1>0, <1>5 DEF StartTask, GoalRecord, GoalInv, i
  <2>5. /\ [old.tasks EXCEPT ![i] = "running"] \in Seq(TaskStates)
        /\ DOMAIN [old.tasks EXCEPT ![i] = "running"] = DOMAIN old.tasks
    BY <1>0, <2>3, ExceptSeq DEF GoalRecord, TaskStates
  <2>6. /\ new \in GoalRecord /\ new.at = "execute" /\ DOMAIN new.tasks = DOMAIN old.tasks
    BY <1>0, <2>4, <2>5 DEF GoalRecord
  <2>7. KernelOf[g] \notin Custom => PlainGoal(new)
    BY <1>0, <2>4, <2>6 DEF PlainGoal
  <2> QED
    BY <1>1, <2>4, <2>6, <2>7
<1>6. CASE EndTask(g)
  <2>1. PICK i \in TasksIn(g, "running"), o \in Outcomes :
          LET after == [goal[g].tasks EXCEPT ![i] = o]
          IN  goal' = [goal EXCEPT
                ![g].tasks = after,
                ![g].at = IF \A n \in DOMAIN after : after[n] \in Outcomes
                          THEN "evaluate" ELSE "execute"]
    BY <1>6 DEF EndTask
  <2>2. i \in DOMAIN old.tasks /\ o \in TaskStates /\ old.at = "execute"
    BY <1>6 DEF TasksIn, TaskStates, EndTask
  <2> DEFINE after == [old.tasks EXCEPT ![i] = o]
             next == IF \A n \in DOMAIN after : after[n] \in Outcomes
                     THEN "evaluate" ELSE "execute"
             new == [old EXCEPT !.tasks = after, !.at = next]
  <2>3. goal' = [goal EXCEPT ![g] = new]
    BY <1>0, <2>1 DEF GoalRecord, GoalInv
  <2>4. after \in Seq(TaskStates) /\ DOMAIN after = DOMAIN old.tasks
    BY <1>0, <2>2, ExceptSeq DEF GoalRecord
  <2>5. next \in {"execute", "evaluate"} /\ (next = "evaluate" => \A n \in DOMAIN after : after[n] \in Outcomes)
    OBVIOUS
  <2> HIDE DEF next, after
  <2>6. new \in GoalRecord /\ new.at = next /\ new.tasks = after
    BY <1>0, <2>4, <2>5 DEF GoalRecord
  <2>7. KernelOf[g] \notin Custom => PlainGoal(new)
    <3>1. KernelOf[g] \notin Custom => DOMAIN after = {1}
      BY <1>0, <2>2, <2>4 DEF PlainGoal
    <3>2. new.at = "evaluate" /\ DOMAIN after = {1} => new.tasks[1] \in Outcomes
      BY <2>5, <2>6
    <3>3. new.at \in {"execute", "evaluate"}
      BY <2>5, <2>6
    <3> QED
      BY <2>6, <3>1, <3>2, <3>3 DEF PlainGoal
  <2> QED
    BY <1>1, <2>2, <2>3, <2>6, <2>7
<1>7. CASE Evaluate(g)
  <2>1. PICK v \in Verdicts(g) : CompleteGoal(g, v) \/ Delegate(g, v) \/ RepairGoal(g, v)
    BY <1>7 DEF Evaluate
  <2>2. old.at = "evaluate"
    BY <1>7 DEF Evaluate
  <2>3. ASSUME KernelOf[g] \notin Custom
        PROVE  /\ DOMAIN old.tasks = {1} /\ old.tasks[1] \in Outcomes
               /\ v = DefaultVerdict(g) /\ old.tasks # <<>>
    <3>1. DOMAIN old.tasks = {1} /\ old.tasks[1] \in Outcomes
      BY <1>0, <2>2, <2>3 DEF PlainGoal
    <3>2. 1 \in DOMAIN old.tasks /\ 1 \notin DOMAIN <<>>
      BY <3>1
    <3> QED
      BY <2>3, <3>1, <3>2 DEF Verdicts
  <2>4. CASE CompleteGoal(g, v)
    <3> DEFINE new == [old EXCEPT !.status = "completed", !.result = v.result, !.at = "done"]
    <3>1. goal' = [goal EXCEPT ![g] = new]
      BY <1>0, <2>4 DEF CompleteGoal, GoalRecord, GoalInv
    <3>2. CASE KernelOf[g] \in Custom
      <4>1. v.result \in {"none", "solved"}
        BY <3>2 DEF Verdicts
      <4>2. new \in GoalRecord
        BY <1>0, <4>1 DEF GoalRecord, TaskStates, Outcomes
      <4> QED
        BY <1>1, <2>2, <3>1, <3>2, <4>2
    <3>3. CASE KernelOf[g] \notin Custom
      <4>1. v.verified \/ v.done
        BY <2>3, <2>4, <3>3 DEF CompleteGoal, Accepts
      <4>2. v = DefaultVerdict(g) /\ DOMAIN goal[g].tasks = {1}
        BY <2>3, <3>3
      <4>3. TasksIn(g, "failed") = {}
        BY <4>1, <4>2 DEF DefaultVerdict
      <4>4. v.result = old.tasks[1]
        <5>1. Max({1}) = 1
          BY DEF Max
        <5> QED
          BY <4>2, <4>3, <5>1 DEF DefaultVerdict
      <4>5. old.tasks[1] \in {"solved", "unsolved"}
        BY <2>3, <3>3, <4>3 DEF TasksIn, Outcomes
      <4>6. new \in GoalRecord /\ new.tasks = old.tasks /\ new.at = "done"
            /\ new.status = "completed" /\ new.result = old.tasks[1]
        BY <1>0, <4>4, <4>5 DEF GoalRecord, TaskStates, Outcomes
      <4>7. PlainGoal(new)
        BY <2>3, <3>3, <4>5, <4>6 DEF PlainGoal
      <4> QED
        BY <1>1, <2>2, <3>1, <4>6, <4>7
    <3> QED
      BY <3>2, <3>3
  <2>5. CASE Delegate(g, v)
    <3>1. PICK room : goal' = [goal EXCEPT ![g].at = "delegate",
                                 ![g].owed = Cardinality({n \in 1..v.delegations : n <= room})]
      BY <2>5 DEF Delegate
    <3>2. KernelOf[g] \in Custom
      BY <2>3, <2>5 DEF Delegate, DefaultVerdict
    <3> DEFINE S == {n \in 1..v.delegations : n <= room}
               new == [old EXCEPT !.at = "delegate", !.owed = Cardinality(S)]
    <3>3. Cardinality(S) \in Nat
      <4>1. v.delegations \in {0, 2}
        BY <3>2 DEF Verdicts
      <4>2. IsFiniteSet(1..v.delegations)
        BY <4>1, FS_Interval
      <4> QED
        BY <4>2, FS_Subset, FS_CardinalityType
    <3>4. new \in GoalRecord /\ goal' = [goal EXCEPT ![g] = new]
      BY <1>0, <3>1, <3>3 DEF GoalRecord, GoalInv
    <3> QED
      BY <1>1, <2>2, <3>2, <3>4
  <2>6. CASE RepairGoal(g, v)
    <3>1. PICK st \in {old.status, "exhausted"}, next \in {"plan", "repair"} :
            goal' = [goal EXCEPT ![g] = [old EXCEPT !.at = next, !.status = st]]
      BY <1>0, <2>6 DEF RepairGoal, GoalRecord, GoalInv
    <3> DEFINE new == [old EXCEPT !.at = next, !.status = st]
    <3>2. new \in GoalRecord /\ new.at = next /\ new.tasks = old.tasks
      BY <1>0, <3>1 DEF GoalRecord
    <3>3. ASSUME KernelOf[g] \notin Custom
          PROVE  Fails(old)
      <4>1. ~v.verified
        BY <2>6 DEF RepairGoal, Accepts
      <4>2. v = DefaultVerdict(g) /\ DOMAIN goal[g].tasks = {1}
        BY <2>3, <3>3
      <4>3. TasksIn(g, "failed") # {}
        BY <4>1, <4>2 DEF DefaultVerdict
      <4> QED
        BY <4>3 DEF TasksIn, Fails
    <3>4. KernelOf[g] \notin Custom => PlainGoal(new)
      BY <3>2, <3>3 DEF PlainGoal, Fails
    <3> QED
      BY <1>1, <2>2, <3>1, <3>2, <3>4
  <2> QED
    BY <2>1, <2>4, <2>5, <2>6
<1>8. CASE RegisterSubtask(g)
  <2>1. KernelOf[g] \in Custom /\ old.at = "delegate"
    BY <1>0, <1>8 DEF RegisterSubtask, PlainGoal
  <2>2. CASE old.owed = 0
    <3> DEFINE new == [old EXCEPT !.at = "plan"]
    <3>1. new \in GoalRecord /\ goal' = [goal EXCEPT ![g] = new]
      BY <1>0, <1>8, <2>2 DEF RegisterSubtask, GoalRecord, GoalInv
    <3> QED
      BY <1>1, <2>1, <3>1
  <2>3. CASE old.owed # 0
    <3> DEFINE new == [old EXCEPT !.owed = @ - 1]
    <3>1. old.owed - 1 \in Nat
      BY <1>0, <2>3 DEF GoalRecord
    <3>2. new \in GoalRecord
      BY <1>0, <3>1 DEF GoalRecord
    <3>3. goal' = [goal EXCEPT ![g] = new]
      BY <1>0, <1>8, <2>3 DEF RegisterSubtask, GoalInv
    <3> QED
      BY <1>1, <2>1, <3>2, <3>3
  <2> QED
    BY <2>2, <2>3
<1>9. CASE CountRepair(g)
  <2> DEFINE new == [old EXCEPT !.at = "plan"]
  <2>1. new \in GoalRecord /\ goal' = [goal EXCEPT ![g] = new] /\ old.at = "repair"
        /\ new.at = "plan" /\ new.tasks = old.tasks /\ new.iteration = old.iteration
    BY <1>0, <1>9 DEF CountRepair, GoalRecord, GoalInv
  <2>2. KernelOf[g] \notin Custom => PlainGoal(new)
    BY <1>0, <2>1 DEF PlainGoal, Fails
  <2> QED
    BY <1>1, <2>1, <2>2
<1> QED
  BY <1>2, <1>3, <1>4, <1>5, <1>6, <1>7, <1>8, <1>9 DEF StepGoal

LEMMA PoolInit ==
  ASSUME Init
  PROVE  GoalInv /\ PoolInv
<1>1. goal = [g \in Goals |-> NewGoal]
  BY DEF Init, KernelInit
<1>2. GoalInv
  <2>1. PlainGoal(NewGoal)
    BY DEF PlainGoal, NewGoal
  <2> QED
    BY <1>1, <2>1, NewGoalOK DEF GoalInv
<1>3. PoolInv
  BY <1>1, JobAssumption DEF Init, PoolInv, NewGoal
<1> QED
  BY <1>2, <1>3

(* The end of a process forgets its jobs and goals alike.                  *)
LEMMA VanishStep ==
  ASSUME JobInv, GoalInv, PoolInv, NEW h \in Hosts, Vanish(h), UNCHANGED cancelled
  PROVE  GoalInv' /\ PoolInv'
<1> USE DEF JobInv, JobTypeOK
<1>1. /\ \A g \in Goals : goal'[g] = IF g[1] = h THEN NewGoal ELSE goal[g]
      /\ \A j \in Jobs : job'[j] = IF j[1] = h THEN "none" ELSE job[j]
      /\ goal' = [g \in Goals |-> IF g[1] = h THEN NewGoal ELSE goal[g]]
  BY DEF Vanish
<1>2. Goals = Jobs /\ \A c \in Clients, r \in Direct : <<c, r>> \in Jobs
  BY JobAssumption DEF Jobs
<1>3. GoalInv'
  <2>1. goal' \in [Goals -> GoalRecord]
    BY <1>1, NewGoalOK DEF GoalInv
  <2>2. \A g \in Goals : goal'[g] = NewGoal \/ goal'[g] = goal[g]
    BY <1>1
  <2>3. PlainGoal(NewGoal)
    BY DEF PlainGoal, NewGoal
  <2> QED
    BY <2>1, <2>2, <2>3 DEF GoalInv
<1>4. PoolInv'
  BY <1>1, <1>2 DEF PoolInv, NewGoal
<1> QED
  BY <1>3, <1>4

LEMMA PoolStep ==
  ASSUME JobInv, GoalInv, PoolInv, [Next]_vars
  PROVE  GoalInv' /\ PoolInv'
<1> USE DEF JobInv, JobTypeOK, kernelVars
<1>0. Goals = Jobs /\ \A c \in Clients, r \in Direct : <<c, r>> \in Jobs
  BY JobAssumption DEF Jobs
<1>1. ASSUME UNCHANGED <<goal, job, cancelled>>
      PROVE  GoalInv' /\ PoolInv'
  BY <1>1 DEF GoalInv, PoolInv
<1>2. ASSUME UNCHANGED goal
      PROVE  GoalInv'
  BY <1>2 DEF GoalInv
<1>3. ASSUME NEW r \in Requests, Create(r) \/ Fill(r)
      PROVE  GoalInv' /\ PoolInv'
  BY <1>1, <1>3 DEF Create, Fill
<1>4. ASSUME NEW c \in Clients, NEW r \in Direct, ClientSpawns(c, r)
      PROVE  GoalInv' /\ PoolInv'
  <2>1. /\ job' = [job EXCEPT ![<<c, r>>] = "queued"] /\ UNCHANGED <<goal, cancelled>>
        /\ job[<<c, r>>] = "none"
    BY <1>4 DEF ClientSpawns, Submit
  <2>2. \A k \in Jobs : job'[k] = job[k] \/ (job[k] = "none" /\ job'[k] = "queued")
    BY <2>1
  <2>3. PoolInv'
    BY <2>1, <2>2 DEF PoolInv
  <2> QED
    BY <1>2, <2>1, <2>3
<1>5. ASSUME NEW c \in Clients, ClientCloses(c)
      PROVE  GoalInv' /\ PoolInv'
  BY <1>1, <1>5 DEF ClientCloses
<1>6. ASSUME NEW d \in Daemons,
             \/ Scan(d) \/ Read(d) \/ EndOfSnapshot(d) \/ Answer(d) \/ Abandon(d) \/ Close(d)
             \/ AnswerFails(d) \/ Stop(d) \/ Restart(d)
      PROVE  GoalInv' /\ PoolInv'
  BY <1>1, <1>6 DEF Scan, Read, EndOfSnapshot, Answer, Abandon, Close, AnswerFails, Stop, Restart
<1>7. ASSUME NEW d \in Daemons, Unlink(d)
      PROVE  GoalInv' /\ PoolInv'
  <2>1. d \notin Clients
    BY JobAssumption
  <2>2. UNCHANGED <<goal, cancelled>>
    BY <1>7 DEF Unlink
  <2>3. \A j \in Jobs : job'[j] = job[j] \/ (j[1] = d /\ job'[j] = "queued")
    <3>1. job' = job \/ job' = [job EXCEPT ![<<d, item[d]>>] = "queued"]
      BY <1>7 DEF Unlink, Submit
    <3> DEFINE j == <<d, item[d]>>
    <3>2. j[1] = d
      OBVIOUS
    <3> HIDE DEF j
    <3>3. job' = job \/ job' = [job EXCEPT ![j] = "queued"]
      BY <3>1 DEF j
    <3> QED
      BY <3>2, <3>3
  <2>4. PoolInv'
    BY <1>0, <2>1, <2>2, <2>3 DEF PoolInv
  <2> QED
    BY <1>2, <2>2, <2>4
<1>8. ASSUME NEW h \in Hosts, RunJob(h)
      PROVE  GoalInv' /\ PoolInv'
  <2> DEFINE j == Head(pending[h])
  <2>1. j \in Jobs /\ UNCHANGED cancelled
    BY <1>8, HeadTailProperties DEF RunJob
  <2> HIDE DEF j
  <2>2. CASE j \in cancelled
    BY <1>1, <1>8, <2>2 DEF RunJob, j
  <2>3. CASE j \notin cancelled
    <3>1. BeginGoal(j) /\ job' = [job EXCEPT ![j] = "running"]
      BY <1>8, <2>3 DEF RunJob, j
    <3>2. GoalInv' /\ \A k \in Goals \ {j} : goal'[k] = goal[k]
      BY <1>0, <2>1, <3>1, GoalStep
    <3>3. \A k \in Jobs : k # j => job'[k] = job[k] /\ goal'[k] = goal[k]
      BY <1>0, <2>1, <3>1, <3>2
    <3>4. job'[j] = "running"
      BY <2>1, <3>1
    <3>5. \A k \in cancelled : k \in Jobs /\ k # j
      BY <2>3
    <3>6. PoolInv'
      <4>1. ASSUME NEW k \in Jobs
            PROVE  /\ job'[k] \in {"completed", "failed"} => goal'[k].at = "done"
                   /\ job'[k] = "completed" => goal'[k].status = "completed"
                   /\ job'[k] = "failed" => goal'[k].status # "completed"
                   /\ job'[k] \in {"none", "queued"} /\ k[1] \in Clients => goal'[k].at = "idle"
        <5>1. CASE k = j
          BY <3>4, <5>1
        <5>2. CASE k # j
          <6>1. job'[k] = job[k] /\ goal'[k] = goal[k]
            BY <3>3, <5>2
          <6> QED
            BY <6>1 DEF PoolInv
        <5> QED
          BY <5>1, <5>2
      <4>2. \A k \in cancelled : k[1] \in Clients /\ job'[k] \in {"none", "queued"}
        BY <3>3, <3>5 DEF PoolInv
      <4> QED
        BY <2>1, <4>1, <4>2 DEF PoolInv
    <3> QED
      BY <3>2, <3>6
  <2> QED
    BY <2>2, <2>3
<1>9. ASSUME NEW h \in Hosts, Exit(h) \/ Crash(h)
      PROVE  GoalInv' /\ PoolInv'
  BY <1>9, VanishStep DEF Exit, Crash
<1>10. ASSUME NEW j \in Jobs, StepJob(j)
       PROVE  GoalInv' /\ PoolInv'
  <2>1. job[j] = "running" /\ UNCHANGED <<job, cancelled>> /\ StepGoal(j)
    BY <1>10 DEF StepJob
  <2>2. GoalInv' /\ \A k \in Goals \ {j} : goal'[k] = goal[k]
    BY <1>0, <2>1, GoalStep
  <2>3. PoolInv'
    <3>1. \A k \in Jobs : k # j => job'[k] = job[k] /\ goal'[k] = goal[k]
      BY <1>0, <2>1, <2>2
    <3>2. job'[j] = "running"
      BY <2>1
    <3>3. ASSUME NEW k \in Jobs
          PROVE  /\ job'[k] \in {"completed", "failed"} => goal'[k].at = "done"
                 /\ job'[k] = "completed" => goal'[k].status = "completed"
                 /\ job'[k] = "failed" => goal'[k].status # "completed"
                 /\ job'[k] \in {"none", "queued"} /\ k[1] \in Clients => goal'[k].at = "idle"
      <4>1. CASE k = j
        BY <3>2, <4>1
      <4>2. CASE k # j
        <5>1. job'[k] = job[k] /\ goal'[k] = goal[k]
          BY <3>1, <4>2
        <5> QED
          BY <5>1 DEF PoolInv
      <4> QED
        BY <4>1, <4>2
    <3> QED
      BY <2>1, <3>3 DEF PoolInv
  <2> QED
    BY <2>2, <2>3
<1>11. ASSUME NEW j \in Jobs, FinishJob(j)
       PROVE  GoalInv' /\ PoolInv'
  <2>1. /\ job[j] = "running" /\ goal[j].at = "done" /\ UNCHANGED <<goal, cancelled>>
        /\ job' = [job EXCEPT ![j] = IF goal[j].status = "completed" THEN "completed" ELSE "failed"]
    BY <1>11 DEF FinishJob
  <2>2. \A k \in Jobs :
          \/ job'[k] = job[k]
          \/ /\ job'[k] \in {"completed", "failed"} /\ goal[k].at = "done"
             /\ job'[k] = "completed" <=> goal[k].status = "completed"
    BY <2>1
  <2>3. \A k \in cancelled : k # j
    BY <2>1 DEF PoolInv
  <2>4. \A k \in cancelled : job'[k] = job[k]
    BY <2>1, <2>3
  <2>5. PoolInv'
    BY <2>1, <2>2, <2>4 DEF PoolInv
  <2> QED
    BY <1>2, <2>1, <2>5
<1>12. ASSUME NEW j \in Jobs, CancelJob(j)
       PROVE  GoalInv' /\ PoolInv'
  <2>1. /\ job[j] = "queued" /\ j[1] \in Clients /\ UNCHANGED <<goal, job>>
        /\ cancelled' = cancelled \cup {j}
    BY <1>12 DEF CancelJob
  <2>2. PoolInv'
    BY <2>1 DEF PoolInv
  <2> QED
    BY <1>2, <2>1, <2>2
<1>13. ASSUME UNCHANGED vars
       PROVE  GoalInv' /\ PoolInv'
  BY <1>1, <1>13 DEF vars
<1> QED
  BY StepCases, <1>3, <1>4, <1>5, <1>6, <1>7, <1>8, <1>9, <1>10, <1>11, <1>12, <1>13

THEOREM PoolInvariant == Spec => [](JobInv /\ GoalInv /\ PoolInv)
<1>1. Init => JobInv /\ GoalInv /\ PoolInv
  BY JobInit, PoolInit
<1>2. JobInv /\ GoalInv /\ PoolInv /\ [Next]_vars => JobInv' /\ GoalInv' /\ PoolInv'
  BY JobTypeStep, JobStep, PoolStep DEF JobInv
<1> QED
  BY <1>1, <1>2, PTL DEF Spec

(* The verdict on a job is the one on its last iteration, whether the goal *)
(* ran out of repairs before it or not.                                    *)
THEOREM VerdictAlwaysOfLastIteration == Spec => []VerdictOfLastIteration
<1>1. GoalInv /\ PoolInv => VerdictOfLastIteration
  <2> SUFFICES ASSUME GoalInv, PoolInv, NEW j \in Jobs, j[1] \notin Custom
               PROVE  /\ job[j] = "completed" => Answered(j)
                      /\ job[j] = "failed" => GaveUp(j)
    BY DEF VerdictOfLastIteration
  <2>1. PlainGoal(goal[j]) /\ goal[j] \in GoalRecord
    BY JobAssumption DEF GoalInv
  <2>2. ASSUME job[j] = "completed"
        PROVE  Answered(j)
    <3>1. goal[j].at = "done" /\ goal[j].status = "completed"
      BY <2>2 DEF PoolInv
    <3>2. /\ DOMAIN goal[j].tasks = {1} /\ goal[j].tasks[1] \in {"solved", "unsolved"}
          /\ goal[j].result = goal[j].tasks[1]
      BY <2>1, <3>1 DEF PlainGoal
    <3>3. Len(goal[j].tasks) = 1
      <4>1. goal[j].tasks \in Seq(TaskStates)
        BY <2>1 DEF GoalRecord
      <4>2. Len(goal[j].tasks) \in Nat /\ DOMAIN goal[j].tasks = 1..Len(goal[j].tasks)
        BY <4>1
      <4>3. ASSUME NEW n \in Nat, 1..n = {1}
            PROVE  n = 1
        <5>1. 1 \in 1..n /\ n \in 1..n
          BY <4>3
        <5> QED
          BY <4>3, <5>1
      <4> QED
        BY <3>2, <4>2, <4>3
    <3>4. 1 \in DOMAIN goal[j].tasks /\ 1 \notin DOMAIN <<>>
      BY <3>2
    <3> QED
      BY <3>2, <3>3, <3>4 DEF Answered, TasksIn
  <2>3. ASSUME job[j] = "failed"
        PROVE  GaveUp(j)
    BY <2>1, <2>3 DEF PoolInv, PlainGoal, GaveUp, TasksIn, Fails
  <2> QED
    BY <2>2, <2>3
<1> QED
  BY <1>1, PoolInvariant, PTL

(* cancel_job that returned True has stopped the job for good.             *)
THEOREM CancelledJobNeverRuns == Spec => []CancelledNeverRuns
<1>1. JobInv /\ PoolInv => CancelledNeverRuns
  <2> SUFFICES ASSUME JobInv, PoolInv, NEW j \in cancelled
               PROVE  goal[j].at = "idle" /\ job[j] # "running"
    BY DEF CancelledNeverRuns
  <2>1. j \in Jobs /\ j[1] \in Clients /\ job[j] \in {"none", "queued"}
    BY DEF JobInv, JobTypeOK, PoolInv
  <2> QED
    BY <2>1 DEF PoolInv
<1> QED
  BY <1>1, PoolInvariant, PTL
=============================================================================
