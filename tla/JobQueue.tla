------------------------------ MODULE JobQueue ------------------------------
(***************************************************************************)
(* Background jobs: `airvis-os enqueue` writes a file into the queue       *)
(* directory (agent_os_cli.py), daemons poll that directory, take a file,  *)
(* spawn its job and wait for it (agent_os_daemon.py), and AgentOS runs    *)
(* jobs in a pool of threads (agent_os.py).  A client is a process that    *)
(* uses an AgentOS of its own: `airvis-os spawn`, or a program.            *)
(*                                                                         *)
(* Nothing keeps two daemons from serving the same directory; only the     *)
(* file system arbitrates, through unlink.  A job lives in the memory of   *)
(* its process and in a thread that run_blocking gives an event loop.      *)
(***************************************************************************)
EXTENDS AgentKernel

CONSTANTS
  Requests,   \* enqueued requests, in the order of their file names
  Direct,     \* requests a client spawns itself
  Daemons,
  Clients,
  Scenarios,  \* which processes there are: sets of Daemons and Clients
  Workers,    \* AgentOS(max_workers)
  DiskFails,  \* may the result file be impossible to write?
  MaxFaults   \* bound: signals, crashes and failing writes in all

Hosts == Daemons \cup Clients
Jobs  == (Daemons \X Requests) \cup (Clients \X Direct)

ASSUME JobAssumption ==
  /\ Requests \subseteq Nat \ {0} /\ Scenarios \subseteq SUBSET Hosts
  /\ Daemons \cap Clients = {}
  /\ Goals = Jobs /\ Kernels = Hosts /\ KernelOf = [g \in Goals |-> g[1]]
  /\ Workers \in Nat /\ MaxFaults \in Nat
  \* A stuck job keeps a thread; there is a thread left for the others.
  /\ \A h \in Hosts : Cardinality({g \in Stuck : g[1] = h}) < Workers

VARIABLES
  file,       \* the request files: absent, torn (being written), ready
  accepted,   \* enqueue has printed "queued"
  result,     \* the result files
  process,    \* up; closing: shut down, threads still running; down; off: there is none
  running,    \* the daemon's flag, cleared by SIGTERM and SIGINT
  at,         \* where main() of a daemon is
  snapshot,   \* what is left of sorted(queue.glob("*.json"))
  item,       \* the request the daemon is at
  job,        \* BackgroundJob.status, "none" for a job the process lacks
  pending,    \* futures of the pool that no thread has picked up
  cancelled,  \* jobs for which cancel_job returned True
  dropped,    \* history: requests whose daemon went on without answering
  faults

queueVars == <<file, accepted, result>>
daemonVars == <<running, at, snapshot, item>>
vars == <<kernelVars, queueVars, daemonVars, process, job, pending, cancelled, dropped, faults>>

None == 0
Ended(j) == job[j] \in {"completed", "failed"}
Busy(h) == {j \in Jobs : j[1] = h /\ job[j] = "running"}

Init ==
  /\ KernelInit
  /\ file = [r \in Requests |-> "absent"] /\ accepted = {}
  /\ result = [r \in Requests |-> "none"]
  /\ \E hosts \in Scenarios : process = [h \in Hosts |-> IF h \in hosts THEN "up" ELSE "off"]
  /\ running = [d \in Daemons |-> TRUE] /\ at = [d \in Daemons |-> "scan"]
  /\ snapshot = [d \in Daemons |-> {}] /\ item = [d \in Daemons |-> None]
  /\ job = [j \in Jobs |-> "none"] /\ pending = [h \in Hosts |-> <<>>]
  /\ cancelled = {} /\ dropped = {} /\ faults = 0
-----------------------------------------------------------------------------
(* enqueue: write_text creates the file and then fills it.                 *)
Create(r) ==
  /\ file[r] = "absent" /\ r \notin accepted
  /\ file' = [file EXCEPT ![r] = "torn"]
  /\ UNCHANGED <<kernelVars, accepted, result, daemonVars, process, job, pending, cancelled, dropped, faults>>

Fill(r) ==
  /\ file[r] = "torn"
  /\ file' = [file EXCEPT ![r] = "ready"]
  /\ accepted' = accepted \cup {r}
  /\ UNCHANGED <<kernelVars, result, daemonVars, process, job, pending, cancelled, dropped, faults>>
-----------------------------------------------------------------------------
(* AgentOS.spawn: the job is registered and submitted to the pool.         *)
Submit(j) ==
  /\ job' = [job EXCEPT ![j] = "queued"]
  /\ pending' = [pending EXCEPT ![j[1]] = Append(@, j)]

(* Mutant: the thread does not ask the future whether it was cancelled.    *)
RunCancelledToo(h) ==
  /\ process[h] \in {"up", "closing"}
  /\ pending[h] # <<>> /\ Cardinality(Busy(h)) < Workers
  /\ pending' = [pending EXCEPT ![h] = Tail(@)]
  /\ job' = [job EXCEPT ![Head(pending[h])] = "running"]
  /\ BeginGoal(Head(pending[h]))
  /\ UNCHANGED <<queueVars, daemonVars, process, cancelled, dropped, faults>>

(* A thread of the pool picks up the oldest future: it skips a cancelled   *)
(* one, and enters _run_job with any other.                                *)
RunJob(h) ==
  /\ process[h] \in {"up", "closing"}
  /\ pending[h] # <<>> /\ Cardinality(Busy(h)) < Workers
  /\ pending' = [pending EXCEPT ![h] = Tail(@)]
  /\ IF Head(pending[h]) \in cancelled
     THEN UNCHANGED <<kernelVars, job>>
     ELSE /\ job' = [job EXCEPT ![Head(pending[h])] = "running"]
          /\ BeginGoal(Head(pending[h]))
  /\ UNCHANGED <<queueVars, daemonVars, process, cancelled, dropped, faults>>

StepJob(j) ==
  /\ job[j] = "running"
  /\ StepGoal(j)
  /\ UNCHANGED <<queueVars, daemonVars, process, job, pending, cancelled, dropped, faults>>

(* The kernel has returned the goal to _run_job.                           *)
FinishJob(j) ==
  /\ job[j] = "running" /\ goal[j].at = "done"
  /\ job' = [job EXCEPT ![j] = IF goal[j].status = "completed" THEN "completed" ELSE "failed"]
  /\ UNCHANGED <<kernelVars, queueVars, daemonVars, process, pending, cancelled, dropped, faults>>

(* cancel_job, which only the program that spawned the job can call: a     *)
(* future that a thread has picked up cannot be cancelled.  The job keeps  *)
(* the status "queued".                                                    *)
CancelJob(j) ==
  /\ j[1] \in Clients /\ process[j[1]] = "up"
  /\ job[j] = "queued"
  /\ cancelled' = cancelled \cup {j}
  /\ UNCHANGED <<kernelVars, queueVars, daemonVars, process, job, pending, dropped, faults>>

(* shutdown(wait=False, cancel_futures=True): what no thread has picked up *)
(* is dropped, what runs goes on.                                          *)
ShutDown(h) ==
  /\ process' = [process EXCEPT ![h] = "closing"]
  /\ pending' = [pending EXCEPT ![h] = <<>>]

(* The process is gone, and with it its table of jobs and its kernel.      *)
Vanish(h) ==
  /\ process' = [process EXCEPT ![h] = "down"]
  /\ job' = [j \in Jobs |-> IF j[1] = h THEN "none" ELSE job[j]]
  /\ goal' = [g \in Goals |-> IF g[1] = h THEN NewGoal ELSE goal[g]]
  /\ repairs' = [repairs EXCEPT ![h] = 0]
  /\ delegated' = [delegated EXCEPT ![h] = 0]
  /\ pending' = [pending EXCEPT ![h] = <<>>]

(* A client's main() ends: `spawn` right after it has printed the id.      *)
ClientSpawns(c, r) ==
  /\ process[c] = "up" /\ job[<<c, r>>] = "none"
  /\ Submit(<<c, r>>)
  /\ UNCHANGED <<kernelVars, queueVars, daemonVars, process, cancelled, dropped, faults>>

ClientCloses(c) ==
  /\ process[c] = "up"
  /\ ShutDown(c)
  /\ UNCHANGED <<kernelVars, queueVars, daemonVars, job, cancelled, dropped, faults>>

(* Python joins the threads of the pool before the process ends.           *)
Exit(h) ==
  /\ process[h] = "closing" /\ Busy(h) = {}
  /\ Vanish(h)
  /\ UNCHANGED <<queueVars, daemonVars, cancelled, dropped, faults>>
-----------------------------------------------------------------------------
(* main(): `while running: for item in sorted(queue.glob(...))`.           *)
Scan(d) ==
  /\ process[d] = "up" /\ at[d] = "scan" /\ running[d]
  /\ snapshot' = [snapshot EXCEPT ![d] = {r \in Requests : file[r] # "absent"}]
  /\ at' = [at EXCEPT ![d] = "next"]
  /\ UNCHANGED <<kernelVars, queueVars, running, item, process, job, pending, cancelled, dropped, faults>>

(* Mutant: a file that cannot be parsed yet is read again.                 *)
ReadInsists(d) ==
  /\ process[d] = "up" /\ at[d] = "next" /\ snapshot[d] # {}
  /\ LET r == Min(snapshot[d])
     IN  /\ snapshot' = [snapshot EXCEPT ![d] = IF file[r] = "torn" THEN @ ELSE @ \ {r}]
         /\ item' = [item EXCEPT ![d] = r]
         /\ at' = [at EXCEPT ![d] = IF file[r] = "ready" THEN "unlink" ELSE "next"]
  /\ UNCHANGED <<kernelVars, queueVars, running, process, job, pending, cancelled, dropped, faults>>

(* The next file of the snapshot is read; a torn or absent one is passed   *)
(* over (ValueError, OSError).  A daemon that was told to stop goes        *)
(* through the rest of its snapshot all the same.                          *)
Read(d) ==
  /\ process[d] = "up" /\ at[d] = "next" /\ snapshot[d] # {}
  /\ LET r == Min(snapshot[d])
     IN  /\ snapshot' = [snapshot EXCEPT ![d] = @ \ {r}]
         /\ item' = [item EXCEPT ![d] = r]
         /\ at' = [at EXCEPT ![d] = IF file[r] = "ready" THEN "unlink" ELSE "next"]
  /\ UNCHANGED <<kernelVars, queueVars, running, process, job, pending, cancelled, dropped, faults>>

EndOfSnapshot(d) ==
  /\ process[d] = "up" /\ at[d] = "next" /\ snapshot[d] = {}
  /\ at' = [at EXCEPT ![d] = "scan"]
  /\ UNCHANGED <<kernelVars, queueVars, running, snapshot, item, process, job, pending, cancelled, dropped, faults>>

(* Mutant: unlink(missing_ok=True).                                        *)
UnlinkAnyway(d) ==
  /\ process[d] = "up" /\ at[d] = "unlink"
  /\ file' = [file EXCEPT ![item[d]] = "absent"]
  /\ at' = [at EXCEPT ![d] = "wait"]
  /\ Submit(<<d, item[d]>>)
  /\ UNCHANGED <<kernelVars, accepted, result, running, snapshot, item, process, cancelled, dropped, faults>>

(* unlink fails for the second of two daemons; the first spawns the job.   *)
Unlink(d) ==
  /\ process[d] = "up" /\ at[d] = "unlink"
  /\ IF file[item[d]] = "absent"
     THEN /\ at' = [at EXCEPT ![d] = "next"]
          /\ UNCHANGED <<file, job, pending>>
     ELSE /\ file' = [file EXCEPT ![item[d]] = "absent"]
          /\ at' = [at EXCEPT ![d] = "wait"]
          /\ Submit(<<d, item[d]>>)
  /\ UNCHANGED <<kernelVars, accepted, result, running, snapshot, item, process, cancelled, dropped, faults>>

(* The wait for the job: it has ended and its state is written down ...    *)
Answer(d) ==
  /\ process[d] = "up" /\ at[d] = "wait" /\ running[d]
  /\ Ended(<<d, item[d]>>)
  /\ result' = [result EXCEPT ![item[d]] = job[<<d, item[d]>>]]
  /\ at' = [at EXCEPT ![d] = "next"]
  /\ UNCHANGED <<kernelVars, file, accepted, running, snapshot, item, process, job, pending, cancelled, dropped, faults>>

(* ... or the write fails, and the exception ends main() through finally;  *)
AnswerFails(d) ==
  /\ DiskFails /\ faults < MaxFaults
  /\ process[d] = "up" /\ at[d] = "wait" /\ running[d]
  /\ Ended(<<d, item[d]>>)
  /\ ShutDown(d)
  /\ dropped' = dropped \cup {item[d]} /\ faults' = faults + 1
  /\ UNCHANGED <<kernelVars, queueVars, daemonVars, job, cancelled>>

(* ... or the daemon was told to stop, or 86400 seconds have passed, which *)
(* only a job that hangs can bring about.                                  *)
Abandon(d) ==
  /\ process[d] = "up" /\ at[d] = "wait"
  /\ ~running[d] \/ (<<d, item[d]>> \in Stuck /\ TasksIn(<<d, item[d]>>, "running") # {})
  /\ dropped' = dropped \cup {item[d]}
  /\ at' = [at EXCEPT ![d] = "next"]
  /\ UNCHANGED <<kernelVars, queueVars, running, snapshot, item, process, job, pending, cancelled, faults>>

(* SIGTERM or SIGINT.                                                      *)
Stop(d) ==
  /\ process[d] = "up" /\ running[d] /\ faults < MaxFaults
  /\ running' = [running EXCEPT ![d] = FALSE]
  /\ faults' = faults + 1
  /\ UNCHANGED <<kernelVars, queueVars, at, snapshot, item, process, job, pending, cancelled, dropped>>

Close(d) ==
  /\ process[d] = "up" /\ at[d] = "scan" /\ ~running[d]
  /\ ShutDown(d)
  /\ UNCHANGED <<kernelVars, queueVars, daemonVars, job, cancelled, dropped, faults>>

Crash(h) ==
  /\ process[h] \in {"up", "closing"} /\ faults < MaxFaults
  /\ Vanish(h)
  /\ dropped' = dropped \cup
       {r \in Requests : h \in Daemons /\ process[h] = "up" /\ at[h] = "wait" /\ item[h] = r}
  /\ faults' = faults + 1
  /\ UNCHANGED <<queueVars, daemonVars, cancelled>>

Restart(d) ==
  /\ process[d] = "down"
  /\ process' = [process EXCEPT ![d] = "up"]
  /\ running' = [running EXCEPT ![d] = TRUE] /\ at' = [at EXCEPT ![d] = "scan"]
  /\ snapshot' = [snapshot EXCEPT ![d] = {}] /\ item' = [item EXCEPT ![d] = None]
  /\ UNCHANGED <<kernelVars, queueVars, job, pending, cancelled, dropped, faults>>
-----------------------------------------------------------------------------
DaemonStep(d) ==
  \/ Scan(d) \/ Read(d) \/ EndOfSnapshot(d) \/ Unlink(d) \/ Answer(d) \/ Abandon(d) \/ Close(d)

Next ==
  \/ \E r \in Requests : Create(r) \/ Fill(r)
  \/ \E c \in Clients, r \in Direct : ClientSpawns(c, r)
  \/ \E c \in Clients : ClientCloses(c)
  \/ \E d \in Daemons : DaemonStep(d) \/ AnswerFails(d) \/ Stop(d) \/ Restart(d)
  \/ \E h \in Hosts : RunJob(h) \/ Exit(h) \/ Crash(h)
  \/ \E j \in Jobs : StepJob(j) \/ FinishJob(j) \/ CancelJob(j)

Spec == Init /\ [][Next]_vars

(* The interpreter runs main() and every thread of the pool; nobody is     *)
(* made to enqueue, spawn, stop, crash or restart anything.                *)
Fairness ==
  /\ \A d \in Daemons : WF_vars(DaemonStep(d))
  /\ \A h \in Hosts : WF_vars(RunJob(h)) /\ WF_vars(Exit(h))
  /\ \A j \in Jobs : WF_vars(StepJob(j)) /\ WF_vars(FinishJob(j))

FairSpec == Spec /\ Fairness
-----------------------------------------------------------------------------
JobTypeOK ==
  /\ file \in [Requests -> {"absent", "torn", "ready"}] /\ accepted \subseteq Requests
  /\ result \in [Requests -> {"none", "completed", "failed"}]
  /\ process \in [Hosts -> {"up", "closing", "down", "off"}]
  /\ running \in [Daemons -> BOOLEAN] /\ at \in [Daemons -> {"scan", "next", "unlink", "wait"}]
  /\ snapshot \in [Daemons -> SUBSET Requests] /\ item \in [Daemons -> Requests \cup {None}]
  /\ job \in [Jobs -> {"none", "queued", "running", "completed", "failed"}]
  /\ pending \in [Hosts -> Seq(Jobs)]
  /\ cancelled \subseteq Jobs /\ dropped \subseteq Requests /\ faults \in Nat

Holds(d, r) == process[d] = "up" /\ at[d] = "wait" /\ item[d] = r

(* A request file exists only while nobody has taken the request, and once *)
(* taken it is held by one daemon, answered or dropped, never two of them. *)
TakenIsSettledOnce ==
  /\ \A r \in Requests :
       /\ file[r] = "ready" => r \in accepted
       /\ file[r] = "torn" => r \notin accepted
       /\ result[r] # "none" \/ r \in dropped => r \in accepted /\ file[r] = "absent"
       /\ ~(result[r] # "none" /\ r \in dropped)
  /\ \A d \in Daemons :
       /\ at[d] \in {"unlink", "wait"} => item[d] \in accepted
       /\ \A r \in Requests : Holds(d, r) =>
            /\ r \in accepted /\ file[r] = "absent" /\ result[r] = "none" /\ r \notin dropped
            /\ \A e \in Daemons : Holds(e, r) => e = d

(* The inductive invariant.                                                *)
JobInv == JobTypeOK /\ TakenIsSettledOnce

(* The daemons implement the queue: however two of them interleave their   *)
(* snapshots, reads and unlinks, and whatever stops or crashes, a request  *)
(* is taken by one daemon, answered at most once and never answered after  *)
(* it was lost (agent_os_daemon.py, main).                                 *)
StateOf(r) ==
  IF r \notin accepted THEN "new"
  ELSE IF file[r] = "ready" THEN "waiting"
  ELSE IF result[r] # "none" THEN "answered"
  ELSE IF r \in dropped THEN "lost" ELSE "taken"

Queue == INSTANCE RequestQueue WITH
  state <- [r \in Requests |-> StateOf(r)],
  holders <- [r \in Requests |-> {d \in Daemons : Holds(d, r)}]

ImplementsRequestQueue == Queue!QueueSpec

(* What a result file says is the verdict on the last iteration, made in   *)
(* the process that took the request: "completed" if the executor came     *)
(* back from every task of it and with the answer of the last one,         *)
(* "failed" only after the last iteration, over a task for which it raised *)
(* or timed out.  A goal that has run out of repairs meanwhile goes on all *)
(* the same.  (agent_kernel.py:119 and 156, agent_os.py:121)               *)
Answered(g) == /\ TasksIn(g, "solved") \cup TasksIn(g, "unsolved") = DOMAIN goal[g].tasks
               /\ goal[g].tasks # <<>>
               /\ goal[g].result = goal[g].tasks[Len(goal[g].tasks)]
GaveUp(g) == goal[g].iteration = MaxIterations /\ TasksIn(g, "failed") # {}
VerdictOfLastIteration ==
  \A j \in Jobs : j[1] \notin Custom =>
    /\ job[j] = "completed" => Answered(j)
    /\ job[j] = "failed" => GaveUp(j)

(* "The underlying AIRVIS workflow is authoritative for completion"        *)
(* (agent_kernel.py:162): a job is completed only over workflows that are. *)
(* The executor returns the result of a failed workflow all the same, and  *)
(* the kernel asks only whether it raised.                                 *)
WorkflowIsAuthoritative ==
  \A j \in Jobs : j[1] \notin Custom /\ job[j] = "completed" => TasksIn(j, "unsolved") = {}

(* Once cancel_job has returned True no task of the job is ever executed,  *)
(* however the call and the threads of the pool interleave                 *)
(* (agent_os.py:138, 170).                                                 *)
CancelledNeverRuns == \A j \in cancelled : goal[j].at = "idle" /\ job[j] # "running"

(* While some daemon keeps serving, every accepted request is answered or  *)
(* was held by a daemon that stopped, crashed or gave up on it: torn files *)
(* and requests other daemons took never stop a daemon, and every goal     *)
(* ends after its iterations (agent_os_daemon.py:43, agent_kernel.py:98).  *)
Serving(d) == process[d] = "up" /\ running[d]
AcceptedAnswered ==
  (\E d \in Daemons : <>[]Serving(d)) =>
    \A r \in Requests : r \in accepted ~> (result[r] # "none" \/ r \in dropped)
=============================================================================
