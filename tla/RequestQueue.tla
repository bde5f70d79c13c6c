---------------------------- MODULE RequestQueue ----------------------------
(***************************************************************************)
(* What the queue directory promises: a request that was accepted waits    *)
(* until one daemon, and only one, takes it; that daemon answers it once   *)
(* or is stopped and loses it.                                             *)
(***************************************************************************)
CONSTANTS Requests, Daemons

VARIABLES state, holders

QueueInit ==
  /\ state = [r \in Requests |-> "new"]
  /\ holders = [r \in Requests |-> {}]

Accept(r) ==
  /\ state[r] = "new"
  /\ state' = [state EXCEPT ![r] = "waiting"]
  /\ UNCHANGED holders

Take(r, d) ==
  /\ state[r] = "waiting"
  /\ state' = [state EXCEPT ![r] = "taken"]
  /\ holders' = [holders EXCEPT ![r] = {d}]

GiveBack(r, end) ==
  /\ state[r] = "taken"
  /\ state' = [state EXCEPT ![r] = end]
  /\ holders' = [holders EXCEPT ![r] = {}]

QueueNext ==
  \E r \in Requests :
    \/ Accept(r)
    \/ \E d \in Daemons : Take(r, d)
    \/ GiveBack(r, "answered")
    \/ GiveBack(r, "lost")

QueueSpec == QueueInit /\ [][QueueNext]_<<state, holders>>
=============================================================================
