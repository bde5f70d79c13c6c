------------------------------ MODULE TaskGraph ------------------------------
(***************************************************************************)
(* What a caller of DAGEngine.execute may rely on, without handles, slots, *)
(* the store or the order of the engine's loop:                            *)
(*   - a task starts when everything it needs is done (a last task, the    *)
(*     code's finalizer: when everything it needs is over), and only once; *)
(*   - a verdict is given once, to a task that has started, and is final;  *)
(*   - what has not been given a verdict can be dropped, and a dropped     *)
(*     task comes back only by a split of a task it needs;                 *)
(*   - a split puts two new tasks in the place of one.                     *)
(***************************************************************************)
CONSTANT Ids

VARIABLES
  node,   \* "absent", "pending", "started", "done", "failed" or "dropped"
  need,   \* the set of ids each id needs
  last    \* the ids that wait for an end of any kind

vars == <<node, need, last>>

Over == {"done", "failed", "dropped"}

MayStart(t) ==
  \A u \in need[t] : IF t \in last THEN node[u] \in Over ELSE node[u] = "done"

Init ==
  /\ node \in [Ids -> {"absent", "pending"}]
  /\ need \in [Ids -> SUBSET Ids]
  /\ last \in SUBSET Ids

Start(L) ==
  /\ L # {}
  /\ \A t \in L : node[t] = "pending" /\ MayStart(t)
  /\ node' = [t \in Ids |-> IF t \in L THEN "started" ELSE node[t]]
  /\ UNCHANGED <<need, last>>

(* A failure may take along tasks that were still waiting, never a last one. *)
Conclude(t, verdict, gone) ==
  /\ node[t] = "started"
  /\ gone # {} => verdict = "failed"
  /\ \A u \in gone : node[u] = "pending" /\ u \notin last
  /\ node' = [u \in Ids |-> IF u = t THEN verdict ELSE IF u \in gone THEN "dropped" ELSE node[u]]
  /\ UNCHANGED <<need, last>>

Stop ==
  /\ node' = [t \in Ids |-> IF node[t] \in {"pending", "started"} THEN "dropped" ELSE node[t]]
  /\ UNCHANGED <<need, last>>

(* The split task has no verdict yet: it has started, or it was dropped by *)
(* a stop while its runner was still busy and may since be back.           *)
Split(t, x, y) ==
  LET outer == {u \in Ids : node[u] # "absent" /\ t \in need[u]}
  IN  /\ node[t] \in {"pending", "started", "dropped"}
      /\ node[x] = "absent" /\ node[y] = "absent" /\ x # y
      /\ need' = [u \in Ids |-> IF u = x THEN need[t]
                                ELSE IF u = y THEN {x}
                                ELSE IF u \in outer THEN (need[u] \ {t}) \cup {y}
                                ELSE need[u]]
      /\ node' = [u \in Ids |-> IF u \in {x, y} \/ (u \in outer /\ node[u] = "dropped")
                                THEN "pending" ELSE node[u]]
      /\ last' = last \ {x, y}

Next ==
  \/ \E L \in SUBSET Ids : Start(L)
  \/ \E t \in Ids, verdict \in Over, gone \in SUBSET Ids : Conclude(t, verdict, gone)
  \/ Stop
  \/ \E t, x, y \in Ids : Split(t, x, y)

Spec == Init /\ [][Next]_vars
=============================================================================
