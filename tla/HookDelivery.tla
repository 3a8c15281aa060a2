---------------------------- MODULE HookDelivery ----------------------------
(***************************************************************************)
(* What the event bus promises about one delivery of an event to a hook:   *)
(* it is posted once, it is reported as succeeded only after the handler   *)
(* was reached, it is given up otherwise, and it settles once, for good.   *)
(* The handler may be reached more than once, and even after the delivery  *)
(* settled: delivery is at least once or given up, never exactly once.     *)
(***************************************************************************)
CONSTANT Ids   \* the deliveries

VARIABLES
    status,    \* of each delivery
    reached    \* those whose handler has run

abstractVars == <<status, reached>>

Init ==
    /\ status = [i \in Ids |-> "absent"]
    /\ reached = {}

Post(i) ==
    /\ status[i] = "absent"
    /\ status' = [status EXCEPT ![i] = "pending"]
    /\ UNCHANGED reached

Reach(i) ==
    /\ status[i] # "absent"
    /\ reached' = reached \cup {i}
    /\ UNCHANGED status

Succeed(i) ==
    /\ status[i] = "pending" /\ i \in reached
    /\ status' = [status EXCEPT ![i] = "succeeded"]
    /\ UNCHANGED reached

GiveUp(i) ==
    /\ status[i] = "pending"
    /\ status' = [status EXCEPT ![i] = "failed"]
    /\ UNCHANGED reached

Next == \E i \in Ids : Post(i) \/ Reach(i) \/ Succeed(i) \/ GiveUp(i)

Safety == Init /\ [][Next]_abstractVars

Spec == Safety /\ \A i \in Ids : WF_abstractVars(Succeed(i) \/ GiveUp(i))
=============================================================================
