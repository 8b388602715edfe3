----------------------------- MODULE RunLifecycle -----------------------------
(***************************************************************************)
(* The abstract promise of one run attempt: what `run get` may ever show   *)
(* as the state of a run, and in which order (internal/run/run.go, State). *)
(* A run is created once, moves freely among its active states, and is     *)
(* decided once: it either completes or, after an operator's request has   *)
(* been recorded, is canceled.  A recorded request may still lose against  *)
(* an execution that had already finished.                                 *)
(***************************************************************************)
VARIABLE state

Active   == {"starting", "running", "waiting", "blocked"}
Terminal == {"completed", "canceled"}
States   == Active \cup Terminal \cup {"absent", "canceling"}

Init == state = "absent"

Create == state = "absent" /\ state' = "starting"

Progress == state \in Active /\ state' \in Active \ {"starting"}

RequestCancel == state \in Active /\ state' = "canceling"

Complete == state \in Active \cup {"canceling"} /\ state' = "completed"

ConfirmCancel == state = "canceling" /\ state' = "canceled"

Next == Create \/ Progress \/ RequestCancel \/ Complete \/ ConfirmCancel

Spec == Init /\ [][Next]_state
=============================================================================
