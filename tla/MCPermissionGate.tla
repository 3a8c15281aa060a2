-------------------------- MODULE MCPermissionGate --------------------------
(* A small instance of PermissionGate for TLC. *)
EXTENDS PermissionGate, TLC

\* One asked request: concurrent uses of one grant.
OneRequest == {[agent |-> "a1", action |-> "command.exec", target |-> "ls", place |-> "home",
                conversation |-> "conv1", message |-> "msg1"]}

Symmetry == Permutations(Callers) \cup Permutations(Admins)
=============================================================================
