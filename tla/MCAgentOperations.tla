-------------------------- MODULE MCAgentOperations --------------------------
(* Small instances of AgentOperations for TLC. *)
EXTENDS AgentOperations, TLC

Wanted(agent, action, target, conversation, message) ==
    [agent |-> agent, action |-> action, target |-> target, place |-> "home",
     conversation |-> conversation, message |-> message]

Exec   == Wanted("a1", "command.exec", "ls", "conv1", "msg1")
Search == Wanted("a1", "skill.search", "search", "conv1", "msg1")

\* Two payloads of one slot, one that asks and one that is allowed.
AskPayload   == [slot |-> "slot1", request |-> Exec]
AllowPayload == [slot |-> "slot1", request |-> Search]

BothRequests == {Exec, Search}
Asked        == {Exec}
OnePayload   == {AskPayload}
BothPayloads == {AskPayload, AllowPayload}

Symmetry == Permutations(Callers) \cup Permutations(Admins)
=============================================================================
