----------------------------- MODULE TopicStreams -----------------------------
(***************************************************************************)
(* The streams that tell a reader that something changed                   *)
(* (server/src/routes/streams.rs): over the broadcast channel of           *)
(* server/src/realtime.rs for conversations, schedules and the permissions *)
(* of an agent, and by polling for workflows.                              *)
(*                                                                         *)
(* A channel keeps the last events for each receiver; a receiver that has  *)
(* fallen behind is told so and goes on with the oldest event kept.  A     *)
(* change is written first and published then.                             *)
(***************************************************************************)
EXTENDS Integers, Sequences, FiniteSets, SequencesExt

CONSTANTS
    Readers,     \* connections
    HubCapacity, \* how many events the channel keeps
    MaxNews      \* bound on the changes

ASSUME TopicAssumption == {HubCapacity, MaxNews} \subseteq Nat \ {0}

VARIABLES
    unpublished, \* changes that are written and not published yet
    receivers,   \* what each connection has to receive
    stale,       \* whether a change came since a connection was signalled
    newsCount,   \* changes so far
    workflows    \* the poll of the workflow stream

topicVars == <<unpublished, receivers, stale, newsCount, workflows>>

-----------------------------------------------------------------------------
(* The second agent is one whose permissions nobody watches. *)
HubEvents == {"AgentsChanged", "ConversationsChanged", "SchedulesChanged",
              "PermissionAgentChanged", "PermissionOfOther"}
HubTopics == {"conversations", "schedules", "permissions"}

(* What each stream signals. *)
Relevant(topic) ==
    CASE topic = "conversations" -> {"AgentsChanged", "ConversationsChanged"}
      [] topic = "schedules"     -> {"SchedulesChanged"}
      [] topic = "permissions"   -> {"PermissionAgentChanged"}

Unconnected == [at |-> "off", topic |-> "conversations", queue |-> <<>>, lagged |-> FALSE]
PayloadVersions    == 0..MaxNews

TopicTypeOK ==
    /\ unpublished \in SUBSET HubEvents
    /\ receivers \in [Readers ->
          [at : {"off", "first", "receiving"}, topic : HubTopics,
           queue : Seq(HubEvents), lagged : BOOLEAN]]
    /\ \A r \in Readers : Len(receivers[r].queue) <= HubCapacity
    /\ stale \subseteq Readers
    /\ newsCount \in 0..MaxNews
    /\ workflows \in [now : PayloadVersions, last : PayloadVersions, sent : PayloadVersions,
                      polled : PayloadVersions, error : BOOLEAN]

TopicInit ==
    /\ unpublished = {} /\ newsCount = 0 /\ stale = {}
    /\ receivers = [r \in Readers |-> Unconnected]
    /\ workflows = [now |-> 1, last |-> 0, sent |-> 0, polled |-> 0, error |-> FALSE]

-----------------------------------------------------------------------------
(* A handler writes a change, *)
Changed(e) ==
    /\ newsCount < MaxNews /\ newsCount' = newsCount + 1
    /\ e \notin unpublished /\ unpublished' = unpublished \cup {e}
    /\ stale' = stale \cup {r \in Readers : /\ receivers[r].at # "off"
                                            /\ e \in Relevant(receivers[r].topic)}
    /\ UNCHANGED <<receivers, workflows>>

(* A mutant: a receiver may fall behind without end. *)
ReceivedUnbounded(q, e) == Append(q, e)

(* The channel keeps the latest events. *)
Received(q, e) == IF Len(q) < HubCapacity THEN Append(q, e) ELSE Append(Tail(q), e)

(* and publishes it to every receiver there is. *)
PublishToAll(e) ==
    /\ e \in unpublished /\ unpublished' = unpublished \ {e}
    /\ receivers' = [r \in Readers |->
          IF receivers[r].at = "off" THEN receivers[r]
          ELSE [receivers[r] EXCEPT !.queue = Received(@, e),
                    !.lagged = @ \/ Len(receivers[r].queue) = HubCapacity]]
    /\ UNCHANGED <<stale, newsCount, workflows>>

(* A connection subscribes before its first signal. *)
SubscribeTo(r, topic) ==
    /\ receivers[r].at = "off"
    /\ receivers' = [receivers EXCEPT ![r] =
                        [at |-> "first", topic |-> topic, queue |-> <<>>, lagged |-> FALSE]]
    /\ UNCHANGED <<unpublished, stale, newsCount, workflows>>

(* A mutant: the subscription begins after it. *)
FirstSignalFresh(r) ==
    /\ receivers[r].at = "first"
    /\ receivers' = [receivers EXCEPT ![r].at = "receiving", ![r].queue = <<>>]
    /\ UNCHANGED <<unpublished, stale, newsCount, workflows>>

(* The signal every stream starts with. *)
FirstSignal(r) ==
    /\ receivers[r].at = "first"
    /\ receivers' = [receivers EXCEPT ![r].at = "receiving"]
    /\ stale' = stale \ {r}
    /\ UNCHANGED <<unpublished, newsCount, workflows>>

(* recv says that events were dropped: whatever they were, one signal.       *)
CatchUp(r) ==
    /\ receivers[r].at = "receiving" /\ receivers[r].lagged
    /\ receivers' = [receivers EXCEPT ![r].lagged = FALSE]
    /\ stale' = stale \ {r}
    /\ UNCHANGED <<unpublished, newsCount, workflows>>

(* recv gives the next event, a signal if it is one of the topic's.          *)
Receive1(r) ==
    /\ receivers[r].at = "receiving" /\ ~receivers[r].lagged /\ receivers[r].queue # <<>>
    /\ receivers' = [receivers EXCEPT ![r].queue = Tail(@)]
    /\ stale' = IF Head(receivers[r].queue) \in Relevant(receivers[r].topic)
                THEN stale \ {r} ELSE stale
    /\ UNCHANGED <<unpublished, newsCount, workflows>>

(* The connection ends. *)
Leave(r) ==
    /\ receivers[r].at = "receiving"
    /\ receivers' = [receivers EXCEPT ![r] = Unconnected] /\ stale' = stale \ {r}
    /\ UNCHANGED <<unpublished, newsCount, workflows>>

-----------------------------------------------------------------------------
(* Workflows change, in a way a snapshot shows. *)
WorkflowChanges ==
    /\ newsCount < MaxNews /\ newsCount' = newsCount + 1
    /\ workflows' = [workflows EXCEPT !.now = 1 + (workflows.now % MaxNews)]
    /\ UNCHANGED <<unpublished, receivers, stale>>

(* A poll sends a payload that differs from the last one it sent.            *)
PollWorkflows ==
    LET w == workflows.now IN
    /\ workflows' =
          IF w # workflows.last
          THEN [workflows EXCEPT !.polled = w, !.last = w, !.sent = w, !.error = FALSE]
          ELSE [workflows EXCEPT !.polled = w]
    /\ UNCHANGED <<unpublished, receivers, stale, newsCount>>

(* The extension does not answer one of its methods: the reader is told, and *)
(* not told when it answers again as before. *)
PollFails ==
    /\ workflows' = [workflows EXCEPT !.error = TRUE]
    /\ UNCHANGED <<unpublished, receivers, stale, newsCount>>

TopicNext ==
    \/ \E e \in HubEvents : Changed(e) \/ PublishToAll(e)
    \/ \E r \in Readers :
          \/ \E topic \in HubTopics : SubscribeTo(r, topic)
          \/ FirstSignal(r) \/ CatchUp(r) \/ Receive1(r) \/ Leave(r)
    \/ WorkflowChanges \/ PollWorkflows \/ PollFails

TopicSpec == TopicInit /\ [][TopicNext]_topicVars

-----------------------------------------------------------------------------
(* A connection that has nothing left to receive was signalled after every   *)
(* change of its topic, however far it had fallen behind and however the     *)
(* change raced its connecting. *)
NoChangeIsMissed ==
    \A r \in Readers :
        /\ receivers[r].at = "receiving" /\ ~receivers[r].lagged /\ receivers[r].queue = <<>>
        /\ unpublished \cap Relevant(receivers[r].topic) = {}
        => r \notin stale

(* The snapshot a reader of workflows was sent last is the one polled last,  *)
(* also when polls failed in between. *)
WorkflowsAreShown == workflows.sent = workflows.polled
=============================================================================
