---------------------------- MODULE MCExtensions ----------------------------
(* Small instances of the builtin extensions and of what the host does for   *)
(* them, checked in one run: each behavior moves one component, which part   *)
(* names, and the others are still.  The state of extensions is moved by     *)
(* itself and together with the stream that shows its records.               *)
EXTENDS ConversationTurns, WorkflowRuns, PlanRules, Conversations, MemoryStore,
        ActionPipeline, ConversationStream, TopicStreams, TLC

VARIABLE part    \* the component that moves

\* Every message addresses every agent.
AllAgents == [m \in Messages |-> SetToSeq(TurnAgents)]

\* Two extensions declare the action; one of them and a third handle its event.
TwoProviders == <<"x", "y">>
TwoHandlers  == <<"x", "z">>

CONSTANTS
    TurnBound,       \* bound on the operations and the deaths of turns together
    StreamTimes,     \* bound on the times drawn for records beside a stream
    p1, p2, q1, q2   \* workers, clients and readers of every component, owners of memories

Symmetry == Permutations({p1, p2}) \cup Permutations({q1, q2})

-----------------------------------------------------------------------------
ExtensionParts ==
    {"turns", "runs", "plans", "conversations", "memory", "pipeline", "topics", "store", "stream"}

(* A component that does not move holds this in its variables; conversations *)
(* and the state of extensions stay where they begin, since their action     *)
(* properties are stated of every step.                                      *)
Still == "still"

ExtensionsInit ==
    /\ part \in ExtensionParts
    /\ ConvInit /\ StreamInit
    /\ IF part = "turns" THEN TurnsInit ELSE
            drives = Still /\ workers = Still /\ booted = Still /\ receipts = Still
            /\ confirming = Still /\ turnRuns = Still /\ rows = Still /\ rowTurn = Still
            /\ turnOps = Still /\ hooks = Still /\ said = Still /\ owed = Still
            /\ deaths = Still
    /\ IF part = "runs" THEN RunsInit ELSE
            session = Still /\ drafts = Still /\ wfRuns = Still /\ recent = Still
            /\ handlers = Still /\ heard = Still /\ errors = Still
    /\ IF part = "plans" THEN PlanInit ELSE
            attempt = Still /\ written = Still /\ draft = Still /\ tasks = Still
    /\ IF part = "memory" THEN MemInit ELSE
            memories = Still /\ touched = Still /\ reviews = Still /\ memJobs = Still
            /\ memCalls = Still /\ disturbed = Still
    /\ IF part = "pipeline" THEN PipeInit ELSE
            ready = Still /\ onceLeft = Still /\ requested = Still /\ taskMode = Still
            /\ pipes = Still /\ slotDrives = Still /\ upset = Still
    /\ IF part = "topics" THEN TopicInit ELSE
            unpublished = Still /\ receivers = Still /\ stale = Still
            /\ newsCount = Still /\ workflows = Still

(* Two messages share one worker and one run; one message is served by two   *)
(* workers and may make two runs.                                            *)
SentMessages == {m \in Messages : drives[m] # "unsent"}
UsedWorkers  == booted \cup {w \in TurnWorkers : workers[w].step # "idle"}
RunsMade     == {k \in LoopIds : k[2] \in 1..turnRuns[k[1]]}
TurnsAreFew  ==
    /\ Len(turnOps) + deaths <= TurnBound
    /\ \A s \in {UsedWorkers, RunsMade} : Cardinality(SentMessages) + Cardinality(s) <= 3

TurnsPart ==
    /\ part = "turns" /\ TurnsNext /\ TurnsAreFew'
    /\ UNCHANGED <<part, runVars, planVars, convVars, memVars, pipeVars, topicVars,
                   streamVars>>

RunsPart ==
    /\ part = "runs" /\ RunsNext
    /\ UNCHANGED <<part, turnVars, planVars, convVars, memVars, pipeVars, topicVars,
                   streamVars>>

PlansPart ==
    /\ part = "plans" /\ PlanNext
    /\ UNCHANGED <<part, turnVars, runVars, convVars, memVars, pipeVars, topicVars,
                   streamVars>>

ConversationsPart ==
    /\ part = "conversations" /\ ConvNext
    /\ UNCHANGED <<part, turnVars, runVars, planVars, memVars, pipeVars, topicVars,
                   streamVars>>

MemoryPart ==
    /\ part = "memory" /\ MemNext
    /\ UNCHANGED <<part, turnVars, runVars, planVars, convVars, pipeVars, topicVars,
                   streamVars>>

PipelinePart ==
    /\ part = "pipeline" /\ PipeNext
    /\ UNCHANGED <<part, turnVars, runVars, planVars, convVars, memVars, topicVars,
                   streamVars>>

TopicsPart ==
    /\ part = "topics" /\ TopicNext
    /\ UNCHANGED <<part, turnVars, runVars, planVars, convVars, memVars, pipeVars, streamVars>>

StorePart ==
    /\ part = "store" /\ StoreNext
    /\ UNCHANGED <<part, turnVars, runVars, planVars, convVars, memVars, pipeVars, topicVars,
                   newsVars, stream, view>>

StreamPart ==
    /\ part = "stream" /\ StreamNext /\ clock' <= StreamTimes
    /\ UNCHANGED <<part, turnVars, runVars, planVars, convVars, memVars, pipeVars, topicVars>>

ExtensionsNext ==
    \/ TurnsPart \/ RunsPart \/ PlansPart \/ ConversationsPart
    \/ MemoryPart \/ PipelinePart \/ TopicsPart \/ StorePart
    \/ StreamPart

extensionsVars == <<part, turnVars, runVars, planVars, convVars, memVars,
                    pipeVars, topicVars, streamVars>>

ExtensionsSpec == ExtensionsInit /\ [][ExtensionsNext]_extensionsVars

-----------------------------------------------------------------------------
(* Every component stays within its types: no call that is cut, repeated or  *)
(* overtaken leaves a row its next reader has no case for.                   *)
ExtensionTypesOK ==
    /\ part = "turns" => TurnsTypeOK
    /\ part = "runs" => RunsTypeOK
    /\ part = "conversations" => ConvTypeOK
    /\ part = "memory" => MemTypeOK
    /\ part = "pipeline" => PipelineTypeOK
    /\ part = "topics" => TopicTypeOK
    /\ part \in {"store", "stream"} => StreamTypeOK

(* A client that has received all there is to receive is shown what is there:*)
(* the streams of a conversation and of the topics miss no change, however   *)
(* it raced the subscription, the polls and the failures of either.          *)
ReadersSeeWhatHappened ==
    /\ part = "stream" => MessagesAreShown /\ OperationsAreShown /\ RecordsAreShown
    /\ part = "topics" => NoChangeIsMissed /\ WorkflowsAreShown

(* The properties of the components, each while it moves. *)

(* A message is answered once, by whom it is addressed to, however many      *)
(* workers resume, recover and retry its turn.                               *)
MessagesAreAnsweredOnce == part = "turns" => TurnsSettleOnce

(* A run has the plan of its draft and logs its stages, and a message makes  *)
(* no more runs than the times it was taken, through failing accesses,       *)
(* deaths, recoveries and confirmations that overlap.                        *)
RunsFollowTheirPlans == part = "runs" => RunsKeepToTheirPlans

(* A plan that was accepted can be revised, verifies what it changes and can *)
(* be run.                                                                   *)
PlansStaySound == part = "plans" => AcceptedPlansAreSound

(* What is kept and recalled follows the policy, the reviews and the budget. *)
MemoryRecallsWhatCounts == part = "memory" => RecallIsSound

(* What was dispatched ran as it was allowed and in turn, and its event says *)
(* so.                                                                       *)
DispatchedWorkIsAccountedFor == part = "pipeline" => DispatchesAreAccountedFor
=============================================================================
