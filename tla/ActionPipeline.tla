--------------------------- MODULE ActionPipeline ---------------------------
(***************************************************************************)
(* The action pipeline of the server (server/src/pipeline/mod.rs and       *)
(* routes/actions.rs): a named action is executed by the rules that        *)
(* extensions declare for it, an event tells of it, and a message of the   *)
(* operator is offered to the handlers of the response slot, in the        *)
(* background.                                                             *)
(*                                                                         *)
(* Rules are derived from manifests only, and these always execute, with   *)
(* one priority, no condition and the last result.  The permission store   *)
(* is reduced to the grants for one call (PermissionGate has the rest),    *)
(* publishing to the event (EventBus has the deliveries).  Payloads other  *)
(* than a role and whether a conversation was deleted are left out.        *)
(***************************************************************************)
EXTENDS Integers, Sequences, FiniteSets, SequencesExt, Listings

CONSTANTS
    Providers,      \* the extensions that declare the action, in the order of their rules
    SlotHandlers,   \* those with a handler of the response slot, in their order
    MaxDispatches,  \* bound on the requests
    MaxAllowed,     \* bound on the grants a user gives
    MaxFlips,       \* bound on the switching of task mode
    MaxUpheavals    \* bound on attaching, detaching and restarts of the server

ASSUME PipelineAssumption ==
    /\ {MaxDispatches, MaxAllowed, MaxFlips, MaxUpheavals} \subseteq Nat
    /\ Providers \in Seq(Range(Providers)) /\ SlotHandlers \in Seq(Range(SlotHandlers))
    /\ IsInjective(Providers) /\ IsInjective(SlotHandlers)

VARIABLES
    ready,     \* what the snapshot has of an extension: nothing, its entry, also a worker
    onceLeft,  \* extensions for whose operation the agent has a grant for one call
    requested, \* those for whose operation a user has been asked
    taskMode,  \* the stored activation of the handlers of a conversation
    pipes,     \* the requests
    slotDrives,    \* the response drive of each request
    upset      \* what has happened outside: grants, flips and upheavals

pipeVars == <<ready, onceLeft, requested, taskMode, pipes, slotDrives, upset>>

-----------------------------------------------------------------------------
Dispatches == 1..MaxDispatches
Exts       == Range(Providers) \cup Range(SlotHandlers)
ActionKeys == {"message.append", "conversation.delete", "other"}
DriveEnds      == {"answered", "failed", "gone"}
PipeAts    ==
    {"new", "ensure", "list", "get", "authorize", "consume", "call", "after"} \cup DriveEnds
HandlerOutcomes   == {"claim", "skip", "fail", "garbled"}

NewPipe  == [at |-> "new", key |-> "other", role |-> "none", agent |-> FALSE, rules |-> <<>>,
             listed |-> <<>>, ran |-> <<>>, allowed |-> {}, value |-> "null", said |-> 0]
NewDrive == [at |-> "none", handlers |-> <<>>, listed |-> <<>>, asked |-> <<>>,
             mode |-> FALSE, flips |-> 0, owners |-> {}, lost |-> 0]

(* action_rules_for_key and pipeline_handlers_for: who is there, in order.   *)
PresentOf(order) ==
    LET there == Ordered({i \in DOMAIN order : ready[order[i]] # "absent"})
    IN  [k \in DOMAIN there |-> order[there[k]]]

(* resolve_pipeline_activation: the first handler is off unless what is      *)
(* stored for the conversation says on; the others have no activation.       *)
Mode(x) == x # SlotHandlers[1] \/ taskMode = "on"

-----------------------------------------------------------------------------
PipelineTypeOK ==
    /\ ready \in [Exts -> {"absent", "entry", "worker"}]
    /\ {onceLeft, requested} \subseteq SUBSET Range(Providers)
    /\ taskMode \in {"unset", "on", "off"}
    /\ pipes \in [Dispatches ->
          [at : PipeAts, key : ActionKeys, role : {"none", "operator", "agent"}, agent : BOOLEAN,
           rules : Seq(Range(Providers)), listed : Seq(Range(Providers)),
           ran : Seq(Range(Providers)), allowed : SUBSET Range(Providers),
           value : {"null", "done", "nothing"}, said : 0..1]]
    /\ slotDrives \in [Dispatches ->
          [at : {"none", "spawned", "resolve", "asking", "over"},
           handlers : Seq(Range(SlotHandlers)), listed : Seq(Range(SlotHandlers)),
           asked : Seq(Range(SlotHandlers)), mode : BOOLEAN, flips : 0..MaxFlips,
           owners : SUBSET Range(SlotHandlers), lost : 0..Len(SlotHandlers)]]
    /\ upset \in [grants : 0..MaxAllowed, flips : 0..MaxFlips, upheavals : 0..MaxUpheavals]

PipeInit ==
    /\ ready = [x \in Exts |-> "worker"]
    /\ onceLeft = {} /\ requested = {}
    /\ taskMode = "unset"
    /\ pipes = [d \in Dispatches |-> NewPipe]
    /\ slotDrives = [d \in Dispatches |-> NewDrive]
    /\ upset = [grants |-> 0, flips |-> 0, upheavals |-> 0]

Turn(d, p) == pipes' = [pipes EXCEPT ![d] = p]
GoTo(d, at) == Turn(d, [pipes[d] EXCEPT !.at = at])
Fail(d)  == GoTo(d, "failed")
Head1(d) == Head(pipes[d].rules)

-----------------------------------------------------------------------------
(* A request *)

(* dispatch_action_pipeline: there are no handlers of the stage before.      *)
AskHandler(d) ==
    /\ pipes[d].at = "new" /\ \A c \in Dispatches : c < d => pipes[c].at # "new"
    /\ \E key \in ActionKeys, role \in {"none", "operator", "agent"}, agent \in BOOLEAN :
          /\ role # "none" <=> key = "message.append"
          /\ Turn(d, [pipes[d] EXCEPT !.at = "ensure", !.key = key, !.role = role,
                                      !.agent = agent])
    /\ UNCHANGED <<ready, onceLeft, requested, taskMode, slotDrives, upset>>

(* ensure_action_execute_available *)
Ensure(d) ==
    /\ pipes[d].at = "ensure"
    /\ IF PresentOf(Providers) # <<>> THEN GoTo(d, "list") ELSE Fail(d)
    /\ UNCHANGED <<ready, onceLeft, requested, taskMode, slotDrives, upset>>

(* execute_action_rules, over the rules of a newer snapshot. *)
List(d) ==
    /\ pipes[d].at = "list"
    /\ LET rules == PresentOf(Providers) IN
       IF rules = <<>> THEN Fail(d)
       ELSE Turn(d, [pipes[d] EXCEPT !.at = "get", !.rules = rules, !.listed = rules])
    /\ UNCHANGED <<ready, onceLeft, requested, taskMode, slotDrives, upset>>

(* dispatch_action_rule_execute: the extension is looked up again.           *)
Get(d) ==
    /\ pipes[d].at = "get"
    /\ IF ready[Head1(d)] # "worker" THEN Fail(d)
       ELSE GoTo(d, IF pipes[d].agent THEN "authorize" ELSE "call")
    /\ UNCHANGED <<ready, onceLeft, requested, taskMode, slotDrives, upset>>

(* build_action_permission_request: the extension is part of the scope.      *)
Covered(d) == Head1(d) \in onceLeft

(* authorize_action_dispatch: a grant covers one extension; without one a    *)
(* user is asked and the request ends, whatever earlier rules have done.     *)
AuthorizeDispatch(d) ==
    /\ pipes[d].at = "authorize"
    /\ IF Covered(d)
       THEN /\ Turn(d, [pipes[d] EXCEPT !.at = "consume", !.allowed = @ \cup {Head1(d)}])
            /\ UNCHANGED requested
       ELSE /\ Fail(d)
            /\ requested' = requested \cup {Head1(d)}
    /\ UNCHANGED <<ready, onceLeft, taskMode, slotDrives, upset>>

(* consume_grant: when it fails, or the grant has gone, the call goes on.    *)
ConsumeOnce(d) ==
    /\ pipes[d].at = "consume"
    /\ \E left \in {onceLeft, onceLeft \ {Head1(d)}} : onceLeft' = left
    /\ GoTo(d, "call")
    /\ UNCHANGED <<ready, requested, taskMode, slotDrives, upset>>

(* The call: an error ends the request, whether or not the extension has     *)
(* done its part.  The last result is the answer.                            *)
Call(d) ==
    LET p == pipes[d]
        ran == Append(p.ran, Head1(d)) IN
    /\ p.at = "call"
    /\ \/ \E value \in {"done", "nothing"} :
             /\ ready[Head1(d)] = "worker"
             /\ value = "nothing" => p.key = "conversation.delete"
             /\ Turn(d, [p EXCEPT !.ran = ran, !.rules = Tail(@), !.value = value,
                                  !.at = IF Len(p.rules) = 1 THEN "after" ELSE "get"])
       \/ ready[Head1(d)] = "worker" /\ Turn(d, [p EXCEPT !.ran = ran, !.at = "failed"])
       \/ Fail(d)
    /\ UNCHANGED <<ready, onceLeft, requested, taskMode, slotDrives, upset>>

(* The events: a conversation that was not there was not deleted.            *)
HandlerSays(p) == IF p.key = "other" \/ p.value = "nothing" THEN 0 ELSE 1

(* run_pipeline_stage after success: the event, and for a message the drive. *)
After(d) ==
    LET p == pipes[d] IN
    /\ p.at = "after"
    /\ Turn(d, [p EXCEPT !.at = "answered", !.said = HandlerSays(p)])
    /\ slotDrives' = IF p.key # "message.append" THEN slotDrives
                 ELSE [slotDrives EXCEPT ![d].at = "spawned", ![d].flips = upset.flips]
    /\ UNCHANGED <<ready, onceLeft, requested, taskMode, upset>>

-----------------------------------------------------------------------------
(* The response drive *)

Drive(d, r) == slotDrives' = [slotDrives EXCEPT ![d] = r]

(* drive_operator_message_received *)
ListHandlers(d) ==
    /\ slotDrives[d].at = "spawned"
    /\ LET handlers == PresentOf(SlotHandlers) IN
       IF pipes[d].role # "operator" \/ handlers = <<>>
       THEN Drive(d, [slotDrives[d] EXCEPT !.at = "over"])
       ELSE Drive(d, [slotDrives[d] EXCEPT !.at = "resolve", !.handlers = handlers,
                                           !.listed = handlers])
    /\ UNCHANGED <<ready, onceLeft, requested, taskMode, pipes, upset>>

(* The activation is read, and sent with the message.                        *)
ResolveMode(d) ==
    /\ slotDrives[d].at = "resolve"
    /\ Drive(d, [slotDrives[d] EXCEPT !.at = "asking",
                                      !.mode = Mode(Head(slotDrives[d].handlers))])
    /\ UNCHANGED <<ready, onceLeft, requested, taskMode, pipes, upset>>

(* A mutant: the handler that claims is recorded, and the next one is asked. *)
GoesOnAfter(outcome) == TRUE

(* The message has an owner once a handler claims it. *)
GoesOn(outcome) == outcome # "claim"

(* Whoever is next: also after a failure and after an answer nobody can      *)
(* read. *)
Remaining(handlers, outcome) == Tail(handlers)

Answered(d, outcome, owners, lost) ==
    LET r == slotDrives[d]
        rest == Remaining(r.handlers, outcome) IN
    Drive(d, [r EXCEPT !.handlers = rest, !.asked = Append(@, Head(r.handlers)),
                       !.owners = owners, !.lost = lost,
                       !.at = IF GoesOn(outcome) /\ rest # <<>> THEN "resolve" ELSE "over"])

(* A handler answers, if its extension is still there. *)
HandlerAnswers(d) ==
    LET r == slotDrives[d] IN
    /\ r.at = "asking" /\ ready[Head(r.handlers)] = "worker"
    /\ \E outcome \in HandlerOutcomes :
          Answered(d, outcome,
                   IF outcome = "claim" THEN r.owners \cup {Head(r.handlers)} ELSE r.owners, r.lost)
    /\ UNCHANGED <<ready, onceLeft, requested, taskMode, pipes, upset>>

(* The call fails or times out: the handler may have claimed the message.    *)
HandlerIsLost(d) ==
    LET r == slotDrives[d] IN
    /\ r.at = "asking"
    /\ \/ Answered(d, "fail", r.owners, r.lost)
       \/ /\ ready[Head(r.handlers)] = "worker"
          /\ Answered(d, "fail", r.owners \cup {Head(r.handlers)}, r.lost + 1)
    /\ UNCHANGED <<ready, onceLeft, requested, taskMode, pipes, upset>>

-----------------------------------------------------------------------------
(* Around it *)

Approve ==
    /\ upset.grants < MaxAllowed
    /\ \E x \in requested : onceLeft' = onceLeft \cup {x} /\ requested' = requested \ {x}
    /\ upset' = [upset EXCEPT !.grants = @ + 1]
    /\ UNCHANGED <<ready, taskMode, pipes, slotDrives>>

Flip ==
    /\ upset.flips < MaxFlips
    /\ \E mode \in {"on", "off"} : mode # taskMode /\ taskMode' = mode
    /\ upset' = [upset EXCEPT !.flips = @ + 1]
    /\ UNCHANGED <<ready, onceLeft, requested, pipes, slotDrives>>

(* A snapshot without an extension, with it, or with it and no worker.       *)
Swapped ==
    /\ upset.upheavals < MaxUpheavals
    /\ \E x \in Exts, s \in {"absent", "entry", "worker"} :
          ready[x] # s /\ ready' = [ready EXCEPT ![x] = s]
    /\ upset' = [upset EXCEPT !.upheavals = @ + 1]
    /\ UNCHANGED <<onceLeft, requested, taskMode, pipes, slotDrives>>

(* The server restarts: requests and drives are tasks of the process.        *)
PipelineRestarts ==
    /\ upset.upheavals < MaxUpheavals
    /\ pipes' = [d \in Dispatches |-> IF pipes[d].at \in DriveEnds \cup {"new"} THEN pipes[d]
                                      ELSE [pipes[d] EXCEPT !.at = "gone"]]
    /\ slotDrives' = [d \in Dispatches |-> IF slotDrives[d].at = "none" THEN slotDrives[d]
                                       ELSE [slotDrives[d] EXCEPT !.at = "over"]]
    /\ pipes' # pipes \/ slotDrives' # slotDrives
    /\ upset' = [upset EXCEPT !.upheavals = @ + 1]
    /\ UNCHANGED <<ready, onceLeft, requested, taskMode>>

PipeNext ==
    \/ \E d \in Dispatches :
          \/ AskHandler(d) \/ Ensure(d) \/ List(d) \/ Get(d)
          \/ AuthorizeDispatch(d) \/ ConsumeOnce(d)
          \/ Call(d) \/ After(d)
          \/ ListHandlers(d) \/ ResolveMode(d) \/ HandlerAnswers(d) \/ HandlerIsLost(d)
    \/ Approve \/ Flip \/ Swapped \/ PipelineRestarts

PipeSpec == PipeInit /\ [][PipeNext]_pipeVars

-----------------------------------------------------------------------------
(* Properties *)

(* An event tells of what has been done by every extension that declares     *)
(* the action, in their order; of a request that failed half-way, of which   *)
(* some extensions have done their part, there is none.                      *)
EventsDescribeWhatRan ==
    \A d \in Dispatches :
       LET p == pipes[d] IN
       /\ IsPrefix(p.ran, p.listed)
       /\ p.said = 1 => p.ran = p.listed /\ p.at = "answered"
       /\ slotDrives[d].at # "none" => p.said = 1

(* No extension works for an agent that had no grant for that extension,     *)
(* also when the action is declared by several of them and the registry      *)
(* changes in between.                                                       *)
AgentRunsWereAllowed ==
    \A d \in Dispatches : pipes[d].agent => Range(pipes[d].ran) \subseteq pipes[d].allowed

(* docs/architecture.md: the slot of a message has one owner; a second one   *)
(* only if the answer of the first was lost.                                 *)
SlotHasOneOwner ==
    \A d \in Dispatches : Cardinality(slotDrives[d].owners) <= 1 + slotDrives[d].lost

(* Whatever the handlers answer and whoever fails, a drive that no one has   *)
(* claimed has asked all handlers it began with, each once, in their order.  *)
HandlersAreAskedInTurn ==
    \A d \in Dispatches :
       LET r == slotDrives[d] IN
       /\ r.asked \o r.handlers = r.listed
       /\ (r.at = "over" /\ r.handlers # <<>> /\ r.owners = {}) => upset.upheavals > 0

(* A handler works in task mode on a message only if the user has switched   *)
(* it on, and in the other one only if the user has not; or it was switched  *)
(* after the message had been appended.                                      *)
HandlersKnowTheirMode ==
    \A d \in Dispatches :
       LET r == slotDrives[d] IN
       (r.at = "asking" /\ r.flips = upset.flips /\ Head(r.handlers) = SlotHandlers[1]) =>
          (r.mode <=> taskMode = "on")

(* Whatever has been dispatched is told, allowed and claimed as it was done, *)
(* with the registry, the grants and the task mode changing between the steps*)
(* of a request. *)
DispatchesAreAccountedFor ==
    /\ EventsDescribeWhatRan
    /\ AgentRunsWereAllowed
    /\ SlotHasOneOwner
    /\ HandlersAreAskedInTurn
    /\ HandlersKnowTheirMode
=============================================================================
