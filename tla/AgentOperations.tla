--------------------------- MODULE AgentOperations ---------------------------
(***************************************************************************)
(* The operation runtime of the host: the operations table (operations/),  *)
(* the tasks that perform and resume operations (runtime_bridge) and the   *)
(* approval route that resumes or cancels them (routes/permissions),       *)
(* composed with the permission store of PermissionGate.                   *)
(*                                                                         *)
(* A task is one run of perform_operation or resume_operation_after_       *)
(* approval; it is also the caller of the permission store, so the caller  *)
(* steps of PermissionGate are conjoined here with what the task does.     *)
(* update_operation is an UPDATE by id: no step below looks at the status  *)
(* it overwrites, except where the code's SELECT does.                     *)
(***************************************************************************)
EXTENDS PermissionGate

CONSTANTS
    Payloads,       \* what is asked for: records [slot, request]
    MaxOperations,  \* bound on the rows of operations
    MaxCrashes      \* bound on restarts and on other processes that bootstrap

ASSUME OperationAssumption ==
    /\ \A p \in Payloads : DOMAIN p = {"slot", "request"} /\ p.request \in Requests
    /\ MaxOperations \in Nat
    /\ MaxCrashes \in Nat

VARIABLES
    ops,      \* operations, by creation
    links,    \* operation_approvals: <<operation, approval>>
    task,     \* where each task stands
    crashes,  \* restarts and bootstraps by other processes so far
    listed    \* operations that another process found abandoned and is cancelling

vars == <<gateVars, ops, links, task, crashes, listed>>

Active     == {"queued", "running", "blocked"}
Finished   == {"succeeded", "failed", "cancelled"}
OpStatuses == Active \cup Finished

TaskSteps == {"idle", "supersede", "cancel", "start", "authorize", "authorized",
              "settle", "link", "resume"}

Tasks == [step : TaskSteps, op : 0..MaxOperations, found : SUBSET (1..MaxOperations),
          approval : 0..MaxApprovals, outcome : OpStatuses]

(* Type correctness: an operation shows one of the six statuses of           *)
(* OperationStatus, and links name rows that fit their tables.               *)
OperationsTypeOK ==
    /\ GateTypeOK
    /\ ops \in Seq([payload : Payloads, status : OpStatuses])
    /\ Len(ops) <= MaxOperations
    /\ links \subseteq (1..MaxOperations) \X (1..MaxApprovals)
    /\ task \in [Callers -> Tasks]
    /\ crashes \in 0..MaxCrashes
    /\ listed \subseteq 1..MaxOperations

IdleTask == [step |-> "idle", op |-> 0, found |-> {}, approval |-> 0, outcome |-> "failed"]

Init ==
    /\ GateInit
    /\ ops = <<>>
    /\ links = {}
    /\ task = [c \in Callers |-> IdleTask]
    /\ crashes = 0
    /\ listed = {}

-----------------------------------------------------------------------------
(* Bounds.  Whatever runs may still add a row to each table and spawn a      *)
(* task, so new work starts only while there is room for all of it: no step  *)
(* of work under way is ever held up by a bound.                             *)
Busy == {c \in Callers : task[c].step # "idle"}
AtWork == {v \in Admins : admin[v].step # "idle"}
Room ==
    LET started == Cardinality(Busy) + Cardinality(AtWork) IN
    /\ started < Cardinality(Callers)
    /\ Len(approvals) + started < MaxApprovals
    /\ Len(grants) + started < MaxGrants

-----------------------------------------------------------------------------
(* perform_operation *)

(* create_operation inserts the row as queued ... *)
Perform(c, p) ==
    /\ task[c].step = "idle" /\ Room /\ Len(ops) < MaxOperations
    /\ ops' = Append(ops, [payload |-> p, status |-> "queued"])
    /\ task' = [task EXCEPT ![c] = [IdleTask EXCEPT !.step = "supersede", !.op = Len(ops) + 1]]
    /\ UNCHANGED <<gateVars, links, crashes, listed>>

(* ... and then finds the other active operations of the same slot           *)
(* (cancel_superseded_active_operations_with_connection) ...                 *)
Superseded(o) ==
    {x \in DOMAIN ops : x # o /\ ops[x].payload.slot = ops[o].payload.slot
                             /\ ops[x].status \in Active}
CancelsNext(c, rows) ==
    task' = [task EXCEPT ![c].found = rows, ![c].step = IF rows = {} THEN "start" ELSE "cancel"]

Supersede(c) ==
    /\ task[c].step = "supersede"
    /\ CancelsNext(c, Superseded(task[c].op))
    /\ UNCHANGED <<gateVars, ops, links, crashes, listed>>

(* ... which are cancelled one by one, whatever became of them since.        *)
CancelFound(c) ==
    /\ task[c].step = "cancel"
    /\ \E x \in task[c].found :
          /\ ops' = [ops EXCEPT ![x].status = "cancelled"]
          /\ CancelsNext(c, task[c].found \ {x})
    /\ UNCHANGED <<gateVars, links, crashes, listed>>

Start(c) ==
    /\ task[c].step = "start"
    /\ ops' = [ops EXCEPT ![task[c].op].status = "running"]
    /\ task' = [task EXCEPT ![c].step = "authorize"]
    /\ UNCHANGED <<gateVars, links, crashes, listed>>

-----------------------------------------------------------------------------
(* execute_operation_payload, common to performing and resuming *)

(* The checks before the permission request: an unknown agent, skill or      *)
(* operation fails the operation, a skill the agent may not use cancels it.  *)
Refuse(c, outcome) ==
    /\ task[c].step = "authorize"
    /\ outcome \in {"failed", "cancelled"}
    /\ task' = [task EXCEPT ![c].step = "settle", ![c].outcome = outcome]
    /\ UNCHANGED <<gateVars, ops, links, crashes, listed>>

Authorize(c) ==
    /\ task[c].step = "authorize"
    /\ Evaluate(c, ops[task[c].op].payload.request)
    /\ task' = [task EXCEPT ![c].step = "authorized"]
    /\ UNCHANGED <<ops, links, crashes, listed>>

ConsumeGrant(c) ==
    /\ Consume(c)
    /\ UNCHANGED <<ops, links, task, crashes, listed>>

(* A mutant: an error of the call returns early and settles nothing. *)
RunLosingErrors(c, outcome) ==
    /\ Execute(c)
    /\ task' = [task EXCEPT ![c] = IF outcome = "failed" THEN IdleTask
                                   ELSE [@ EXCEPT !.step = "settle", !.outcome = outcome]]
    /\ UNCHANGED <<ops, links, crashes, listed>>

(* The command, skill or provider call ends: with a result, or with an       *)
(* error (not started, or timed out).                                        *)
Run(c, outcome) ==
    /\ Execute(c)
    /\ outcome \in {"succeeded", "failed"}
    /\ task' = [task EXCEPT ![c].step = "settle", ![c].outcome = outcome]
    /\ UNCHANGED <<ops, links, crashes, listed>>

(* A mutant: the operation gets a status that is none. *)
AskUnnamed(c) ==
    /\ Report(c)
    /\ task' = [task EXCEPT ![c].step = "settle", ![c].outcome = "approval_required",
                            ![c].approval = call[c].approval]
    /\ UNCHANGED <<ops, links, crashes, listed>>

(* "approval required" comes back as an error carrying the approval's id. *)
Ask(c) ==
    /\ Report(c)
    /\ task' = [task EXCEPT ![c].step = "settle", ![c].outcome = "blocked",
                            ![c].approval = call[c].approval]
    /\ UNCHANGED <<ops, links, crashes, listed>>

Settle(c) ==
    /\ task[c].step = "settle"
    /\ ops' = [ops EXCEPT ![task[c].op].status = task[c].outcome]
    /\ task' = [task EXCEPT ![c] = IF task[c].outcome = "blocked"
                                   THEN [@ EXCEPT !.step = "link"] ELSE IdleTask]
    /\ UNCHANGED <<gateVars, links, crashes, listed>>

(* link_approval is a second statement, after the operation is blocked. *)
Link(c) ==
    /\ task[c].step = "link"
    /\ links' = links \cup {<<task[c].op, task[c].approval>>}
    /\ task' = [task EXCEPT ![c] = IdleTask]
    /\ UNCHANGED <<gateVars, ops, crashes, listed>>

-----------------------------------------------------------------------------
(* permission_approval_resolve, after resolve_approval answered *)

Linked(a) == {o \in DOMAIN ops : <<o, a>> \in links}

(* A mutant: the status that resolve_approval answered is not looked at. *)
SpawnAnyway(v, c) ==
    /\ admin[v].step = "resolved"
    /\ task[c].step = "idle"
    /\ Answer(v)
    /\ task' = [task EXCEPT ![c] = [IdleTask EXCEPT !.step = "resume",
                                                    !.approval = admin[v].id]]
    /\ UNCHANGED <<ops, links, crashes, listed>>

(* The approval is approved, by this request or an earlier one: spawn the    *)
(* resumption.                                                               *)
SpawnResume(v, c) ==
    /\ admin[v].step = "resolved" /\ admin[v].status = "approved"
    /\ task[c].step = "idle"
    /\ Answer(v)
    /\ task' = [task EXCEPT ![c] = [IdleTask EXCEPT !.step = "resume",
                                                    !.approval = admin[v].id]]
    /\ UNCHANGED <<ops, links, crashes, listed>>

(* A mutant: a denial leaves the operation as it is. *)
LeaveBlocked(v) ==
    /\ admin[v].step = "resolved" /\ admin[v].status # "approved"
    /\ Answer(v)
    /\ UNCHANGED <<ops, links, task, crashes, listed>>

(* Otherwise its operation is cancelled, in whatever state it is. *)
CancelBlocked(v) ==
    /\ admin[v].step = "resolved" /\ admin[v].status # "approved"
    /\ Answer(v)
    /\ ops' = [o \in DOMAIN ops |->
                 IF o \in Linked(admin[v].id)
                 THEN [ops[o] EXCEPT !.status = "cancelled"] ELSE ops[o]]
    /\ UNCHANGED <<links, task, crashes, listed>>

(* resume_operation_after_approval: with no linked operation there is        *)
(* nothing to do; otherwise it runs again, whatever its status.              *)
Resume(c) ==
    /\ task[c].step = "resume"
    /\ \/ /\ Linked(task[c].approval) = {}
          /\ task' = [task EXCEPT ![c] = IdleTask]
          /\ UNCHANGED ops
       \/ \E o \in Linked(task[c].approval) :
          /\ ops' = [ops EXCEPT ![o].status = "running"]
          /\ task' = [task EXCEPT ![c] = [IdleTask EXCEPT !.step = "authorize", !.op = o]]
    /\ UNCHANGED <<gateVars, links, crashes, listed>>

-----------------------------------------------------------------------------
(* The approval and grant routes, as in PermissionGate. *)

StartManaging(v) ==
    /\ Room
    /\ \/ \E a \in 1..MaxApprovals, resolution \in Resolutions :
             StartResolve(v, a, resolution)
       \/ \E g \in 1..MaxGrants : StartRevoke(v, g)
    /\ UNCHANGED <<ops, links, task, crashes, listed>>

Manage(v) ==
    /\ UpdateApproval(v) \/ InsertGrant(v) \/ UpdateRevoked(v)
    /\ UNCHANGED <<ops, links, task, crashes, listed>>

(* A grant route or a listing, and the passing of time. *)
Browse ==
    /\ ListApprovals \/ \E a \in 1..MaxApprovals : FallDue(a)
    /\ UNCHANGED <<ops, links, task, crashes, listed>>

(* A mutant: queued operations are forgotten at startup. *)
RestartKeepingQueued ==
    /\ crashes < MaxCrashes
    /\ crashes' = crashes + 1
    /\ ops' = [o \in DOMAIN ops |->
                 IF ops[o].status = "running"
                 THEN [ops[o] EXCEPT !.status = "cancelled"] ELSE ops[o]]
    /\ task' = [c \in Callers |-> IdleTask]
    /\ call' = [c \in Callers |-> IdleCall]
    /\ admin' = [v \in Admins |-> IdleAdmin]
    /\ UNCHANGED <<approvals, grants, spent, links, listed>>

(* The server stops at any moment; when it starts again, before it serves,   *)
(* cancel_abandoned_operations cancels what was queued or running, all of it *)
(* or, stopped once more, the rest of it at the start after that.            *)
Restart ==
    /\ crashes < MaxCrashes
    /\ crashes' = crashes + 1
    /\ ops' = [o \in DOMAIN ops |->
                 IF ops[o].status \in {"queued", "running"}
                 THEN [ops[o] EXCEPT !.status = "cancelled"] ELSE ops[o]]
    /\ task' = [c \in Callers |-> IdleTask]
    /\ call' = [c \in Callers |-> IdleCall]
    /\ admin' = [v \in Admins |-> IdleAdmin]
    /\ UNCHANGED <<approvals, grants, spent, links, listed>>

(* extension_command bootstraps the same home while the server runs: what    *)
(* the server is working on is listed as abandoned, and its tasks go on ...  *)
OtherBootstraps ==
    /\ crashes < MaxCrashes
    /\ crashes' = crashes + 1
    /\ listed' = listed \cup {o \in DOMAIN ops : ops[o].status \in {"queued", "running"}}
    /\ UNCHANGED <<gateVars, ops, links, task>>

(* ... while it is cancelled one by one, whatever became of it since.        *)
OtherCancels ==
    /\ \E o \in listed : /\ ops' = [ops EXCEPT ![o].status = "cancelled"]
                         /\ listed' = listed \ {o}
    /\ UNCHANGED <<gateVars, links, task, crashes>>

-----------------------------------------------------------------------------
TaskStep(c) ==
    \/ Supersede(c) \/ CancelFound(c) \/ Start(c)
    \/ \E outcome \in Finished : Refuse(c, outcome) \/ Run(c, outcome)
    \/ Authorize(c) \/ ConsumeGrant(c) \/ Ask(c)
    \/ Settle(c) \/ Link(c) \/ Resume(c)

AdminStep(v) ==
    \/ Manage(v)
    \/ CancelBlocked(v)
    \/ \E c \in Callers : SpawnResume(v, c)

Next ==
    \/ \E c \in Callers : TaskStep(c) \/ \E p \in Payloads : Perform(c, p)
    \/ \E v \in Admins : AdminStep(v) \/ StartManaging(v)
    \/ Browse
    \/ Restart \/ OtherBootstraps \/ OtherCancels

(* Handlers and tasks run on the server's thread pool and every external     *)
(* call of a command or skill has a timeout, so what has begun goes on.      *)
Fairness ==
    /\ \A c \in Callers : WF_vars(TaskStep(c))
    /\ \A v \in Admins : WF_vars(AdminStep(v))

Spec == Init /\ [][Next]_vars /\ Fairness

-----------------------------------------------------------------------------
(* Properties. *)

Driving(o) == {c \in Callers : task[c].op = o /\ task[c].step # "link"}

(* update_operation and cancel_abandoned_operations: an operation shown as  *)
(* queued or running is being worked on by a live task that will settle it; *)
(* no race of performers, resumptions and cancellations, and no restart,    *)
(* leaves one running for ever.                                             *)
ActiveHasATask ==
    \A o \in DOMAIN ops :
        ops[o].status \in {"queued", "running"} => Driving(o) # {}

(* complete_operation_execution blocks an operation and links its approval  *)
(* in two statements: unless the server restarted in between, a blocked     *)
(* operation has an approval a user can resolve, or is about to get it.     *)
BlockedHasApproval ==
    crashes = 0 =>
        \A o \in DOMAIN ops : ops[o].status = "blocked" =>
            \/ \E a \in DOMAIN approvals : <<o, a>> \in links
            \/ \E c \in Callers : task[c].step = "link" /\ task[c].op = o

(* Whatever the conversation still shows as unfinished has somebody, or an   *)
(* approval, that will bring it to an end. *)
UnfinishedOperationsAreHeld == ActiveHasATask /\ BlockedHasApproval

(* permission_approval_resolve: a blocked operation goes back to running    *)
(* only after a user decided an approval that was asked for it.             *)
ResumedByDecision == [][
    \A o \in DOMAIN ops :
        ops[o].status = "blocked" /\ ops'[o].status = "running" =>
            \E a \in DOMAIN approvals :
                /\ <<o, a>> \in links
                /\ Decided(a)
                /\ approvals[a].request = ops[o].payload.request ]_vars

Shown(o, S) == o \in DOMAIN ops /\ ops[o].status \in S

(* complete_operation_execution and resume_operation_after_approval: what   *)
(* is queued or running ends, or stops to wait for an approval.             *)
RunningEnds ==
    \A o \in 1..MaxOperations :
        Shown(o, {"queued", "running"}) ~> Shown(o, {"blocked"} \cup Finished)

(* permission_approval_resolve: a user's answer to an approval that is      *)
(* linked to a blocked operation moves that operation on, unless the server *)
(* restarts before it does.                                                 *)
Answering(o) ==
    /\ Shown(o, {"blocked"})
    /\ \E v \in Admins :
        /\ admin[v].step \in {"update", "insert", "resolved"}
        /\ <<o, admin[v].id>> \in links

AnswerMovesOn ==
    \A o \in 1..MaxOperations :
        (Answering(o) /\ crashes = MaxCrashes) ~> Shown(o, OpStatuses \ {"blocked"})

(* operations/mod.rs:415: "a newer operation took over the same execution   *)
(* slot": a slot has one active operation.                                  *)
OneActivePerSlot ==
    (\A c \in Callers : task[c].step \notin {"supersede", "cancel"}) =>
        \A x, y \in {o \in DOMAIN ops : ops[o].status \in Active} :
            ops[x].payload.slot = ops[y].payload.slot => x = y
=============================================================================
