------------------------ MODULE AgentOperationsProofs ------------------------
(***************************************************************************)
(* Theorems about AgentOperations, for every set of payloads, callers and  *)
(* handlers and any number of operations, approvals and restarts: what the *)
(* permission store promises also holds under the tasks and over restarts, *)
(* and no operation is left unfinished with nobody to finish it.           *)
(***************************************************************************)
EXTENDS AgentOperations, PermissionGateProofs

OperationRows == [payload : Payloads, status : OpStatuses]

-----------------------------------------------------------------------------
(* The inductive invariant. *)

(* Approval a exists and was asked for operation o. *)
AskedFor(o, a) == a \in DOMAIN approvals /\ approvals[a].request = ops[o].payload.request

(* A task names an operation from its first statement to its last, and a     *)
(* resumption finds its own.                                                 *)
TaskRefs ==
    \A c \in Callers :
        /\ task[c].step \in {"idle", "resume"} => task[c].op = 0
        /\ task[c].step \notin {"idle", "resume"} => task[c].op \in DOMAIN ops

(* The permission store works for a task that authorises itself only, and    *)
(* asks for that task's operation.                                           *)
CallsBelong ==
    \A c \in Callers :
        /\ call[c].step # "idle" => task[c].step = "authorized"
        /\ call[c].step = "asked" => AskedFor(task[c].op, call[c].approval)

(* A task never settles its operation as active, and one that blocks it      *)
(* holds the approval that was asked for.                                    *)
OutcomeRefs ==
    \A c \in Callers :
        /\ task[c].step = "settle" => task[c].outcome \notin {"queued", "running"}
        /\ task[c].step = "settle" /\ task[c].outcome = "blocked"
              => AskedFor(task[c].op, task[c].approval)
        /\ task[c].step = "link" => AskedFor(task[c].op, task[c].approval)

LinkRefs == \A l \in links : l[1] \in DOMAIN ops /\ AskedFor(l[1], l[2])

(* What a handler or a resumption takes for approved has been decided. *)
AnsweredRefs ==
    /\ \A v \in Admins : admin[v].status = "approved" =>
            admin[v].id \in DOMAIN approvals /\ Decided(admin[v].id)
    /\ \A c \in Callers : task[c].step = "resume" =>
            task[c].approval \in DOMAIN approvals /\ Decided(task[c].approval)

(* An operation that was not started yet is its performer's alone: it has    *)
(* not been blocked, and no resumption can find it.                          *)
FreshOps ==
    \A c \in Callers : task[c].step \in {"supersede", "cancel", "start"} =>
        /\ ops[task[c].op].status \in {"queued", "cancelled"}
        /\ \A l \in links : l[1] # task[c].op
        /\ \A d \in Callers \ {c} : task[d].op # task[c].op

OperationsInv ==
    /\ GateInv
    /\ OperationsTypeOK
    /\ TaskRefs
    /\ CallsBelong
    /\ OutcomeRefs
    /\ LinkRefs
    /\ AnsweredRefs
    /\ FreshOps
    /\ ActiveHasATask
    /\ BlockedHasApproval

-----------------------------------------------------------------------------
(* What every step keeps. *)

LEMMA OperationRowsAre ==
    ASSUME OperationsTypeOK
    PROVE  /\ Len(ops) \in Nat /\ DOMAIN ops = 1..Len(ops) /\ Len(ops) <= MaxOperations
           /\ \A o \in DOMAIN ops : ops[o] \in OperationRows
           /\ task \in [Callers -> Tasks] /\ GateTypeOK
  <1>1. ops \in Seq(OperationRows)
    BY DEF OperationsTypeOK, OperationRows
  <1> QED BY <1>1, TableRows DEF OperationsTypeOK

(* The permission store moves as by itself, or the server restarts. *)
LEMMA GateMoves ==
    ASSUME OperationsInv, Next
    PROVE  [GateNext]_gateVars \/ Restart
  <1>1. ASSUME NEW c \in Callers, Authorize(c)
        PROVE  GateNext
    <2>1. ops[task[c].op] \in OperationRows
      BY <1>1, OperationRowsAre DEF OperationsInv, TaskRefs, Authorize
    <2>2. ops[task[c].op].payload.request \in Requests
      BY <2>1, OperationAssumption DEF OperationRows
    <2> QED BY <1>1, <2>2 DEF Authorize, GateNext, CallerNext
  <1>2. ASSUME NEW c \in Callers, TaskStep(c)
        PROVE  [GateNext]_gateVars
    BY <1>1, <1>2 DEF TaskStep, Supersede, CancelFound, Start, Refuse, Run, ConsumeGrant, Ask,
       Settle, Link, Resume, GateNext, CallerNext
  <1>3. ASSUME NEW v \in Admins, AdminStep(v) \/ StartManaging(v)
        PROVE  GateNext
    BY <1>3 DEF AdminStep, Manage, CancelBlocked, SpawnResume, StartManaging, GateNext, AdminNext
  <1>4. Browse => GateNext
    BY DEF Browse, GateNext, AdminNext
  <1>5. ASSUME NEW c \in Callers, NEW p \in Payloads, Perform(c, p)
        PROVE  UNCHANGED gateVars
    BY <1>5 DEF Perform
  <1>6. OtherBootstraps \/ OtherCancels => UNCHANGED gateVars
    BY DEF OtherBootstraps, OtherCancels
  <1> QED
    BY <1>2, <1>3, <1>4, <1>5, <1>6 DEF Next

(* A restart forgets the callers and handlers and nothing of the tables. *)
LEMMA RestartKeepsTheGate ==
    ASSUME GateInv, Restart
    PROVE  GateInv'
  <1> USE GateAssumption DEF GateInv, Restart
  <1>1. GateTypeOK'
    BY DEF GateTypeOK, IdleCall, IdleAdmin, Calls, AdminStates, Statuses
  <1>2. AdminRefs' /\ CallRefs'
    BY DEF AdminRefs, CallRefs, IdleCall, IdleAdmin
  <1>3. SpentRefs' /\ GrantsComeFromDecisions'
    BY DEF SpentRefs, GrantsComeFromDecisions, Decided
  <1>4. OnceIsConsumedBeforeTheRun'
    BY DEF OnceIsConsumedBeforeTheRun, IdleCall
  <1>5. OnceOveruseIsBounded'
    <2> SUFFICES ASSUME NEW g \in DOMAIN grants, grants[g].mode = "once"
                 PROVE  spent[g] + Cardinality(Holding(g)') <= Cardinality(Callers)
      BY DEF OnceOveruseIsBounded
    <2>1. Holding(g)' = {}
      BY DEF Holding, IdleCall
    <2>2. g \in 1..MaxGrants /\ spent[g] \in Nat
      BY RowsOfTheTables DEF GateTypeOK
    <2>3. /\ spent[g] + Cardinality(Holding(g)) <= Cardinality(Callers)
          /\ Cardinality(Holding(g)) \in Nat
      BY HoldersAreFew DEF OnceOveruseIsBounded
    <2> QED BY <2>1, <2>2, <2>3, FS_EmptySet, FS_CardinalityType, CallersAreFinite
  <1> QED BY <1>1, <1>2, <1>3, <1>4, <1>5

LEMMA GateKept ==
    ASSUME OperationsInv, [Next]_vars
    PROVE  GateInv' /\ ApprovalsKept
  <1> USE DEF OperationsInv
  <1>1. CASE UNCHANGED vars
    BY <1>1, GateStep, ApprovalsKeptByEachStep DEF vars, GateInv
  <1>2. CASE Next /\ [GateNext]_gateVars
    BY <1>2, GateStep, ApprovalsKeptByEachStep DEF GateInv
  <1>3. CASE Restart
    BY <1>3, RestartKeepsTheGate DEF Restart, ApprovalsKept, Decided
  <1> QED BY <1>1, <1>2, <1>3, GateMoves

(* No operation disappears or changes what it is for. *)
OperationsKept ==
    \A o \in DOMAIN ops : o \in DOMAIN ops' /\ ops'[o].payload = ops[o].payload

(* The statements that write operations, one by one. *)
LEMMA OperationsWritten ==
    ASSUME OperationsInv, [Next]_vars
    PROVE  OperationsKept /\ ops' \in Seq(OperationRows) /\ Len(ops') <= MaxOperations
  <1> USE OperationAssumption
  <1> DEFINE Goal == /\ OperationsKept /\ ops' \in Seq(OperationRows)
                     /\ Len(ops') <= MaxOperations
  <1>1. /\ Len(ops) \in Nat /\ DOMAIN ops = 1..Len(ops) /\ Len(ops) <= MaxOperations
        /\ \A o \in DOMAIN ops : ops[o] \in OperationRows
        /\ task \in [Callers -> Tasks] /\ ops \in Seq(OperationRows)
    BY OperationRowsAre DEF OperationsInv, OperationsTypeOK, OperationRows
  <1>2. ASSUME ops' \in [DOMAIN ops -> OperationRows],
               \A o \in DOMAIN ops : ops'[o].payload = ops[o].payload
        PROVE  Goal
    <2>1. ops' \in Seq(OperationRows) /\ Len(ops') = Len(ops)
      BY <1>1, <1>2, TableUpdate
    <2> QED BY <1>1, <1>2, <2>1 DEF OperationsKept
  <1>3. CASE UNCHANGED ops
    BY <1>1, <1>3 DEF OperationsKept
  <1>4. ASSUME NEW c \in Callers, NEW p \in Payloads, Perform(c, p)
        PROVE  Goal
    <2> DEFINE row == [payload |-> p, status |-> "queued"]
    <2>1. row \in OperationRows
      BY DEF OperationRows, OpStatuses, Active
    <2>2. ops' = Append(ops, row) /\ Len(ops) < MaxOperations
      BY <1>4 DEF Perform
    <2> HIDE DEF row
    <2> QED BY <2>1, <2>2, <1>1, TableInsert DEF OperationsKept
  <1>5. ASSUME NEW S \in SUBSET (DOMAIN ops),
               ops' = [o \in DOMAIN ops |->
                         IF o \in S THEN [ops[o] EXCEPT !.status = "cancelled"] ELSE ops[o]]
        PROVE  Goal
    BY <1>1, <1>2, <1>5 DEF OperationRows, OpStatuses, Finished
  <1>6. ASSUME NEW o \in DOMAIN ops, NEW status \in OpStatuses,
               ops' = [ops EXCEPT ![o].status = status]
        PROVE  Goal
    BY <1>1, <1>2, <1>6 DEF OperationRows
  <1>7. ASSUME NEW x, ops' = [ops EXCEPT ![x].status = "cancelled"]
        PROVE  Goal
    <2>1. CASE x \in DOMAIN ops
      BY <1>6, <1>7, <2>1 DEF OpStatuses, Finished
    <2>2. CASE x \notin DOMAIN ops
      BY <1>1, <1>3, <1>7, <2>2
    <2> QED BY <2>1, <2>2
  <1>8. ASSUME NEW c \in Callers, Start(c) \/ Settle(c)
        PROVE  Goal
    BY <1>1, <1>6, <1>8 DEF Start, Settle, OperationsInv, TaskRefs, Tasks, OpStatuses, Active
  <1>9. ASSUME NEW c \in Callers, Resume(c)
        PROVE  Goal
    BY <1>3, <1>6, <1>9 DEF Resume, Linked, OpStatuses, Active
  <1>10. ASSUME NEW v \in Admins, CancelBlocked(v)
         PROVE  Goal
    <2>1. Linked(admin[v].id) \in SUBSET (DOMAIN ops)
      BY DEF Linked
    <2> QED BY <2>1, <1>5, <1>10 DEF CancelBlocked
  <1>11. CASE Restart
    <2> DEFINE S == {x \in DOMAIN ops : ops[x].status \in {"queued", "running"}}
    <2>1. ops' = [o \in DOMAIN ops |->
                    IF o \in S THEN [ops[o] EXCEPT !.status = "cancelled"] ELSE ops[o]]
      BY <1>11 DEF Restart
    <2> QED BY <2>1, <1>5
  <1>12. CASE OtherCancels \/ \E c \in Callers : CancelFound(c)
    BY <1>7, <1>12 DEF OtherCancels, CancelFound
  <1>13. CASE OtherBootstraps \/ \E c \in Callers : Supersede(c)
    BY <1>3, <1>13 DEF OtherBootstraps, Supersede
  <1> QED
    BY <1>3, <1>4, <1>8, <1>9, <1>10, <1>11, <1>12, <1>13
    DEF Next, vars, TaskStep, AdminStep, Refuse, Authorize, ConsumeGrant, Run, Ask, Link, Manage,
        SpawnResume, StartManaging, Browse

(* What was asked for an operation stays so. *)
LEMMA AskedKept ==
    ASSUME OperationsInv, [Next]_vars, NEW o \in DOMAIN ops, NEW a, AskedFor(o, a)
    PROVE  AskedFor(o, a)'
  BY GateKept, OperationsWritten DEF AskedFor, ApprovalsKept, OperationsKept

-----------------------------------------------------------------------------
(* Tasks. *)

(* A task changes by its own statements, by being spawned or by a restart. *)
LEMMA TaskChanges ==
    ASSUME OperationsInv, [Next]_vars, NEW c \in Callers, task'[c] # task[c]
    PROVE  \/ Supersede(c) \/ CancelFound(c) \/ Start(c) \/ Authorize(c) \/ Ask(c)
           \/ Settle(c) \/ Link(c) \/ Resume(c)
           \/ \E outcome \in Finished : Refuse(c, outcome) \/ Run(c, outcome)
           \/ \E p \in Payloads : Perform(c, p)
           \/ \E v \in Admins : SpawnResume(v, c)
           \/ Restart
  <1>1. task \in [Callers -> Tasks]
    BY OperationRowsAre DEF OperationsInv
  <1>2. ASSUME NEW d \in Callers, TaskStep(d) \/ \E p \in Payloads : Perform(d, p)
        PROVE  d = c \/ UNCHANGED task
    BY <1>1, <1>2 DEF TaskStep, Perform, Supersede, CancelFound, CancelsNext, Start, Refuse,
       Authorize, ConsumeGrant, Run, Ask, Settle, Link, Resume
  <1>3. ASSUME NEW v \in Admins, AdminStep(v) \/ StartManaging(v)
        PROVE  SpawnResume(v, c) \/ task'[c] = task[c]
    BY <1>1, <1>3 DEF AdminStep, Manage, CancelBlocked, SpawnResume, StartManaging
  <1> QED
    BY <1>2, <1>3 DEF Next, TaskStep, Browse, OtherBootstraps, OtherCancels, ConsumeGrant, vars

(* A performer that cancels what it supersedes stays with its operation.     *)
LEMMA TaskCancels ==
    ASSUME OperationsInv, NEW c \in Callers, Supersede(c) \/ CancelFound(c)
    PROVE  /\ task[c].step \in {"supersede", "cancel"}
           /\ task'[c].op = task[c].op /\ task'[c].step \in {"cancel", "start"}
           /\ task' \in [Callers -> Tasks] /\ UNCHANGED gateVars
  <1>1. task \in [Callers -> Tasks] /\ DOMAIN ops = 1..Len(ops) /\ Len(ops) <= MaxOperations
        /\ Len(ops) \in Nat /\ MaxOperations \in Nat
    BY OperationRowsAre, OperationAssumption DEF OperationsInv
  <1>2. PICK rows \in SUBSET (1..MaxOperations) : CancelsNext(c, rows)
    <2>1. CASE Supersede(c)
      <3>1. Superseded(task[c].op) \in SUBSET (1..MaxOperations)
        BY <1>1 DEF Superseded
      <3> QED BY <2>1, <3>1 DEF Supersede
    <2>2. CASE CancelFound(c)
      <3>1. task[c].found \in SUBSET (1..MaxOperations)
        BY <1>1 DEF Tasks
      <3> QED BY <2>2, <3>1 DEF CancelFound
    <2> QED BY <2>1, <2>2
  <1>3. /\ task[c].step \in {"supersede", "cancel"} /\ UNCHANGED gateVars
    BY DEF Supersede, CancelFound
  <1>4. /\ task'[c].op = task[c].op /\ task'[c].step \in {"cancel", "start"}
        /\ task' \in [Callers -> Tasks]
    BY <1>1, <1>2 DEF CancelsNext, Tasks, TaskSteps
  <1> QED BY <1>3, <1>4

LEMMA TaskTypeKept ==
    ASSUME OperationsInv, [Next]_vars
    PROVE  task' \in [Callers -> Tasks]
  <1> USE GateAssumption, OperationAssumption
  <1>1. /\ task \in [Callers -> Tasks] /\ GateTypeOK
        /\ Len(ops) \in Nat /\ DOMAIN ops = 1..Len(ops) /\ Len(ops) <= MaxOperations
    BY OperationRowsAre DEF OperationsInv
  <1>2. IdleTask \in Tasks
    BY DEF IdleTask, Tasks, TaskSteps, OpStatuses, Finished
  <1>3. CASE UNCHANGED task
    BY <1>1, <1>3
  <1>4. ASSUME NEW c \in Callers, NEW t \in Tasks, task' = [task EXCEPT ![c] = t]
        PROVE  task' \in [Callers -> Tasks]
    BY <1>1, <1>4
  <1>5. ASSUME NEW c \in Callers,
               \/ Supersede(c) \/ CancelFound(c) \/ Start(c) \/ Authorize(c) \/ Ask(c)
               \/ \E outcome \in Finished : Refuse(c, outcome) \/ Run(c, outcome)
        PROVE  task' \in [Callers -> Tasks]
    <2>1. call[c].approval \in 0..MaxApprovals /\ task[c] \in Tasks
      BY <1>1 DEF GateTypeOK, Calls
    <2>2. CASE Supersede(c) \/ CancelFound(c)
      BY <2>2, TaskCancels
    <2>3. CASE Start(c)
      BY <1>1, <2>1, <2>3 DEF Start, Tasks, TaskSteps
    <2>4. CASE Authorize(c)
      BY <1>1, <2>1, <2>4 DEF Authorize, Tasks, TaskSteps
    <2>5. CASE Ask(c)
      BY <1>1, <2>1, <2>5 DEF Ask, Tasks, TaskSteps, OpStatuses, Active
    <2>6. ASSUME NEW outcome \in Finished, Refuse(c, outcome) \/ Run(c, outcome)
          PROVE  task' \in [Callers -> Tasks]
      <3>1. [task[c] EXCEPT !.step = "settle", !.outcome = outcome] \in Tasks
        BY <2>1 DEF Tasks, TaskSteps, OpStatuses
      <3>2. task' = [task EXCEPT ![c] = [task[c] EXCEPT !.step = "settle", !.outcome = outcome]]
        BY <1>1, <2>6 DEF Refuse, Run
      <3> QED BY <1>4, <3>1, <3>2
    <2> QED
      BY <1>5, <2>2, <2>3, <2>4, <2>5, <2>6
  <1>6. ASSUME NEW c \in Callers, Settle(c) \/ Link(c)
        PROVE  task' \in [Callers -> Tasks]
    <2>1. [task[c] EXCEPT !.step = "link"] \in Tasks
      BY <1>1 DEF Tasks, TaskSteps
    <2> QED BY <1>2, <1>4, <1>6, <2>1 DEF Settle, Link
  <1>7. ASSUME NEW c \in Callers, NEW p \in Payloads, Perform(c, p)
        PROVE  task' \in [Callers -> Tasks]
    <2> DEFINE t == [IdleTask EXCEPT !.step = "supersede", !.op = Len(ops) + 1]
    <2>1. Len(ops) + 1 \in 0..MaxOperations
      BY <1>1, <1>7 DEF Perform
    <2>2. t \in Tasks
      BY <1>2, <2>1 DEF Tasks, TaskSteps
    <2> QED BY <1>4, <1>7, <2>2 DEF Perform
  <1>8. ASSUME NEW c \in Callers, Resume(c)
        PROVE  task' \in [Callers -> Tasks]
    <2>1. ASSUME NEW o \in DOMAIN ops
          PROVE  [IdleTask EXCEPT !.step = "authorize", !.op = o] \in Tasks
      <3>1. o \in 0..MaxOperations
        BY <1>1
      <3> QED BY <1>2, <3>1 DEF Tasks, TaskSteps
    <2> QED BY <1>2, <1>4, <1>8, <2>1 DEF Resume, Linked
  <1>9. ASSUME NEW v \in Admins, NEW c \in Callers, SpawnResume(v, c)
        PROVE  task' \in [Callers -> Tasks]
    <2>1. admin[v].id \in 0..MaxApprovals
      <3>1. admin[v].id \in DOMAIN approvals
        BY <1>9 DEF SpawnResume, OperationsInv, AnsweredRefs
      <3> QED BY <1>1, <3>1, RowsOfTheTables DEF GateTypeOK
    <2>2. [IdleTask EXCEPT !.step = "resume", !.approval = admin[v].id] \in Tasks
      BY <1>2, <2>1 DEF Tasks, TaskSteps
    <2> QED BY <1>4, <1>9, <2>2 DEF SpawnResume
  <1>10. CASE Restart
    BY <1>2, <1>10 DEF Restart
  <1> QED
    BY <1>3, <1>5, <1>6, <1>7, <1>8, <1>9, <1>10
    DEF Next, vars, TaskStep, AdminStep, ConsumeGrant, Manage, CancelBlocked, StartManaging, Browse,
        OtherBootstraps, OtherCancels

LEMMA TaskRefsKept ==
    ASSUME OperationsInv, [Next]_vars, NEW c \in Callers
    PROVE  TaskRefs!(c)'
  <1>1. /\ task \in [Callers -> Tasks] /\ ops \in Seq(OperationRows)
        /\ Len(ops) \in Nat /\ DOMAIN ops = 1..Len(ops)
    BY OperationRowsAre DEF OperationsInv, OperationsTypeOK, OperationRows
  <1>2. TaskRefs!(c) /\ \A o \in DOMAIN ops : o \in DOMAIN ops'
    BY OperationsWritten DEF OperationsInv, TaskRefs, OperationsKept
  <1>3. CASE task'[c] = task[c]
    BY <1>2, <1>3
  <1>4. CASE \E p \in Payloads : Perform(c, p)
    <2>1. PICK p \in Payloads : Perform(c, p)
      BY <1>4
    <2> DEFINE row == [payload |-> p, status |-> "queued"]
    <2>3. row \in OperationRows
      BY DEF OperationRows, OpStatuses, Active
    <2>4. ops' = Append(ops, row)
      BY <2>1 DEF Perform
    <2> HIDE DEF row
    <2>2. Len(ops) + 1 \in DOMAIN ops'
      BY <1>1, <2>3, <2>4, TableInsert
    <2> QED BY <1>1, <2>1, <2>2 DEF Perform, IdleTask
  <1>5. CASE task'[c] = IdleTask
    BY <1>5 DEF IdleTask
  <1>6. ASSUME NEW v \in Admins, SpawnResume(v, c)
        PROVE  TaskRefs!(c)'
    BY <1>1, <1>6 DEF SpawnResume, IdleTask
  <1>7. CASE Resume(c)
    <2>1. ASSUME NEW o \in DOMAIN ops,
                 task' = [task EXCEPT ![c] = [IdleTask EXCEPT !.step = "authorize", !.op = o]]
          PROVE  TaskRefs!(c)'
      <3>1. task'[c].op = o /\ task'[c].step = "authorize"
        BY <1>1, <2>1 DEF IdleTask
      <3> QED BY <1>2, <3>1
    <2>2. CASE task' = [task EXCEPT ![c] = IdleTask]
      BY <1>1, <1>5, <2>2
    <2> QED BY <1>7, <2>1, <2>2 DEF Resume, Linked
  <1>8. ASSUME task[c].step \notin {"idle", "resume"}, task'[c].op = task[c].op,
               task'[c].step \notin {"idle", "resume"}
        PROVE  TaskRefs!(c)'
    BY <1>2, <1>8
  <1>9. CASE Supersede(c) \/ CancelFound(c) \/ Start(c) \/ Authorize(c)
    BY <1>1, <1>8, <1>9, TaskCancels DEF Start, Authorize, Tasks
  <1>10. ASSUME \/ Ask(c)
                \/ \E outcome \in Finished : Refuse(c, outcome) \/ Run(c, outcome)
         PROVE  TaskRefs!(c)'
    <2>1. task[c].step \notin {"idle", "resume"}
      BY <1>10 DEF Ask, Refuse, Run, Execute, Report, OperationsInv, CallsBelong
    <2>2. task'[c].op = task[c].op /\ task'[c].step = "settle"
      BY <1>1, <1>10 DEF Ask, Refuse, Run, Tasks
    <2> QED BY <1>8, <2>1, <2>2
  <1>11. CASE Settle(c)
    BY <1>1, <1>5, <1>8, <1>11 DEF Settle, Tasks
  <1>12. CASE Link(c) \/ Restart
    BY <1>1, <1>5, <1>12 DEF Link, Restart
  <1> QED
    BY <1>3, <1>4, <1>6, <1>7, <1>9, <1>10, <1>11, <1>12, TaskChanges

(* What a resumption does next. *)
LEMMA ResumedTask ==
    ASSUME OperationsInv, NEW c \in Callers, Resume(c)
    PROVE  \/ task'[c] = IdleTask /\ ops' = ops
           \/ /\ task'[c].step = "authorize"
              /\ task'[c].op \in DOMAIN ops /\ <<task'[c].op, task[c].approval>> \in links
              /\ ops'[task'[c].op].status = "running"
              /\ DOMAIN ops' = DOMAIN ops
              /\ \A x \in DOMAIN ops : x # task'[c].op => ops'[x] = ops[x]
  <1>1. /\ task \in [Callers -> Tasks]
        /\ \A o \in DOMAIN ops : ops[o] \in OperationRows
        /\ DOMAIN ops = 1..Len(ops)
    BY OperationRowsAre DEF OperationsInv
  <1>2. CASE task' = [task EXCEPT ![c] = IdleTask] /\ UNCHANGED ops
    BY <1>1, <1>2
  <1>3. ASSUME NEW o \in DOMAIN ops, <<o, task[c].approval>> \in links,
               ops' = [ops EXCEPT ![o].status = "running"],
               task' = [task EXCEPT ![c] = [IdleTask EXCEPT !.step = "authorize", !.op = o]]
        PROVE  /\ task'[c].step = "authorize"
               /\ task'[c].op \in DOMAIN ops /\ <<task'[c].op, task[c].approval>> \in links
               /\ ops'[task'[c].op].status = "running"
               /\ DOMAIN ops' = DOMAIN ops
               /\ \A x \in DOMAIN ops : x # task'[c].op => ops'[x] = ops[x]
    <2>1. task'[c].op = o /\ task'[c].step = "authorize"
      BY <1>1, <1>3 DEF IdleTask
    <2>2. ops'[o].status = "running"
      BY <1>1, <1>3 DEF OperationRows
    <2> QED BY <1>3, <2>1, <2>2
  <1>4. \/ task' = [task EXCEPT ![c] = IdleTask] /\ UNCHANGED ops
        \/ \E o \in DOMAIN ops :
              /\ <<o, task[c].approval>> \in links
              /\ ops' = [ops EXCEPT ![o].status = "running"]
              /\ task' = [task EXCEPT ![c] = [IdleTask EXCEPT !.step = "authorize", !.op = o]]
    BY DEF Resume, Linked
  <1> QED BY <1>2, <1>3, <1>4

(* The tasks that name an operation are those that did, those that take it   *)
(* up by its link, and the one that performs it.                             *)
LEMMA OpChanges ==
    ASSUME OperationsInv, [Next]_vars, NEW c \in Callers, task'[c].op \notin {0, task[c].op}
    PROVE  \/ Resume(c) /\ <<task'[c].op, task[c].approval>> \in links
                       /\ task'[c].op \in DOMAIN ops
           \/ \E p \in Payloads : Perform(c, p) /\ task'[c].op = Len(ops) + 1
  <1>1. task \in [Callers -> Tasks]
    BY OperationRowsAre DEF OperationsInv
  <1>2. ~Restart
    BY <1>1 DEF Restart, IdleTask
  <1>3. ~(Supersede(c) \/ CancelFound(c) \/ Start(c) \/ Authorize(c) \/ Ask(c))
    BY <1>1, TaskCancels DEF Start, Authorize, Ask, Tasks
  <1>4. ~(\E outcome \in Finished : Refuse(c, outcome) \/ Run(c, outcome))
    BY <1>1 DEF Refuse, Run, Tasks
  <1>5. ~(Settle(c) \/ Link(c))
    BY <1>1 DEF Settle, Link, IdleTask, Tasks
  <1>6. ~(\E v \in Admins : SpawnResume(v, c))
    BY <1>1 DEF SpawnResume, IdleTask
  <1>7. CASE Resume(c)
    BY <1>7, ResumedTask DEF IdleTask
  <1>8. ASSUME NEW p \in Payloads, Perform(c, p)
        PROVE  task'[c].op = Len(ops) + 1
    BY <1>1, <1>8 DEF Perform, IdleTask
  <1> QED
    BY <1>2, <1>3, <1>4, <1>5, <1>6, <1>7, <1>8, TaskChanges

-----------------------------------------------------------------------------
(* Approvals and operations. *)

LEMMA CallsBelongKept ==
    ASSUME OperationsInv, [Next]_vars, NEW c \in Callers
    PROVE  CallsBelong!(c)'
  <1>1. /\ task \in [Callers -> Tasks] /\ call \in [Callers -> Calls]
        /\ GateTypeOK /\ approvals \in Seq(ApprovalRows)
    BY OperationRowsAre DEF OperationsInv, GateTypeOK
  <1>2. CallsBelong!(c) /\ TaskRefs!(c)
    BY DEF OperationsInv, CallsBelong, TaskRefs
  <1>3. CASE call'[c].step = "idle"
    BY <1>3
  <1>4. CASE call'[c] = call[c] /\ task'[c] = task[c]
    <2>1. call[c].step = "asked" => task[c].op \in DOMAIN ops
      BY <1>2
    <2> QED BY <1>2, <1>4, <2>1, AskedKept
  <1>5. CASE call[c].step = "idle" /\ call'[c] = call[c]
    BY <1>3, <1>5
  <1>6. CASE Authorize(c)
    <2> DEFINE r == ops[task[c].op].payload.request
               row == [request |-> r, status |-> "pending", due |-> FALSE]
    <2>1. task'[c].step = "authorized" /\ task'[c].op = task[c].op /\ ops' = ops
      BY <1>1, <1>6 DEF Authorize, Tasks
    <2>2. ASSUME call'[c].step = "asked"
          PROVE  AskedFor(task[c].op, call[c].approval)'
      <3>1. /\ approvals' = Append(approvals, row)
            /\ call'[c].approval = Len(approvals) + 1
        BY <1>1, <1>6, <2>2 DEF Authorize, Evaluate
      <3>2. ops[task[c].op] \in OperationRows
        BY <1>2, <1>6, OperationRowsAre DEF OperationsInv, Authorize
      <3>3. row \in ApprovalRows /\ row.request = r
        BY <3>2, OperationAssumption DEF OperationRows, ApprovalRows, Statuses
      <3> HIDE DEF row
      <3>4. Len(approvals) + 1 \in DOMAIN approvals' /\ approvals'[Len(approvals) + 1] = row
        BY <1>1, <3>1, <3>3, TableInsert, RowsOfTheTables
      <3> QED BY <2>1, <3>1, <3>3, <3>4 DEF AskedFor
    <2> QED BY <2>1, <2>2
  <1>7. CASE ConsumeGrant(c)
    <2>1. call'[c].step = "execute" /\ task' = task /\ call[c].step # "idle"
      BY <1>1, <1>7 DEF ConsumeGrant, Consume, Calls
    <2> QED BY <1>2, <2>1
  <1>8. CASE Ask(c) \/ Restart \/ \E outcome \in Finished : Run(c, outcome)
    BY <1>1, <1>3, <1>8 DEF Ask, Run, Execute, Report, Restart, IdleCall
  <1>9. CASE \/ Supersede(c) \/ CancelFound(c) \/ Start(c) \/ Settle(c) \/ Link(c) \/ Resume(c)
             \/ \E outcome \in Finished : Refuse(c, outcome)
             \/ \E p \in Payloads : Perform(c, p)
             \/ \E v \in Admins : SpawnResume(v, c)
    <2>1. call' = call /\ task[c].step # "authorized"
      BY <1>9 DEF Supersede, CancelFound, Start, Settle, Link, Resume, Refuse, Perform, SpawnResume,
         Answer, gateVars
    <2> QED BY <1>2, <1>5, <2>1
  <1>10. CASE task'[c] = task[c]
    <2>1. CASE call'[c] = call[c]
      BY <1>4, <1>10, <2>1
    <2>2. CASE Restart
      BY <1>8, <2>2
    <2>3. CASE call'[c] # call[c] /\ [GateNext]_gateVars
      <3>1. \/ \E r \in Requests : Evaluate(c, r)
            \/ Consume(c) \/ Execute(c) \/ Report(c)
        BY <1>1, <2>3, CallChanges
      <3>2. CASE Consume(c)
        BY <1>1, <1>2, <1>10, <3>2 DEF Consume, Calls
      <3>3. CASE Execute(c) \/ Report(c)
        BY <1>1, <1>3, <3>3 DEF Execute, Report, IdleCall
      <3>4. ASSUME NEW r \in Requests, Evaluate(c, r), ~Authorize(c)
            PROVE  FALSE
        <4>1. call[c].step = "idle" /\ call'[c].step # "idle"
          BY <1>1, <3>4 DEF Evaluate
        <4>2. ASSUME NEW d \in Callers, TaskStep(d) PROVE FALSE
          BY <1>1, <2>3, <3>4, <4>1, <4>2 DEF TaskStep, Supersede, CancelFound, Start, Refuse,
             Authorize, Run, ConsumeGrant, Ask, Settle, Link, Resume, Evaluate, Consume, Execute, Report, gateVars
        <4>3. ~(\E d \in Callers, p \in Payloads : Perform(d, p))
          BY <2>3 DEF Perform, gateVars
        <4>4. ~(\E v \in Admins : AdminStep(v) \/ StartManaging(v))
          BY <2>3 DEF AdminStep, StartManaging, Manage, CancelBlocked, SpawnResume, StartResolve,
             StartRevoke, UpdateApproval, InsertGrant, UpdateRevoked, Answer
        <4>5. ~Browse /\ ~OtherBootstraps /\ ~OtherCancels /\ ~(UNCHANGED vars)
          BY <2>3 DEF Browse, OtherBootstraps, OtherCancels, ListApprovals, FallDue, gateVars, vars
        <4>6. ~Restart
          BY <1>1, <4>1 DEF Restart, IdleCall
        <4> QED BY <4>2, <4>3, <4>4, <4>5, <4>6 DEF Next
      <3> QED BY <1>6, <3>1, <3>2, <3>3, <3>4
    <2> QED BY <2>1, <2>2, <2>3, GateMoves DEF vars
  <1> QED
    BY <1>6, <1>8, <1>9, <1>10, TaskChanges

LEMMA OutcomeRefsKept ==
    ASSUME OperationsInv, [Next]_vars, NEW c \in Callers
    PROVE  OutcomeRefs!(c)'
  <1>1. task \in [Callers -> Tasks]
    BY OperationRowsAre DEF OperationsInv
  <1>2. OutcomeRefs!(c) /\ TaskRefs!(c) /\ CallsBelong!(c)
    BY DEF OperationsInv, OutcomeRefs, TaskRefs, CallsBelong
  <1>3. CASE task'[c] = task[c]
    <2>1. task[c].step \in {"settle", "link"} => task[c].op \in DOMAIN ops
      BY <1>2
    <2> QED BY <1>2, <1>3, <2>1, AskedKept
  <1>4. CASE task'[c].step \notin {"settle", "link"}
    BY <1>4
  <1>5. CASE Supersede(c) \/ CancelFound(c) \/ Start(c) \/ Authorize(c) \/ Link(c) \/ Restart
    BY <1>1, <1>4, <1>5, TaskCancels DEF Start, Authorize, Link, Restart, IdleTask, Tasks
  <1>6. CASE Resume(c)
    <2>1. task'[c].step \in {"idle", "authorize"}
      <3>1. task'[c] = IdleTask \/ task'[c].step = "authorize"
        BY <1>6, ResumedTask
      <3> QED BY <3>1 DEF IdleTask
    <2> QED BY <1>4, <2>1
  <1>7. CASE \/ \E p \in Payloads : Perform(c, p)
             \/ \E v \in Admins : SpawnResume(v, c)
    BY <1>1, <1>4, <1>7 DEF Perform, SpawnResume, IdleTask
  <1>8. ASSUME NEW outcome \in Finished, Refuse(c, outcome) \/ Run(c, outcome)
        PROVE  OutcomeRefs!(c)'
    <2>1. task'[c].step = "settle" /\ task'[c].outcome = outcome
      BY <1>1, <1>8 DEF Refuse, Run, Tasks
    <2> QED BY <2>1 DEF Finished
  <1>9. CASE Ask(c)
    <2>1. /\ task'[c].step = "settle" /\ task'[c].outcome = "blocked"
          /\ task'[c].op = task[c].op /\ task'[c].approval = call[c].approval
      BY <1>1, <1>9 DEF Ask, Tasks
    <2>2. AskedFor(task[c].op, call[c].approval) /\ task[c].op \in DOMAIN ops
      BY <1>2, <1>9 DEF Ask, Report
    <2> QED BY <2>1, <2>2, AskedKept
  <1>10. CASE Settle(c) /\ task[c].outcome = "blocked"
    <2>1. /\ task'[c].step = "link"
          /\ task'[c].op = task[c].op /\ task'[c].approval = task[c].approval
      BY <1>1, <1>10 DEF Settle, Tasks
    <2>2. AskedFor(task[c].op, task[c].approval) /\ task[c].op \in DOMAIN ops
      BY <1>2, <1>10 DEF Settle
    <2> QED BY <2>1, <2>2, AskedKept
  <1>11. CASE Settle(c) /\ task[c].outcome # "blocked"
    BY <1>1, <1>4, <1>11 DEF Settle, IdleTask
  <1> QED
    BY <1>3, <1>5, <1>6, <1>7, <1>8, <1>9, <1>10, <1>11, TaskChanges

(* Links come from link_approval alone. *)
LEMMA LinksAdded ==
    ASSUME [Next]_vars
    PROVE  \/ UNCHANGED links
           \/ \E c \in Callers : Link(c)
  BY DEF Next, vars, TaskStep, AdminStep, Perform, Supersede, CancelFound, Start, Refuse, Authorize,
     ConsumeGrant, Run, Ask, Settle, Resume, Manage, CancelBlocked, SpawnResume, StartManaging, Browse,
     Restart, OtherBootstraps, OtherCancels

LEMMA LinkRefsKept ==
    ASSUME OperationsInv, [Next]_vars
    PROVE  LinkRefs'
  <1>1. \A o \in DOMAIN ops : o \in DOMAIN ops'
    BY OperationsWritten DEF OperationsKept
  <1>2. ASSUME NEW l \in links
        PROVE  (l[1] \in DOMAIN ops /\ AskedFor(l[1], l[2]))'
    BY <1>1, <1>2, AskedKept DEF OperationsInv, LinkRefs
  <1>3. ASSUME NEW c \in Callers, Link(c)
        PROVE  LinkRefs'
    <2>1. AskedFor(task[c].op, task[c].approval) /\ task[c].op \in DOMAIN ops
      BY <1>3 DEF OperationsInv, OutcomeRefs, TaskRefs, Link
    <2>2. links' = links \cup {<<task[c].op, task[c].approval>>}
      BY <1>3 DEF Link
    <2>3. ASSUME NEW l \in links', l \notin links
          PROVE  (l[1] \in DOMAIN ops /\ AskedFor(l[1], l[2]))'
      <3>1. l[1] \in DOMAIN ops /\ AskedFor(l[1], l[2])
        BY <2>1, <2>2, <2>3
      <3> QED BY <1>1, <3>1, AskedKept
    <2> QED BY <1>2, <2>3 DEF LinkRefs
  <1> QED
    BY <1>2, <1>3, LinksAdded DEF LinkRefs

LEMMA AnsweredRefsKept ==
    ASSUME OperationsInv, [Next]_vars
    PROVE  AnsweredRefs'
  <1>1. /\ task \in [Callers -> Tasks] /\ admin \in [Admins -> AdminStates]
        /\ GateTypeOK /\ ApprovalsKept /\ GateTypeOK'
    BY OperationRowsAre, GateKept DEF OperationsInv, GateTypeOK, GateInv
  <1>2. ASSUME NEW v \in Admins
        PROVE  (admin[v].status = "approved" =>
                    admin[v].id \in DOMAIN approvals /\ Decided(admin[v].id))'
    <2> DEFINE Goal == (admin[v].status = "approved" =>
                            admin[v].id \in DOMAIN approvals /\ Decided(admin[v].id))'
    <2>1. CASE admin'[v].status = admin[v].status /\ admin'[v].id = admin[v].id
      BY <1>1, <2>1 DEF OperationsInv, AnsweredRefs, ApprovalsKept, Decided
    <2>2. CASE admin'[v].status # "approved"
      BY <2>2
    <2>3. ASSUME NEW a \in 1..MaxApprovals, NEW resolution \in Resolutions,
                 StartResolve(v, a, resolution)
          PROVE  Goal
      <3>1. /\ a \in DOMAIN approvals /\ approvals' = Expired
            /\ admin'[v].id = a /\ admin'[v].status = Expired[a].status
        BY <1>1, <2>3 DEF StartResolve
      <3>2. a \in DOMAIN approvals'
        BY <1>1, <3>1 DEF ApprovalsKept
      <3> QED BY <3>1, <3>2 DEF Decided
    <2>4. CASE UpdateApproval(v)
      <3> DEFINE id == admin[v].id
                 status == IF admin[v].resolution = "deny" THEN "rejected" ELSE "approved"
      <3>1. id \in DOMAIN approvals
        BY <2>4 DEF OperationsInv, GateInv, AdminRefs, UpdateApproval
      <3>2. admin'[v].id = id /\ approvals'[id].status = status
        BY <1>1, <2>4, <3>1, RowsOfTheTables
           DEF UpdateApproval, AdminStates, ApprovalRows
      <3>3. id \in DOMAIN approvals'
        BY <1>1, <3>1 DEF ApprovalsKept
      <3> QED BY <3>2, <3>3 DEF Decided
    <2>5. CASE \/ InsertGrant(v) \/ Answer(v) \/ UpdateRevoked(v) \/ Restart
               \/ \E g \in 1..MaxGrants : StartRevoke(v, g)
      BY <1>1, <2>1, <2>2, <2>5 DEF InsertGrant, Answer, UpdateRevoked, Restart, StartRevoke,
         Revoking, IdleAdmin, AdminStates
    <2>6. CASE admin'[v] # admin[v] /\ [GateNext]_gateVars
      <3>1. \/ \E a \in 1..MaxApprovals, resolution \in Resolutions :
                 StartResolve(v, a, resolution)
            \/ UpdateApproval(v) \/ InsertGrant(v) \/ Answer(v) \/ UpdateRevoked(v)
            \/ \E g \in 1..MaxGrants : StartRevoke(v, g)
        <4>1. ~CallerNext /\ ~ListApprovals /\ ~(UNCHANGED gateVars)
              /\ ~(\E a \in 1..MaxApprovals : FallDue(a))
          BY <2>6 DEF CallerNext, Evaluate, Consume, Execute, Report, ListApprovals, FallDue,
             gateVars
        <4>2. PICK w \in Admins :
                \/ \E a \in 1..MaxApprovals, resolution \in Resolutions :
                      StartResolve(w, a, resolution)
                \/ UpdateApproval(w) \/ InsertGrant(w) \/ Answer(w) \/ UpdateRevoked(w)
                \/ \E g \in 1..MaxGrants : StartRevoke(w, g)
          BY <2>6, <4>1 DEF GateNext, AdminNext
        <4>3. w # v => admin'[v] = admin[v]
          <5>1. w # v /\ (UpdateApproval(w) \/ InsertGrant(w)) => admin'[v] = admin[v]
            BY <1>1 DEF UpdateApproval, InsertGrant
          <5>2. w # v /\ (Answer(w) \/ UpdateRevoked(w)) => admin'[v] = admin[v]
            BY <1>1 DEF Answer, UpdateRevoked
          <5>3. ASSUME w # v, NEW a, NEW resolution, StartResolve(w, a, resolution)
                PROVE  admin'[v] = admin[v]
            BY <1>1, <5>3 DEF StartResolve
          <5>4. ASSUME w # v, NEW g, StartRevoke(w, g)
                PROVE  admin'[v] = admin[v]
            BY <1>1, <5>4 DEF StartRevoke
          <5> QED BY <4>2, <5>1, <5>2, <5>3, <5>4
        <4> QED BY <2>6, <4>2, <4>3
      <3> QED BY <2>3, <2>4, <2>5, <3>1
    <2> QED BY <2>1, <2>5, <2>6, GateMoves DEF vars, gateVars
  <1>3. ASSUME NEW c \in Callers
        PROVE  (task[c].step = "resume" =>
                    task[c].approval \in DOMAIN approvals /\ Decided(task[c].approval))'
    <2>1. CASE task'[c] = task[c]
      BY <1>1, <2>1 DEF OperationsInv, AnsweredRefs, ApprovalsKept
    <2>2. CASE task'[c].step # "resume"
      BY <2>2
    <2>3. ASSUME NEW v \in Admins, SpawnResume(v, c)
          PROVE  (task[c].step = "resume" =>
                      task[c].approval \in DOMAIN approvals /\ Decided(task[c].approval))'
      <3>1. task'[c].approval = admin[v].id /\ admin[v].status = "approved"
        BY <1>1, <2>3 DEF SpawnResume, IdleTask
      <3>2. admin[v].id \in DOMAIN approvals /\ Decided(admin[v].id)
        BY <3>1 DEF OperationsInv, AnsweredRefs
      <3> QED BY <1>1, <3>1, <3>2 DEF ApprovalsKept
    <2>4. CASE \/ Supersede(c) \/ CancelFound(c) \/ Start(c) \/ Authorize(c) \/ Ask(c)
               \/ \E outcome \in Finished : Refuse(c, outcome) \/ Run(c, outcome)
      BY <1>1, <2>2, <2>4, TaskCancels DEF Start, Authorize, Ask, Refuse, Run, Tasks
    <2>5. CASE Settle(c) \/ Link(c) \/ Restart
      BY <1>1, <2>2, <2>5 DEF Settle, Link, Restart, IdleTask, Tasks
    <2>6. CASE \E p \in Payloads : Perform(c, p)
      BY <1>1, <2>2, <2>6 DEF Perform, IdleTask
    <2>7. CASE Resume(c)
      <3>1. task'[c].step \in {"idle", "authorize"}
        <4>1. task'[c] = IdleTask \/ task'[c].step = "authorize"
          BY <2>7, ResumedTask
        <4> QED BY <4>1 DEF IdleTask
      <3> QED BY <2>2, <3>1
    <2> QED
      BY <2>1, <2>3, <2>4, <2>5, <2>6, <2>7, TaskChanges
  <1> QED
    BY <1>2, <1>3 DEF AnsweredRefs

-----------------------------------------------------------------------------
(* Statuses. *)

(* The operations whose status a step may change, and to what: a performer   *)
(* starts its own, a task settles its own, a resumption takes up what is     *)
(* linked, and everything else cancels.                                      *)
Starts(c, o) ==
    /\ task[c].step = "start" /\ task[c].op = o
    /\ ops'[o].status = "running"
    /\ task'[c].op = o /\ task'[c].step = "authorize"

Settles(c, o) ==
    /\ task[c].step = "settle" /\ task[c].op = o
    /\ ops'[o].status = task[c].outcome
    /\ task[c].outcome = "blocked" => task'[c].step = "link" /\ task'[c].op = o

TakesUp(c, o) ==
    /\ task[c].step = "resume" /\ <<o, task[c].approval>> \in links
    /\ ops'[o].status = "running"
    /\ task'[c].op = o /\ task'[c].step = "authorize"

LEMMA StatusChanges ==
    ASSUME OperationsInv, [Next]_vars, NEW o \in DOMAIN ops, ops'[o].status # ops[o].status
    PROVE  \/ ops'[o].status = "cancelled"
           \/ \E c \in Callers : Starts(c, o) \/ Settles(c, o) \/ TakesUp(c, o)
  <1>1. /\ task \in [Callers -> Tasks] /\ ops \in Seq(OperationRows)
        /\ \A x \in DOMAIN ops : ops[x] \in OperationRows
        /\ Len(ops) \in Nat /\ DOMAIN ops = 1..Len(ops)
    BY OperationRowsAre DEF OperationsInv, OperationsTypeOK, OperationRows
  <1>2. ASSUME NEW c \in Callers, NEW p \in Payloads, Perform(c, p)
        PROVE  FALSE
    <2> DEFINE row == [payload |-> p, status |-> "queued"]
    <2>1. row \in OperationRows
      BY DEF OperationRows, OpStatuses, Active
    <2>2. ops' = Append(ops, row)
      BY <1>2 DEF Perform
    <2> HIDE DEF row
    <2> QED BY <1>1, <2>1, <2>2, TableInsert
  <1>3. ASSUME NEW S \in SUBSET (DOMAIN ops),
               ops' = [x \in DOMAIN ops |->
                         IF x \in S THEN [ops[x] EXCEPT !.status = "cancelled"] ELSE ops[x]]
        PROVE  ops'[o].status = "cancelled"
    BY <1>1, <1>3 DEF OperationRows
  <1>4. CASE OtherCancels \/ \E c \in Callers : CancelFound(c)
    <2>1. PICK y : ops' = [ops EXCEPT ![y].status = "cancelled"]
      BY <1>4 DEF OtherCancels, CancelFound
    <2> QED BY <1>1, <2>1 DEF OperationRows
  <1>5. ASSUME NEW c \in Callers, Start(c)
        PROVE  Starts(c, o)
    <2>1. ops' = [ops EXCEPT ![task[c].op].status = "running"] /\ task[c].step = "start"
      BY <1>5 DEF Start
    <2>2. o = task[c].op /\ ops'[o].status = "running"
      BY <1>1, <2>1 DEF OperationRows
    <2>3. task'[c].op = task[c].op /\ task'[c].step = "authorize"
      BY <1>1, <1>5 DEF Start, Tasks
    <2> QED BY <2>1, <2>2, <2>3 DEF Starts
  <1>6. ASSUME NEW c \in Callers, Settle(c)
        PROVE  Settles(c, o)
    <2>1. ops' = [ops EXCEPT ![task[c].op].status = task[c].outcome] /\ task[c].step = "settle"
      BY <1>6 DEF Settle
    <2>2. o = task[c].op /\ ops'[o].status = task[c].outcome
      BY <1>1, <2>1 DEF OperationRows
    <2>3. task[c].outcome = "blocked" => task'[c].op = task[c].op /\ task'[c].step = "link"
      BY <1>1, <1>6 DEF Settle, Tasks
    <2> QED BY <2>1, <2>2, <2>3 DEF Settles
  <1>7. ASSUME NEW c \in Callers, Resume(c)
        PROVE  TakesUp(c, o)
    <2>1. task[c].step = "resume"
      BY <1>7 DEF Resume
    <2>2. /\ o = task'[c].op /\ ops'[o].status = "running" /\ task'[c].step = "authorize"
          /\ <<o, task[c].approval>> \in links
      BY <1>7, ResumedTask
    <2> QED BY <2>1, <2>2 DEF TakesUp
  <1>8. ASSUME NEW v \in Admins, CancelBlocked(v)
        PROVE  ops'[o].status = "cancelled"
    <2>1. Linked(admin[v].id) \in SUBSET (DOMAIN ops)
      BY DEF Linked
    <2> QED BY <1>3, <1>8, <2>1 DEF CancelBlocked
  <1>9. CASE Restart
    <2> DEFINE S == {x \in DOMAIN ops : ops[x].status \in {"queued", "running"}}
    <2>1. ops' = [x \in DOMAIN ops |->
                    IF x \in S THEN [ops[x] EXCEPT !.status = "cancelled"] ELSE ops[x]]
      BY <1>9 DEF Restart
    <2> QED BY <1>3, <2>1
  <1>10. ~(UNCHANGED ops) /\ ~OtherBootstraps /\ ~(\E c \in Callers : Supersede(c))
    BY DEF OtherBootstraps, Supersede
  <1> QED
    BY <1>2, <1>4, <1>5, <1>6, <1>7, <1>8, <1>9, <1>10
    DEF Next, vars, TaskStep, AdminStep, Refuse, Authorize, ConsumeGrant, Run, Ask, Link, Manage,
        SpawnResume, StartManaging, Browse

(* A new row is queued and has its performer. *)
LEMMA OperationAdded ==
    ASSUME OperationsInv, NEW c \in Callers, NEW p \in Payloads, Perform(c, p)
    PROVE  /\ DOMAIN ops' = 1..(Len(ops) + 1) /\ ops'[Len(ops) + 1].status = "queued"
           /\ task'[c].op = Len(ops) + 1 /\ task'[c].step = "supersede"
           /\ \A d \in Callers \ {c} : task'[d] = task[d]
           /\ UNCHANGED links
  <1> DEFINE row == [payload |-> p, status |-> "queued"]
  <1>1. task \in [Callers -> Tasks] /\ ops \in Seq(OperationRows)
    BY OperationRowsAre DEF OperationsInv, OperationsTypeOK, OperationRows
  <1>2. row \in OperationRows /\ row.status = "queued"
    BY DEF OperationRows, OpStatuses, Active
  <1>3. ops' = Append(ops, row) /\ UNCHANGED links
    BY DEF Perform
  <1> HIDE DEF row
  <1>4. DOMAIN ops' = 1..(Len(ops) + 1) /\ ops'[Len(ops) + 1].status = "queued"
    BY <1>1, <1>2, <1>3, TableInsert
  <1>5. /\ task'[c].op = Len(ops) + 1 /\ task'[c].step = "supersede"
        /\ \A d \in Callers \ {c} : task'[d] = task[d]
    BY <1>1 DEF Perform, IdleTask
  <1> QED BY <1>3, <1>4, <1>5

(* Every other row was there before. *)
LEMMA OperationsFound ==
    ASSUME OperationsInv, [Next]_vars, ~(\E c \in Callers, p \in Payloads : Perform(c, p))
    PROVE  DOMAIN ops' = DOMAIN ops
  <1>1. ASSUME NEW c \in Callers, Resume(c)
        PROVE  DOMAIN ops' = DOMAIN ops
    BY <1>1 DEF Resume
  <1>2. ASSUME NEW c \in Callers, Supersede(c) \/ CancelFound(c) \/ Start(c) \/ Settle(c)
        PROVE  DOMAIN ops' = DOMAIN ops
    BY <1>2 DEF Supersede, CancelFound, Start, Settle
  <1>3. ASSUME NEW v \in Admins, CancelBlocked(v)
        PROVE  DOMAIN ops' = DOMAIN ops
    BY <1>3 DEF CancelBlocked
  <1>4. CASE Restart \/ OtherBootstraps \/ OtherCancels
    BY <1>4 DEF Restart, OtherBootstraps, OtherCancels
  <1> QED
    BY <1>1, <1>2, <1>3, <1>4
    DEF Next, vars, TaskStep, AdminStep, Refuse, Authorize, ConsumeGrant, Run, Ask, Link,
        Manage, SpawnResume, StartManaging, Browse

LEMMA FreshOpsKept ==
    ASSUME OperationsInv, [Next]_vars, NEW c \in Callers,
           task'[c].step \in {"supersede", "cancel", "start"}
    PROVE  /\ ops'[task'[c].op].status \in {"queued", "cancelled"}
           /\ \A l \in links' : l[1] # task'[c].op
           /\ \A d \in Callers \ {c} : task'[d].op # task'[c].op
  <1> DEFINE o == task'[c].op
  <1>1. /\ task \in [Callers -> Tasks] /\ Len(ops) \in Nat /\ DOMAIN ops = 1..Len(ops)
        /\ TaskRefs /\ LinkRefs
    BY OperationRowsAre DEF OperationsInv
  <1>2. ASSUME NEW p \in Payloads, Perform(c, p)
        PROVE  /\ ops'[o].status \in {"queued", "cancelled"}
               /\ \A l \in links' : l[1] # o
               /\ \A d \in Callers \ {c} : task'[d].op # o
    <2>1. /\ o = Len(ops) + 1 /\ ops'[o].status = "queued" /\ UNCHANGED links
          /\ \A d \in Callers \ {c} : task'[d] = task[d]
      BY <1>2, OperationAdded
    <2>2. o \notin DOMAIN ops /\ o # 0
      BY <1>1, <2>1
    <2>3. \A d \in Callers : task[d].op # o
      BY <1>1, <2>2 DEF TaskRefs
    <2> QED BY <1>1, <2>1, <2>2, <2>3 DEF LinkRefs
  <1>3. ASSUME o = task[c].op, task[c].step \in {"supersede", "cancel", "start"}
        PROVE  /\ ops'[o].status \in {"queued", "cancelled"}
               /\ \A l \in links' : l[1] # o
               /\ \A d \in Callers \ {c} : task'[d].op # o
    <2>1. /\ o \in DOMAIN ops /\ ops[o].status \in {"queued", "cancelled"}
          /\ \A l \in links : l[1] # o
          /\ \A d \in Callers \ {c} : task[d].op # o
      BY <1>1, <1>3 DEF OperationsInv, TaskRefs, FreshOps
    <2>2. ops'[o].status \in {"queued", "cancelled"}
      <3>1. CASE ops'[o].status = ops[o].status
        BY <2>1, <3>1
      <3>2. ASSUME NEW d \in Callers, Starts(d, o) \/ Settles(d, o)
            PROVE  FALSE
        <4>1. d = c
          BY <2>1, <3>2 DEF Starts, Settles
        <4> QED BY <1>3, <3>2, <4>1 DEF Starts, Settles
      <3>3. ASSUME NEW d \in Callers, TakesUp(d, o)
            PROVE  FALSE
        BY <2>1, <3>3 DEF TakesUp
      <3> HIDE DEF o
      <3> QED BY <2>1, <3>1, <3>2, <3>3, StatusChanges
    <2>3. ASSUME NEW d \in Callers, Link(d)
          PROVE  \A l \in links' : l[1] # o
      <3>1. task[d].op # o
        BY <1>3, <2>1, <2>3 DEF Link
      <3> QED BY <2>1, <2>3, <3>1 DEF Link
    <2>4. ASSUME NEW d \in Callers \ {c}, task'[d].op = o
          PROVE  FALSE
      <3>1. task'[d].op \notin {0, task[d].op}
        BY <1>1, <2>1, <2>4
      <3>2. CASE <<task'[d].op, task[d].approval>> \in links
        BY <2>1, <2>4, <3>2
      <3>3. CASE task'[d].op = Len(ops) + 1
        BY <1>1, <2>1, <2>4, <3>3
      <3> QED BY <3>1, <3>2, <3>3, OpChanges
    <2> QED BY <2>1, <2>2, <2>3, <2>4, LinksAdded
  <1>4. CASE task'[c] = task[c]
    BY <1>3, <1>4
  <1>5. CASE Supersede(c) \/ CancelFound(c)
    <2>1. task'[c].op = task[c].op /\ task[c].step \in {"supersede", "cancel"}
      BY <1>5, TaskCancels
    <2> QED BY <1>3, <2>1
  <1>6. ~(Start(c) \/ Authorize(c) \/ Ask(c))
    BY <1>1 DEF Start, Authorize, Ask, Tasks
  <1>7. ~(\E outcome \in Finished : Refuse(c, outcome) \/ Run(c, outcome))
    BY <1>1 DEF Refuse, Run, Tasks
  <1>8. ~(Settle(c) \/ Link(c) \/ Restart)
    BY <1>1 DEF Settle, Link, Restart, IdleTask, Tasks
  <1>9. ~(\E v \in Admins : SpawnResume(v, c))
    BY <1>1 DEF SpawnResume, IdleTask
  <1>10. ~Resume(c)
    <2>1. ASSUME Resume(c) PROVE task'[c] = IdleTask \/ task'[c].step = "authorize"
      BY <2>1, ResumedTask
    <2> QED BY <2>1 DEF IdleTask
  <1> QED
    BY <1>2, <1>4, <1>5, <1>6, <1>7, <1>8, <1>9, <1>10, TaskChanges

LEMMA ActiveKept ==
    ASSUME OperationsInv, [Next]_vars, NEW o \in DOMAIN ops',
           ops'[o].status \in {"queued", "running"}
    PROVE  \E c \in Callers : task'[c].op = o /\ task'[c].step # "link"
  <1>1. /\ task \in [Callers -> Tasks] /\ Len(ops) \in Nat /\ DOMAIN ops = 1..Len(ops)
        /\ TaskRefs /\ OutcomeRefs /\ \A x \in DOMAIN ops : ops[x] \in OperationRows
    BY OperationRowsAre DEF OperationsInv
  <1>2. CASE o \notin DOMAIN ops
    <2>1. PICK c \in Callers, p \in Payloads : Perform(c, p)
      BY <1>2, OperationsFound
    <2>2. DOMAIN ops' = 1..(Len(ops) + 1) /\ task'[c].op = Len(ops) + 1
          /\ task'[c].step = "supersede"
      BY <2>1, OperationAdded
    <2>3. o = Len(ops) + 1
      BY <1>1, <1>2, <2>2
    <2> QED BY <2>2, <2>3
  <1>3. CASE o \in DOMAIN ops /\ ops'[o].status # ops[o].status
    <2>1. PICK c \in Callers : Starts(c, o) \/ Settles(c, o) \/ TakesUp(c, o)
      BY <1>3, StatusChanges
    <2>2. ~Settles(c, o)
      BY <1>1 DEF Settles, OutcomeRefs
    <2>3. task'[c].op = o /\ task'[c].step = "authorize"
      BY <2>1, <2>2 DEF Starts, TakesUp
    <2> QED BY <2>3
  <1>4. CASE o \in DOMAIN ops /\ ops'[o].status = ops[o].status
    <2>1. PICK c \in Callers : task[c].op = o /\ task[c].step # "link"
      BY <1>4 DEF OperationsInv, ActiveHasATask, Driving
    <2>2. task[c].step \notin {"idle", "resume", "link"}
      BY <1>1, <1>4, <2>1 DEF TaskRefs
    <2>3. CASE task'[c] = task[c]
      BY <2>1, <2>3
    <2>4. CASE Supersede(c) \/ CancelFound(c) \/ Start(c) \/ Authorize(c) \/ Ask(c)
      BY <1>1, <2>1, <2>4, TaskCancels DEF Start, Authorize, Ask, Tasks
    <2>5. CASE \E outcome \in Finished : Refuse(c, outcome) \/ Run(c, outcome)
      BY <1>1, <2>1, <2>5 DEF Refuse, Run, Tasks
    <2>6. ~Settle(c)
      <3>1. Settle(c) => ops'[o].status = task[c].outcome /\ task[c].step = "settle"
        BY <1>1, <1>4, <2>1 DEF Settle, OperationRows
      <3> QED BY <1>1, <3>1 DEF OutcomeRefs
    <2>7. ~(Link(c) \/ Resume(c))
      BY <2>2 DEF Link, Resume
    <2>8. /\ ~(\E v \in Admins : SpawnResume(v, c))
          /\ ~(\E p \in Payloads : Perform(c, p))
      BY <2>2 DEF SpawnResume, Perform
    <2>9. ~Restart
      BY <1>1, <1>4 DEF Restart, OperationRows
    <2> QED
      BY <2>3, <2>4, <2>5, <2>6, <2>7, <2>8, <2>9, TaskChanges
  <1> QED BY <1>2, <1>3, <1>4

LEMMA CrashesCounted ==
    ASSUME OperationsInv, [Next]_vars
    PROVE  /\ crashes' \in 0..MaxCrashes
           /\ crashes' = 0 => crashes = 0 /\ ~Restart
  <1>1. crashes \in 0..MaxCrashes /\ MaxCrashes \in Nat
    BY OperationAssumption DEF OperationsInv, OperationsTypeOK
  <1>2. CASE Restart \/ OtherBootstraps
    BY <1>1, <1>2 DEF Restart, OtherBootstraps
  <1>3. CASE UNCHANGED crashes
    BY <1>1, <1>3 DEF Restart
  <1>4. OtherCancels => UNCHANGED crashes
    BY DEF OtherCancels
  <1> QED
    BY <1>2, <1>3, <1>4
    DEF Next, vars, TaskStep, AdminStep, Perform, Supersede, CancelFound, Start, Refuse, Authorize,
        ConsumeGrant, Run, Ask, Settle, Link, Resume, Manage, CancelBlocked, SpawnResume, StartManaging, Browse

LEMMA ListedAreOperations ==
    ASSUME OperationsInv, [Next]_vars
    PROVE  listed' \subseteq 1..MaxOperations
  <1>1. listed \subseteq 1..MaxOperations /\ DOMAIN ops \subseteq 1..MaxOperations
    <2>1. /\ DOMAIN ops = 1..Len(ops) /\ Len(ops) <= MaxOperations
          /\ Len(ops) \in Nat /\ MaxOperations \in Nat /\ listed \subseteq 1..MaxOperations
      BY OperationRowsAre, OperationAssumption DEF OperationsInv, OperationsTypeOK
    <2> QED BY <2>1
  <1>2. CASE OtherBootstraps \/ OtherCancels
    BY <1>1, <1>2 DEF OtherBootstraps, OtherCancels
  <1>3. CASE UNCHANGED listed
    BY <1>1, <1>3
  <1> QED
    BY <1>2, <1>3
    DEF Next, vars, TaskStep, AdminStep, Perform, Supersede, CancelFound, Start, Refuse, Authorize,
        ConsumeGrant, Run, Ask, Settle, Link, Resume, Manage, CancelBlocked, SpawnResume, StartManaging,
        Browse, Restart

LEMMA BlockedKept ==
    ASSUME OperationsInv, [Next]_vars, crashes' = 0, NEW o \in DOMAIN ops',
           ops'[o].status = "blocked"
    PROVE  \/ \E a \in DOMAIN approvals' : <<o, a>> \in links'
           \/ \E c \in Callers : task'[c].step = "link" /\ task'[c].op = o
  <1>1. /\ task \in [Callers -> Tasks] /\ Len(ops) \in Nat /\ DOMAIN ops = 1..Len(ops)
        /\ OutcomeRefs /\ ApprovalsKept /\ crashes = 0 /\ ~Restart
    BY OperationRowsAre, GateKept, CrashesCounted DEF OperationsInv
  <1>2. o \in DOMAIN ops
    <2>1. ASSUME NEW c \in Callers, NEW p \in Payloads, Perform(c, p)
          PROVE  o \in DOMAIN ops
      <3>1. DOMAIN ops' = 1..(Len(ops) + 1) /\ ops'[Len(ops) + 1].status = "queued"
        BY <2>1, OperationAdded
      <3> QED BY <1>1, <3>1
    <2> QED BY <2>1, OperationsFound
  <1>3. CASE ops'[o].status # ops[o].status
    <2>1. PICK c \in Callers : Starts(c, o) \/ Settles(c, o) \/ TakesUp(c, o)
      BY <1>2, <1>3, StatusChanges
    <2>2. task'[c].step = "link" /\ task'[c].op = o
      BY <2>1 DEF Starts, Settles, TakesUp
    <2> QED BY <2>2
  <1>4. CASE ops[o].status = "blocked"
    <2>1. \/ \E a \in DOMAIN approvals : <<o, a>> \in links
          \/ \E c \in Callers : task[c].step = "link" /\ task[c].op = o
      BY <1>1, <1>2, <1>4 DEF OperationsInv, BlockedHasApproval
    <2>2. ASSUME NEW a \in DOMAIN approvals, <<o, a>> \in links
          PROVE  a \in DOMAIN approvals' /\ <<o, a>> \in links'
      BY <1>1, <2>2, LinksAdded DEF ApprovalsKept, Link
    <2>3. ASSUME NEW c \in Callers, task[c].step = "link", task[c].op = o, ~Link(c)
          PROVE  task'[c] = task[c]
      <3>1. ~(Supersede(c) \/ CancelFound(c) \/ Start(c) \/ Authorize(c) \/ Settle(c) \/ Resume(c))
        BY <2>3 DEF Supersede, CancelFound, Start, Authorize, Settle, Resume
      <3>2. /\ ~(\E outcome \in Finished : Refuse(c, outcome))
            /\ ~(\E v \in Admins : SpawnResume(v, c))
            /\ ~(\E p \in Payloads : Perform(c, p))
        BY <2>3 DEF Refuse, SpawnResume, Perform
      <3>3. ~Ask(c) /\ ~(\E outcome \in Finished : Run(c, outcome))
        BY <2>3 DEF Ask, Run, Execute, Report, OperationsInv, CallsBelong
      <3> QED BY <1>1, <2>3, <3>1, <3>2, <3>3, TaskChanges
    <2>4. ASSUME NEW c \in Callers, task[c].op = o, Link(c)
          PROVE  task[c].approval \in DOMAIN approvals' /\ <<o, task[c].approval>> \in links'
      BY <1>1, <2>4 DEF Link, OutcomeRefs, AskedFor, ApprovalsKept
    <2> QED BY <2>1, <2>2, <2>3, <2>4
  <1> QED BY <1>3, <1>4

-----------------------------------------------------------------------------
LEMMA OperationsInitially == Init => OperationsInv
  <1> SUFFICES ASSUME Init PROVE OperationsInv
    OBVIOUS
  <1> USE GateAssumption, OperationAssumption DEF Init
  <1>1. GateInv
    BY GateInitially
  <1>2. OperationsTypeOK
    BY <1>1 DEF OperationsTypeOK, GateInv, Tasks, TaskSteps, IdleTask, OpStatuses, Finished
  <1>3. TaskRefs /\ CallsBelong /\ OutcomeRefs /\ LinkRefs
    BY DEF TaskRefs, CallsBelong, OutcomeRefs, LinkRefs, IdleTask, GateInit, IdleCall
  <1>4. AnsweredRefs /\ FreshOps
    BY DEF AnsweredRefs, FreshOps, IdleTask, GateInit, IdleAdmin
  <1>5. ActiveHasATask /\ BlockedHasApproval
    BY DEF ActiveHasATask, BlockedHasApproval
  <1> QED
    BY <1>1, <1>2, <1>3, <1>4, <1>5 DEF OperationsInv

LEMMA OperationsStep ==
    ASSUME OperationsInv, [Next]_vars
    PROVE  OperationsInv'
  <1>1. GateInv' /\ GateTypeOK'
    BY GateKept DEF GateInv
  <1>2. LinkRefs' /\ AnsweredRefs'
    BY LinkRefsKept, AnsweredRefsKept
  <1>3. OperationsTypeOK'
    <2>1. ops' \in Seq([payload : Payloads, status : OpStatuses]) /\ Len(ops') <= MaxOperations
      BY OperationsWritten DEF OperationRows
    <2>2. links' \subseteq (1..MaxOperations) \X (1..MaxApprovals)
      <3>1. ASSUME NEW c \in Callers, Link(c)
            PROVE  <<task[c].op, task[c].approval>> \in (1..MaxOperations) \X (1..MaxApprovals)
        <4>1. task[c].op \in DOMAIN ops /\ task[c].approval \in DOMAIN approvals
          BY <3>1 DEF Link, OperationsInv, TaskRefs, OutcomeRefs, AskedFor
        <4>2. /\ DOMAIN ops = 1..Len(ops) /\ Len(ops) <= MaxOperations /\ Len(ops) \in Nat
              /\ DOMAIN approvals = 1..Len(approvals) /\ Len(approvals) <= MaxApprovals
              /\ Len(approvals) \in Nat
          BY OperationRowsAre, RowsOfTheTables DEF OperationsInv, GateTypeOK
        <4> QED BY <4>1, <4>2, GateAssumption, OperationAssumption
      <3> QED BY <3>1, LinksAdded DEF OperationsInv, OperationsTypeOK, Link
    <2>3. listed' \subseteq 1..MaxOperations
      BY ListedAreOperations
    <2> QED
      BY <1>1, <2>1, <2>2, <2>3, TaskTypeKept, CrashesCounted DEF OperationsTypeOK
  <1>4. TaskRefs'
    BY TaskRefsKept DEF TaskRefs
  <1>5. CallsBelong'
    BY CallsBelongKept DEF CallsBelong
  <1>6. OutcomeRefs'
    BY OutcomeRefsKept DEF OutcomeRefs
  <1>7. FreshOps'
    BY FreshOpsKept DEF FreshOps
  <1>8. ActiveHasATask'
    BY ActiveKept DEF ActiveHasATask, Driving
  <1>9. BlockedHasApproval'
    BY BlockedKept DEF BlockedHasApproval
  <1> QED
    BY <1>1, <1>2, <1>3, <1>4, <1>5, <1>6, <1>7, <1>8, <1>9 DEF OperationsInv

-----------------------------------------------------------------------------
THEOREM OperationsInvariant == Spec => []OperationsInv
  BY OperationsInitially, OperationsStep, PTL DEF Spec

(* Every table, task, caller and handler stays well formed, over any number  *)
(* of restarts.                                                              *)
THEOREM OperationsTypeCorrect == Spec => []OperationsTypeOK
  BY OperationsInvariant, PTL DEF OperationsInv

(* update_operation, cancel_abandoned_operations, complete_operation_        *)
(* execution: an operation shown as queued or running has a live task, and   *)
(* a blocked one an approval or a task about to link it.                     *)
THEOREM UnfinishedAreHeld == Spec => []UnfinishedOperationsAreHeld
  BY OperationsInvariant, PTL DEF OperationsInv, UnfinishedOperationsAreHeld

(* permission_approval_resolve: only a decision about what was asked for a   *)
(* blocked operation makes it run again.                                     *)
THEOREM OnlyDecisionsResume == Spec => ResumedByDecision
  <1>1. ASSUME OperationsInv, [Next]_vars
        PROVE  ResumedByDecision!1
    <2> SUFFICES ASSUME NEW o \in DOMAIN ops,
                        ops[o].status = "blocked", ops'[o].status = "running"
                 PROVE  \E a \in DOMAIN approvals :
                           /\ <<o, a>> \in links
                           /\ Decided(a)
                           /\ approvals[a].request = ops[o].payload.request
      OBVIOUS
    <2>1. PICK c \in Callers : Starts(c, o) \/ Settles(c, o) \/ TakesUp(c, o)
      BY <1>1, StatusChanges
    <2>2. ~Starts(c, o)
      BY <1>1 DEF Starts, OperationsInv, FreshOps
    <2>3. ~Settles(c, o)
      BY <1>1 DEF Settles, OperationsInv, OutcomeRefs
    <2>4. <<o, task[c].approval>> \in links /\ task[c].step = "resume"
      BY <2>1, <2>2, <2>3 DEF TakesUp
    <2>5. task[c].approval \in DOMAIN approvals /\ Decided(task[c].approval)
      BY <1>1, <2>4 DEF OperationsInv, AnsweredRefs
    <2>6. AskedFor(o, task[c].approval)
      BY <1>1, <2>4 DEF OperationsInv, LinkRefs
    <2> QED BY <2>4, <2>5, <2>6 DEF AskedFor
  <1> QED
    BY <1>1, OperationsInvariant, PTL DEF Spec, ResumedByDecision

(* The permission store keeps its promises under the tasks and the restarts  *)
(* of the server: no grant without a decision, no run on a "once" grant that *)
(* is not used up.                                                           *)
THEOREM GateHoldsOverRestarts ==
    Spec => [](GrantsComeFromDecisions /\ OnceIsConsumedBeforeTheRun)
  BY OperationsInvariant, PTL DEF OperationsInv, GateInv
=============================================================================
