-------------------------- MODULE ConversationTurns --------------------------
(***************************************************************************)
(* How an operator's message gets its replies.  The server drives the slot *)
(* conversation.response (server/src/pipeline): it calls the two handlers  *)
(* of the workflow extension in order of priority until one claims the     *)
(* message.  A worker process of the extension (workflow-service) takes    *)
(* one invocation at a time; for each agent addressed it claims a receipt, *)
(* runs the agent's reply loop as far as the next operation it has to wait *)
(* for, and parks the loop in a row.  The hook operation.updated brings    *)
(* the loop back, in whichever worker is free.  A worker that has just     *)
(* started first recovers the receipts it finds running.                   *)
(*                                                                         *)
(* A message that confirms a plan starts a workflow run instead, whose loop*)
(* is parked and brought back in the same way; the receipt of the message  *)
(* is then completed as soon as the run is parked.                         *)
(*                                                                         *)
(* An operation asked for with deferred = true is answered while it runs,  *)
(* before any approval is asked for, so the loop's branches for an         *)
(* operation that is over at once or misses an approval are never taken.   *)
(* The operations themselves are AgentOperations, the delivery of hooks    *)
(* EventBus, the workers' pool WorkerPool, and the sessions, drafts and    *)
(* stages of runs WorkflowRuns: here an operation ends once, a hook is     *)
(* delivered until its handler succeeds or the attempts are used up, an    *)
(* idle worker takes any call, and there may be a session or not.          *)
(***************************************************************************)
EXTENDS Integers, Sequences, FiniteSets

CONSTANTS
    Messages,      \* operator messages of one branch, numbered as they are created
    TurnAgents,    \* the agents
    Addressed,     \* whom each message addresses, in order
    TurnWorkers,   \* worker processes of the workflow extension
    MaxCalls,      \* bound on the tool calls of one response
    MaxTurnOps,    \* bound on the operations
    MaxTurnRuns,   \* bound on the runs that one agent makes of one message
    MaxDeliveries, \* attempts of a hook delivery
    MaxDeaths      \* bound on the deaths of workers and of the server

ASSUME TurnAssumption ==
    /\ Messages \subseteq Nat
    /\ Addressed \in [Messages -> Seq(TurnAgents)]
    /\ {MaxCalls, MaxTurnOps, MaxTurnRuns, MaxDeaths} \subseteq Nat
    /\ MaxDeliveries \in Nat \ {0}

Turns   == Messages \X TurnAgents
NoTurn  == <<>>
TurnOps == 1..MaxTurnOps

(* The run_id of a loop: the direct reply of a turn, whose id is made of the *)
(* agent and the message, is numbered 0, and the runs made for the turn      *)
(* follow.                                                                   *)
LoopIds      == Turns \X (0..MaxTurnRuns)
Direct(t)    == <<t, 0>>
IsDirect(k)  == k[2] = 0

VARIABLES
    drives,    \* the handler the server's drive of a message has to call next
    workers,   \* what each worker process does
    booted,    \* workers whose startup recovery is over
    receipts,  \* conversation_message_receipts
    confirming, \* messages that confirm the execution of a plan
    turnRuns,  \* how many runs each turn has made
    rows,      \* direct_reply_states: the parked loop of each run_id
    rowTurn,   \* its message_id: the turn that each row answers
    turnOps,   \* operations asked for by the loops
    hooks,     \* the operation.updated delivery of each operation that is over
    said,      \* turns since whose message the agent has appended a message
    owed,      \* starts of each loop less its final and error replies
    deaths

runTables == <<confirming, turnRuns, rows, rowTurn>>
turnVars  == <<drives, workers, booted, receipts, runTables, turnOps, hooks, said, owed, deaths>>

(* AgentReplyLoopState: the operation it waits for, and the tool calls of    *)
(* the last response that are still to be made.                              *)
Loops  == [op : 0..MaxTurnOps, kind : {"none", "provider", "runtime"}, calls : 0..MaxCalls]
Fresh  == [op |-> 0, kind |-> "none", calls |-> 0]
NoRow  == [op |-> 0, kind |-> "none", calls |-> MaxCalls + 1]

Jobs   == [kind : {"none", "drive", "hook", "other"}, message : Messages \cup {0},
           handler : {"task", "default"}, op : 0..MaxTurnOps]
NoJob  == [kind |-> "none", message |-> 0, handler |-> "task", op |-> 0]

Steps  == {"idle", "recover", "remark", "serve", "claim", "prepare", "confirm", "tell", "ask",
           "tool", "park", "resume", "reply", "sorry", "finish"}
Processes ==
    [step : Steps, job : Jobs, left : UNION {{<<>>}, {Addressed[m] : m \in Messages},
                                             {<<a>> : a \in TurnAgents}},
     turn : Turns \cup {NoTurn}, key : LoopIds \cup {NoTurn}, managed : BOOLEAN, recovering : BOOLEAN,
     backlog : SUBSET Turns, loop : Loops, result : {"completed", "failed"}]
IdleProcess ==
    [step |-> "idle", job |-> NoJob, left |-> <<>>, turn |-> NoTurn, key |-> NoTurn, managed |-> FALSE,
     recovering |-> FALSE, backlog |-> {}, loop |-> Fresh, result |-> "completed"]

(* Type correctness of the tables, the drives and the workers. *)
TurnsTypeOK ==
    /\ drives \in [Messages -> {"unsent", "task", "default", "called", "done"}]
    /\ DOMAIN workers = TurnWorkers
    /\ \A w \in TurnWorkers :
          /\ workers[w].step \in Steps /\ workers[w].job \in Jobs
          /\ workers[w].loop \in Loops /\ workers[w].backlog \subseteq Turns
          /\ workers[w].turn \in Turns \cup {NoTurn}
          /\ workers[w].key \in LoopIds \cup {NoTurn}
    /\ booted \subseteq TurnWorkers
    /\ receipts \in [Turns -> {"none", "running", "completed", "failed"}]
    /\ confirming \subseteq Messages
    /\ turnRuns \in [Turns -> 0..MaxTurnRuns]
    /\ rows \in [LoopIds -> Loops \cup {NoRow}]
    /\ rowTurn \in [LoopIds -> Turns]
    /\ turnOps \in Seq([turn : Turns, key : LoopIds, kind : {"provider", "runtime"},
                        status : {"running", "succeeded", "failed", "abandoned"}])
    /\ hooks \in [TurnOps -> [state : {"none", "due", "taken", "delivered", "dropped"},
                              attempts : 0..MaxDeliveries]]
    /\ said \subseteq Turns
    /\ owed \in [LoopIds -> Int]
    /\ deaths \in 0..MaxDeaths

TurnsInit ==
    /\ drives = [m \in Messages |-> "unsent"]
    /\ workers = [w \in TurnWorkers |-> IdleProcess]
    /\ booted = {}
    /\ receipts = [t \in Turns |-> "none"]
    /\ confirming = {}
    /\ turnRuns = [t \in Turns |-> 0]
    /\ rows = [k \in LoopIds |-> NoRow]
    /\ rowTurn = [k \in LoopIds |-> k[1]]
    /\ turnOps = <<>>
    /\ hooks = [o \in TurnOps |-> [state |-> "none", attempts |-> 0]]
    /\ said = {}
    /\ owed = [k \in LoopIds |-> 0]
    /\ deaths = 0

-----------------------------------------------------------------------------
(* Tables *)

Become(w, p) == workers' = [workers EXCEPT ![w] = p]
Go(w, step)  == Become(w, [workers[w] EXCEPT !.step = step])

(* mark_conversation_message_receipt_status *)
MarkReceipt(t, status) == receipts' = [receipts EXCEPT ![t] = status]
Starts(t) == owed' = [owed EXCEPT ![Direct(t)] = @ + 1]

(* persist_direct_reply_loop_state, an upsert: it keeps nothing of what the  *)
(* row held.                                                                 *)
SaveRow(p, loop) == /\ rows' = [rows EXCEPT ![p.key] = loop]
                    /\ rowTurn' = [rowTurn EXCEPT ![p.key] = p.turn]
DeleteRow(k)     == rows' = [rows EXCEPT ![k] = NoRow] /\ UNCHANGED rowTurn

(* A message of the agent a: newer than every operator message there is. *)
Says(a) == said' = said \cup {<<m, a>> : m \in {n \in Messages : drives[n] # "unsent"}}

(* append_agent_conversation_reply *)
Replies(p) == /\ owed' = [owed EXCEPT ![p.key] = @ - 1]
              /\ Says(p.turn[2])

(* append_agent_process_message: a text that goes with tool calls, unless it  *)
(* is the last one again.  Tool results and reasoning go under other roles.  *)
TellsProgress(a) == Says(a)

-----------------------------------------------------------------------------
(* The drive of a message, in the server *)

(* message.append has stored the message; the drive runs in the background.  *)
(* Its text may confirm the execution of a plan.                             *)
Send(m) ==
    /\ drives[m] = "unsent"
    /\ \A n \in Messages : n < m => drives[n] # "unsent"
    /\ drives' = [drives EXCEPT ![m] = "task"]
    /\ confirming' \in {confirming, confirming \cup {m}}
    /\ UNCHANGED <<workers, booted, receipts, turnRuns, rows, rowTurn, turnOps, hooks, said, owed,
                   deaths>>

(* The next handler is called: workflow.task_response, of priority 100, and  *)
(* then workflow.default_response, of priority 0.                            *)
NextHandler(handler) == IF handler = "task" THEN "default" ELSE "done"

(* handle_invocation: a worker that has not recovered the receipts since it  *)
(* was started does so first, with the list of those it finds running.       *)
Called(w, job) ==
    Become(w, [IdleProcess EXCEPT
                 !.job     = job,
                 !.step    = IF w \in booted THEN "serve" ELSE "recover",
                 !.backlog = IF w \in booted THEN {} ELSE {t \in Turns : receipts[t] = "running"}])

DriveCall(w, m) ==
    /\ workers[w].step = "idle" /\ drives[m] \in {"task", "default"}
    /\ Called(w, [kind |-> "drive", message |-> m, handler |-> drives[m], op |-> 0])
    /\ drives' = [drives EXCEPT ![m] = "called"]
    /\ UNCHANGED <<booted, receipts, runTables, turnOps, hooks, said, owed, deaths>>

(* The outcomes claim and complete end the drive; skip, continue, fail and   *)
(* an error of the call go on to the next handler.                           *)
DriveGoesOn(job, outcome) ==
    drives' = IF job.kind # "drive" THEN drives
              ELSE [drives EXCEPT ![job.message] =
                      IF outcome = "ok" THEN "done" ELSE NextHandler(job.handler)]

-----------------------------------------------------------------------------
(* The hooks *)

HookCall(w, o) ==
    /\ workers[w].step = "idle" /\ hooks[o].state = "due"
    /\ Called(w, [NoJob EXCEPT !.kind = "hook", !.op = o])
    /\ hooks' = [hooks EXCEPT ![o].state = "taken"]
    /\ UNCHANGED <<drives, booted, receipts, runTables, turnOps, said, owed, deaths>>

(* The other hooks of the extension, and its queries. *)
OtherCall(w) ==
    /\ workers[w].step = "idle" /\ w \notin booted
    /\ Called(w, [NoJob EXCEPT !.kind = "other"])
    /\ UNCHANGED <<drives, booted, receipts, runTables, turnOps, hooks, said, owed, deaths>>

(* A failed attempt is made again until there were MaxDeliveries. *)
HookEnds(o, ok) ==
    LET n == hooks[o].attempts + 1 IN
    [hooks EXCEPT ![o] = [state    |-> IF ok THEN "delivered"
                                       ELSE IF n < MaxDeliveries THEN "due" ELSE "dropped",
                          attempts |-> n]]
HookGoesOn(job, outcome) ==
    hooks' = IF job.kind = "hook" THEN HookEnds(job.op, outcome = "ok") ELSE hooks

(* The worker's answer to an invocation. *)
Respond(w, outcome) ==
    /\ Become(w, IdleProcess)
    /\ DriveGoesOn(workers[w].job, outcome)
    /\ HookGoesOn(workers[w].job, outcome)

-----------------------------------------------------------------------------
(* The startup recovery, then the method *)

(* A mutant: a message of the agent before it counts as the reply too. *)
RecoverAnswered(w) ==
    /\ workers[w].step = "recover"
    /\ IF workers[w].backlog = {}
       THEN /\ Go(w, "serve")
            /\ booted' = booted \cup {w}
            /\ UNCHANGED receipts
       ELSE /\ \E t \in workers[w].backlog :
                 LET next == [workers[w] EXCEPT !.backlog = @ \ {t}] IN
                 \/ /\ MarkReceipt(t, "failed")
                    /\ Become(w, next)
                 \/ /\ MarkReceipt(t, "completed")
                    /\ Become(w, next)
                 \/ /\ t \notin said
                    /\ Become(w, [next EXCEPT !.step = "remark", !.turn = t, !.recovering = TRUE])
                    /\ UNCHANGED receipts
            /\ UNCHANGED booted
    /\ UNCHANGED <<drives, runTables, turnOps, hooks, said, owed, deaths>>

(* recover_stale_conversation_receipts takes every receipt that was running  *)
(* for an orphan, whoever works on it.  Any later message of the agent in    *)
(* the branch passes for the reply; a failing message.list, or a message     *)
(* that is gone, fails the receipt.                                          *)
Recover(w) ==
    /\ workers[w].step = "recover"
    /\ IF workers[w].backlog = {}
       THEN /\ Go(w, "serve")
            /\ booted' = booted \cup {w}
            /\ UNCHANGED receipts
       ELSE /\ \E t \in workers[w].backlog :
                 LET next == [workers[w] EXCEPT !.backlog = @ \ {t}] IN
                 \/ /\ MarkReceipt(t, "failed")
                    /\ Become(w, next)
                 \/ /\ t \in said
                    /\ MarkReceipt(t, "completed")
                    /\ Become(w, next)
                 \/ /\ t \notin said
                    /\ Become(w, [next EXCEPT !.step = "remark", !.turn = t, !.recovering = TRUE])
                    /\ UNCHANGED receipts
            /\ UNCHANGED booted
    /\ UNCHANGED <<drives, runTables, turnOps, hooks, said, owed, deaths>>

(* The turn is started again; a discussion becomes a direct reply. *)
Remark(w) ==
    /\ workers[w].step = "remark"
    /\ MarkReceipt(workers[w].turn, "running")
    /\ Starts(workers[w].turn)
    /\ Become(w, [workers[w] EXCEPT !.step = "prepare", !.key = Direct(workers[w].turn)])
    /\ UNCHANGED <<drives, booted, runTables, turnOps, hooks, said, deaths>>

(* workflow.handle_operator_message skips a message of a conversation whose  *)
(* task mode is off; the default handler takes every message.                *)
ServeDrive(w) ==
    LET job == workers[w].job IN
    /\ workers[w].step = "serve" /\ job.kind = "drive"
    /\ \/ /\ job.handler = "task"
          /\ Respond(w, "skip")
       \/ /\ Become(w, [workers[w] EXCEPT !.step = "claim", !.managed = (job.handler = "task"),
                                          !.left = Addressed[job.message]])
          /\ UNCHANGED <<drives, hooks>>
    /\ UNCHANGED <<booted, receipts, runTables, turnOps, said, owed, deaths>>

(* handle_operation_updated: only the operation the parked loop waits for    *)
(* brings it back.  Reading the agents, the models and the messages may fail.*)
ServeHook(w) ==
    LET o == workers[w].job.op
        k == turnOps[o].key
    IN
    /\ workers[w].step = "serve" /\ workers[w].job.kind = "hook"
    /\ IF rows[k] = NoRow \/ rows[k].op # o
       THEN Respond(w, "ok")
       ELSE \/ Respond(w, "fail")
            \/ /\ Become(w, [workers[w] EXCEPT !.step = "resume", !.key = k, !.turn = rowTurn[k],
                                               !.loop = rows[k]])
               /\ UNCHANGED <<drives, hooks>>
    /\ UNCHANGED <<booted, receipts, runTables, turnOps, said, owed, deaths>>

(* The lifecycle hooks only write a trace. *)
ServeOther(w) ==
    /\ workers[w].step = "serve" /\ workers[w].job.kind = "other"
    /\ Respond(w, "ok")
    /\ UNCHANGED <<booted, receipts, runTables, turnOps, said, owed, deaths>>

-----------------------------------------------------------------------------
(* generate_conversation_agent_reply *)

(* claim_conversation_message_receipt, in one transaction: old is a receipt   *)
(* that has been running for processing_stale_after_ms.                     *)
Claimable(t, old) ==
    \/ receipts[t] \in {"none", "failed"}
    \/ receipts[t] = "running" /\ old

ClaimNext(w) ==
    LET p == workers[w]
        t == <<p.job.message, Head(p.left)>>
    IN
    /\ p.step = "claim"
    /\ IF p.left = <<>>
       THEN Respond(w, "ok") /\ UNCHANGED <<receipts, owed>>
       ELSE /\ \E old \in BOOLEAN :
               IF Claimable(t, old)
               THEN /\ MarkReceipt(t, "running")
                    /\ Starts(t)
                    /\ Become(w, [p EXCEPT !.step = "prepare", !.turn = t, !.key = Direct(t),
                                         !.left = Tail(@)])
               ELSE /\ Become(w, [p EXCEPT !.left = Tail(@)])
                    /\ UNCHANGED <<receipts, owed>>
            /\ UNCHANGED <<drives, hooks>>
    /\ UNCHANGED <<booted, runTables, turnOps, said, deaths>>

(* A turn ends: a pending one leaves its receipt running; an error fails the *)
(* receipt and, outside the recovery, the agents that are still to come.     *)
EndTurn(w, error) ==
    LET p    == workers[w]
        next == [p EXCEPT !.turn = NoTurn, !.key = NoTurn, !.loop = Fresh, !.recovering = FALSE]
    IN
    /\ IF error THEN MarkReceipt(p.turn, "failed") ELSE UNCHANGED receipts
    /\ IF p.recovering
       THEN Become(w, [next EXCEPT !.step = "recover"]) /\ UNCHANGED <<drives, hooks>>
       ELSE IF error THEN Respond(w, "fail")
       ELSE Become(w, [next EXCEPT !.step = "claim"]) /\ UNCHANGED <<drives, hooks>>

(* The messages, the memory context and the active session are read; the     *)
(* first and the last may fail.  A confirmation is looked for before the     *)
(* route of the message counts.                                              *)
Prepare(w) ==
    LET p == workers[w] IN
    /\ p.step = "prepare"
    /\ \/ EndTurn(w, TRUE)
       \/ /\ Go(w, IF p.turn[1] \in confirming THEN "confirm"
                    ELSE IF p.managed /\ ~p.recovering THEN "tell" ELSE "ask")
          /\ UNCHANGED <<drives, hooks, receipts>>
    /\ UNCHANGED <<booted, runTables, turnOps, said, owed, deaths>>

(* resume_pending_workflow_run: a new run of the discussed plan, or, without *)
(* a session, a run that another message of the agent has left unfinished.   *)
Continuable(t) ==
    {k \in LoopIds : \/ k[1] = t /\ k[2] = turnRuns[t] + 1
                     \/ /\ k[1] # t /\ k[1][2] = t[2]
                        /\ k[2] \in 1..turnRuns[k[1]]}
Continues(t, k) ==
    turnRuns' = [turnRuns EXCEPT ![t] = IF k[1] = t THEN k[2] ELSE @]

(* The start of the turn becomes one of the run. *)
HandsOver(t, k) ==
    owed' = [owed EXCEPT ![Direct(t)] = @ - 1, ![k] = @ + 1]

(* The confirmation of a plan: there is a run, and its loop goes on; or the  *)
(* reply says why it does not, or that there is none; or an access fails,    *)
(* before the run is created or after it.                                    *)
Confirm(w) ==
    LET p == workers[w] IN
    /\ p.step = "confirm"
    /\ \/ /\ Go(w, "tell")
          /\ UNCHANGED <<drives, hooks, receipts, turnRuns, owed>>
       \/ \E k \in Continuable(p.turn) :
             /\ Continues(p.turn, k)
             /\ \/ /\ \E step \in {"ask", "tell"} :
                        Become(w, [p EXCEPT !.step = step, !.key = k])
                   /\ HandsOver(p.turn, k)
                   /\ UNCHANGED <<drives, hooks, receipts>>
                \/ EndTurn(w, TRUE) /\ UNCHANGED owed
       \/ EndTurn(w, TRUE) /\ UNCHANGED <<turnRuns, owed>>
    /\ UNCHANGED <<booted, confirming, rows, rowTurn, turnOps, said, deaths>>

(* A text that ends the turn: a plan, or why there is none; what became of a *)
(* confirmation; the error of a run that has not been parked.                *)
TellOutcome(w) ==
    LET p == workers[w] IN
    /\ p.step = "tell"
    /\ \/ /\ Replies(p)
          /\ Become(w, [p EXCEPT !.step = "finish", !.result = "completed"])
          /\ UNCHANGED <<drives, hooks, receipts>>
       \/ EndTurn(w, TRUE) /\ UNCHANGED <<said, owed>>
    /\ UNCHANGED <<booted, runTables, turnOps, deaths>>

-----------------------------------------------------------------------------
(* continue_agent_reply_from_state *)

(* In the hook, or in the turn itself: in a recovery the job is another's.   *)
InHook(p) == p.job.kind = "hook" /\ ~p.recovering

(* An operation is asked for; the next step parks the loop with its id.      *)
Asks(w, kind) ==
    /\ Len(turnOps) < MaxTurnOps
    /\ turnOps' = Append(turnOps, [turn |-> workers[w].turn, key |-> workers[w].key,
                                     kind |-> kind, status |-> "running"])
    /\ Become(w, [workers[w] EXCEPT
                    !.step = "park",
                    !.loop = [op |-> Len(turnOps) + 1, kind |-> kind, calls |-> @.calls]])

(* The model is asked for its next response: the agent or its model may be   *)
(* missing, and the host may refuse.  A run that has not been parked tells   *)
(* its error as the reply of the turn.                                       *)
Ask(w) ==
    LET p == workers[w] IN
    /\ p.step = "ask"
    /\ \/ Asks(w, "provider")
       \/ Go(w, IF InHook(p) \/ IsDirect(p.key) THEN "sorry" ELSE "tell") /\ UNCHANGED turnOps
    /\ UNCHANGED <<drives, booted, receipts, runTables, hooks, said, owed, deaths>>

(* The first of the pending tool calls is made: an unknown tool is an error. *)
CallTool(w) ==
    /\ workers[w].step = "tool"
    /\ \/ Asks(w, "runtime")
       \/ Go(w, "sorry") /\ UNCHANGED turnOps
    /\ UNCHANGED <<drives, booted, receipts, runTables, hooks, said, owed, deaths>>

(* A direct reply stays pending; the turn of a run is completed with nothing *)
(* said.                                                                     *)
Park(w) ==
    LET p == workers[w] IN
    /\ p.step = "park"
    /\ SaveRow(p, p.loop)
    /\ IF InHook(p) THEN Respond(w, "ok") /\ UNCHANGED receipts
       ELSE IF IsDirect(p.key) THEN EndTurn(w, FALSE)
       ELSE /\ Become(w, [p EXCEPT !.step = "finish", !.result = "completed", !.loop = Fresh])
            /\ UNCHANGED <<drives, hooks, receipts>>
    /\ UNCHANGED <<booted, confirming, turnRuns, turnOps, said, owed, deaths>>

(* apply_provider_response: without tool calls the row goes and the text is  *)
(* the reply; an empty text is an error.  With tool calls the progress is    *)
(* told and the loop saved.                                                  *)
ApplyResponse(w) ==
    LET p == workers[w] IN
    /\ p.step = "resume" /\ p.loop.kind = "provider"
    /\ IF turnOps[p.job.op].status # "succeeded"
       THEN Go(w, "sorry") /\ UNCHANGED <<rows, rowTurn, said>>
       ELSE \/ /\ DeleteRow(p.key)
               /\ \E step \in {"reply", "sorry"} : Go(w, step)
               /\ UNCHANGED said
            \/ \E n \in 1..MaxCalls :
                  LET loop == [Fresh EXCEPT !.calls = n] IN
                  /\ SaveRow(p, loop)
                  /\ Become(w, [p EXCEPT !.step = "tool", !.loop = loop])
                  /\ TellsProgress(p.turn[2]) \/ UNCHANGED said
    /\ UNCHANGED <<drives, booted, receipts, confirming, turnRuns, turnOps, hooks, owed, deaths>>

(* The result of a tool, an error included, goes to the model. *)
ApplyTool(w) ==
    LET p    == workers[w]
        loop == [Fresh EXCEPT !.calls = p.loop.calls - 1]
    IN
    /\ p.step = "resume" /\ p.loop.kind = "runtime"
    /\ SaveRow(p, loop)
    /\ Become(w, [p EXCEPT !.loop = loop, !.step = IF loop.calls > 0 THEN "tool" ELSE "ask"])
    /\ UNCHANGED <<drives, booted, receipts, confirming, turnRuns, turnOps, hooks, said, owed,
                   deaths>>

(* The reply is appended, and after it the record of an artifact it carries: *)
(* either may fail, and then the hook has.                                   *)
Reply(w) ==
    LET p == workers[w] IN
    /\ p.step = "reply"
    /\ \/ /\ Replies(p)
          /\ \/ /\ Become(w, [p EXCEPT !.step = "finish", !.result = "completed"])
                /\ UNCHANGED <<drives, hooks>>
             \/ Respond(w, "fail")
       \/ Respond(w, "fail") /\ UNCHANGED <<said, owed>>
    /\ UNCHANGED <<booted, receipts, runTables, turnOps, deaths>>

(* An error is told in the conversation.  The turn that drives the reply     *)
(* deletes the row and stays pending; the hook keeps the row and fails the   *)
(* receipt.                                                                  *)
Sorry(w) ==
    LET p == workers[w] IN
    /\ p.step = "sorry"
    /\ IF InHook(p)
       THEN /\ \/ /\ Replies(p)
                  /\ Become(w, [p EXCEPT !.step = "finish", !.result = "failed"])
                  /\ UNCHANGED <<drives, hooks>>
               \/ Respond(w, "fail") /\ UNCHANGED <<said, owed>>
            /\ UNCHANGED <<rows, rowTurn, receipts>>
       ELSE /\ DeleteRow(p.key)
            /\ \/ Replies(p) /\ EndTurn(w, FALSE)
               \/ EndTurn(w, TRUE) /\ UNCHANGED <<said, owed>>
    /\ UNCHANGED <<booted, confirming, turnRuns, turnOps, deaths>>

MarkResult(w) ==
    LET p == workers[w] IN
    /\ p.step = "finish"
    /\ MarkReceipt(p.turn, p.result)
    /\ IF InHook(p)
       THEN Respond(w, "ok")
       ELSE /\ Become(w, [p EXCEPT !.step = IF p.recovering THEN "recover" ELSE "claim",
                                   !.turn = NoTurn, !.key = NoTurn, !.recovering = FALSE])
            /\ UNCHANGED <<drives, hooks>>
    /\ UNCHANGED <<booted, runTables, turnOps, said, owed, deaths>>

-----------------------------------------------------------------------------
(* What happens around the workers *)

(* An operation ends, and its operation.updated is published. *)
OperationEnds(o) ==
    /\ o <= Len(turnOps) /\ turnOps[o].status = "running"
    /\ \E status \in {"succeeded", "failed"} : turnOps' = [turnOps EXCEPT ![o].status = status]
    /\ hooks' = [hooks EXCEPT ![o].state = "due"]
    /\ UNCHANGED <<drives, workers, booted, receipts, runTables, said, owed, deaths>>

(* A worker that dies, or is killed because its call took too long, fails    *)
(* its call.                                                                 *)
WorkerDies(w) ==
    /\ deaths < MaxDeaths /\ deaths' = deaths + 1
    /\ booted' = booted \ {w}
    /\ Respond(w, "fail")
    /\ UNCHANGED <<receipts, runTables, turnOps, said, owed>>

(* A restart of the server ends every worker and forgets every drive; the    *)
(* operations under way are cancelled without an event, and the deliveries   *)
(* under way are made again.                                                 *)
ServerRestarts ==
    /\ deaths < MaxDeaths /\ deaths' = deaths + 1
    /\ workers' = [w \in TurnWorkers |-> IdleProcess]
    /\ booted' = {}
    /\ drives' = [m \in Messages |-> IF drives[m] = "unsent" THEN "unsent" ELSE "done"]
    /\ hooks' = [o \in TurnOps |-> IF hooks[o].state = "taken"
                                   THEN [hooks[o] EXCEPT !.state = "due"] ELSE hooks[o]]
    /\ turnOps' = [o \in DOMAIN turnOps |->
                     IF turnOps[o].status = "running"
                     THEN [turnOps[o] EXCEPT !.status = "abandoned"] ELSE turnOps[o]]
    /\ UNCHANGED <<receipts, runTables, said, owed>>

WorkerStep(w) ==
    \/ Recover(w) \/ Remark(w)
    \/ ServeDrive(w) \/ ServeHook(w) \/ ServeOther(w)
    \/ ClaimNext(w) \/ Prepare(w) \/ Confirm(w) \/ TellOutcome(w)
    \/ Ask(w) \/ CallTool(w) \/ Park(w)
    \/ ApplyResponse(w) \/ ApplyTool(w) \/ Reply(w) \/ Sorry(w) \/ MarkResult(w)

TurnsNext ==
    \/ \E m \in Messages : Send(m)
    \/ \E w \in TurnWorkers :
          \/ \E m \in Messages : DriveCall(w, m)
          \/ \E o \in TurnOps : HookCall(w, o)
          \/ OtherCall(w)
          \/ WorkerStep(w)
          \/ WorkerDies(w)
    \/ \E o \in TurnOps : OperationEnds(o)
    \/ ServerRestarts

TurnsSpec == TurnsInit /\ [][TurnsNext]_turnVars

-----------------------------------------------------------------------------
(* Properties *)

(* A loop, direct or of a run, answers once each time a turn starts it,      *)
(* however many workers resume, recover and retry it and however many        *)
(* messages confirm the run: only a worker or server that dies between the   *)
(* reply and its mark makes it say something again.                          *)
TurnsAreAnsweredOnce == \A k \in LoopIds : owed[k] >= -deaths

(* The loop of a run has asked for an operation on behalf of the turn. *)
Executed(t) == \E o \in DOMAIN turnOps : turnOps[o].turn = t /\ ~IsDirect(turnOps[o].key)

(* A receipt is completed only if the agent has spoken in the branch since   *)
(* the message came, or if the message has confirmed a plan and a run was    *)
(* set to work for it, over recoveries and workers that overwrite each other.*)
CompletedReceiptsWereAnswered ==
    \A t \in Turns : receipts[t] = "completed" =>
        t \in said \/ (t[1] \in confirming /\ Executed(t))

(* The operation a parked loop waits for was asked for by that very loop, is *)
(* of the kind the loop will take the result for, and a tool's result has a  *)
(* call to belong to: if not, the resumption fails or answers another call.  *)
ParkedRowsWaitForTheirOwn ==
    \A k \in LoopIds : LET row == rows[k] IN
        row.op # 0 => /\ row.op \in DOMAIN turnOps
                      /\ turnOps[row.op].key = k /\ turnOps[row.op].kind = row.kind
                      /\ row.kind = "runtime" => row.calls > 0

(* Whoever claims the slot for a message has a receipt of every agent it     *)
(* addresses, with a recovery going on beside it.                            *)
AddressedAgentsAreClaimed ==
    \A w \in TurnWorkers : LET p == workers[w] IN
        (p.step = "claim" /\ p.left = <<>>) =>
            \A i \in DOMAIN Addressed[p.job.message] :
                receipts[<<p.job.message, Addressed[p.job.message][i]>>] # "none"

(* The promise of the conversation loop, over workers that die, overwrite    *)
(* each other's rows and recover each other's turns: what a message asks of  *)
(* an agent is answered once, by whoever finishes it. *)
TurnsSettleOnce ==
    /\ TurnsAreAnsweredOnce
    /\ CompletedReceiptsWereAnswered
    /\ ParkedRowsWaitForTheirOwn
    /\ AddressedAgentsAreClaimed
=============================================================================
