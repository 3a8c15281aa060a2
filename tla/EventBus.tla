------------------------------ MODULE EventBus ------------------------------
(***************************************************************************)
(* The host's persistent event bus (event_bus/sqlite.rs): request handlers *)
(* publish events, one row per subscribed hook, and one background loop    *)
(* (app.rs, drain_hook_deliveries_once) delivers them to extensions by an  *)
(* RPC with a timeout, marks the outcome and retries with a backoff.       *)
(*                                                                         *)
(* Every INSERT and UPDATE commits by itself, so publishing is several     *)
(* steps and so is delivering: the RPC, what the handler does, the answer  *)
(* and the mark.  The server may stop between any two of them.             *)
(***************************************************************************)
EXTENDS Naturals, Sequences, FiniteSets

CONSTANTS
    Publishers,     \* concurrent request handlers that publish
    Handlers,       \* hook handlers of extensions
    WasmHandlers,   \* those in a wasm worker; the others are processes
    Subscriptions,  \* what hooks_for_event answers: sequences of handlers
    BatchSize,      \* deliveries read per drain (32 in the code)
    MaxAttempts,    \* attempts before giving up (20 in the code)
    MaxDeliveries,  \* bound on the rows of hook_deliveries
    MaxFaults       \* bound on failed statements and restarts

ASSUME BusAssumption ==
    /\ WasmHandlers \subseteq Handlers
    /\ Subscriptions \subseteq Seq(Handlers)
    /\ BatchSize \in Nat \ {0}
    /\ MaxAttempts \in Nat \ {0}
    /\ MaxDeliveries \in Nat
    /\ MaxFaults \in Nat

VARIABLES
    deliveries,  \* hook_deliveries, by seq
    toPost,      \* hooks each publisher has still to insert
    batch,       \* snapshot the drain works through: delivery -> attempts
    drain,       \* the delivery under way and how far it is
    orphans,     \* invocations still running that nobody waits for
    runs,        \* history: times each delivery's handler ran
    tried,       \* history: the deliveries an RPC was made for
    faults       \* failed statements and restarts so far

vars == <<deliveries, toPost, batch, drain, orphans, runs, tried, faults>>

Ids      == 1..MaxDeliveries
Statuses == {"pending", "succeeded", "failed"}
Rows     == [handler : Handlers, status : Statuses, attempts : 0..MaxAttempts, due : BOOLEAN]

(* "call": the worker is asked; "late": it timed out and terminate_worker    *)
(* waits for the invocation to end; "done", "error": to be marked.           *)
DrainStates == [step : {"idle", "call", "late", "done", "error"}, id : 0..MaxDeliveries,
                invocation : {1, 2}, handled : BOOLEAN]

(* Type correctness; the snapshot names rows, and the delivery under way is  *)
(* one of the snapshot's.                                                    *)
BusTypeOK ==
    /\ deliveries \in Seq(Rows) /\ Len(deliveries) <= MaxDeliveries
    /\ toPost \in [Publishers -> Seq(Handlers)]
    /\ DOMAIN batch \subseteq DOMAIN deliveries
    /\ \A d \in DOMAIN batch : batch[d] \in Nat
    /\ drain \in DrainStates
    /\ drain.step # "idle" => drain.id \in DOMAIN batch
    /\ orphans \in [Ids -> Nat]
    /\ runs \in [Ids -> Nat]
    /\ tried \subseteq Ids
    /\ faults \in 0..MaxFaults

Quiet   == [step |-> "idle", id |-> 0, invocation |-> 1, handled |-> FALSE]
NoBatch == [d \in {} |-> 0]

Init ==
    /\ deliveries = <<>>
    /\ toPost = [p \in Publishers |-> <<>>]
    /\ batch = NoBatch
    /\ drain = Quiet
    /\ orphans = [d \in Ids |-> 0]
    /\ runs = [d \in Ids |-> 0]
    /\ tried = {}
    /\ faults = 0

-----------------------------------------------------------------------------
(* publish: the event's row, then one INSERT per hook, each by itself. *)

(* Bound: a row is inserted only while there is room for it. *)
Room == Len(deliveries) < MaxDeliveries

Publish(p, hooks) ==
    /\ toPost[p] = <<>> /\ Room
    /\ toPost' = [toPost EXCEPT ![p] = hooks]
    /\ UNCHANGED <<deliveries, batch, drain, orphans, runs, tried, faults>>

PostDelivery(p) ==
    /\ toPost[p] # <<>> /\ Room
    /\ deliveries' = Append(deliveries, [handler |-> Head(toPost[p]), status |-> "pending",
                                         attempts |-> 0, due |-> TRUE])
    /\ toPost' = [toPost EXCEPT ![p] = Tail(@)]
    /\ UNCHANGED <<batch, drain, orphans, runs, tried, faults>>

(* An INSERT fails: publish returns and the hooks that are left are dropped. *)
PostFails(p) ==
    /\ toPost[p] # <<>> /\ faults < MaxFaults
    /\ toPost' = [toPost EXCEPT ![p] = <<>>]
    /\ faults' = faults + 1
    /\ UNCHANGED <<deliveries, batch, drain, orphans, runs, tried>>

-----------------------------------------------------------------------------
(* drain_hook_deliveries_once *)

Due == {d \in DOMAIN deliveries : deliveries[d].status = "pending" /\ deliveries[d].due}

(* list_pending_deliveries: the oldest due deliveries, up to a limit. *)
Oldest(S, n) == {d \in S : Cardinality({e \in S : e < d}) < n}

Scan ==
    /\ drain.step = "idle" /\ batch = NoBatch /\ Due # {}
    /\ batch' = [d \in Oldest(Due, BatchSize) |-> deliveries[d].attempts]
    /\ UNCHANGED <<deliveries, toPost, drain, orphans, runs, tried, faults>>

(* A mutant: the batch is worked through in any order. *)
SendAny(d, reachable) ==
    /\ drain.step = "idle" /\ d \in DOMAIN batch
    /\ drain' = [step |-> IF reachable THEN "call" ELSE "error", id |-> d,
                 invocation |-> 1, handled |-> FALSE]
    /\ tried' = tried \cup {d}
    /\ UNCHANGED <<deliveries, toPost, batch, orphans, runs, faults>>

(* The next of the batch is sent to its worker; an extension that is gone,   *)
(* or a request its worker cannot be given, is an error at once.             *)
Send(d, reachable) ==
    /\ drain.step = "idle"
    /\ d \in DOMAIN batch /\ \A e \in DOMAIN batch : d <= e
    /\ drain' = [step |-> IF reachable THEN "call" ELSE "error", id |-> d,
                 invocation |-> 1, handled |-> FALSE]
    /\ tried' = tried \cup {d}
    /\ UNCHANGED <<deliveries, toPost, batch, orphans, runs, faults>>

InWorker == drain.step \in {"call", "late"}
IsWasm   == deliveries[drain.id].handler \in WasmHandlers

Handle ==
    /\ InWorker /\ ~drain.handled
    /\ drain' = [drain EXCEPT !.handled = TRUE]
    /\ runs' = [runs EXCEPT ![drain.id] = @ + 1]
    /\ UNCHANGED <<deliveries, toPost, batch, orphans, tried, faults>>

(* The worker answers.  An answer after the timeout only frees the slot that *)
(* terminate_worker is waiting for.                                          *)
Reply(ok) ==
    /\ InWorker
    /\ ok => drain.handled
    /\ drain' = [drain EXCEPT !.step = IF ok /\ drain.step = "call" THEN "done" ELSE "error"]
    /\ UNCHANGED <<deliveries, toPost, batch, orphans, runs, tried, faults>>

(* A mutant: a fresh process is asked again and again. *)
BreakForEver ==
    /\ InWorker /\ ~IsWasm
    /\ drain' = [drain EXCEPT !.invocation = 2, !.handled = FALSE]
    /\ UNCHANGED <<deliveries, toPost, batch, orphans, runs, tried, faults>>

(* The worker process dies: dispatch_process asks a fresh one once more.     *)
(* After the timeout that second invocation runs on with nobody waiting.     *)
Break ==
    /\ InWorker /\ ~IsWasm
    /\ \/ /\ drain.invocation = 1 /\ drain.step = "call"
          /\ drain' = [drain EXCEPT !.invocation = 2, !.handled = FALSE]
          /\ UNCHANGED orphans
       \/ /\ drain.invocation = 1 /\ drain.step = "late"
          /\ drain' = [drain EXCEPT !.step = "error"]
          /\ orphans' = [orphans EXCEPT ![drain.id] = @ + 1]
       \/ /\ drain.invocation = 2
          /\ drain' = [drain EXCEPT !.step = "error"]
          /\ UNCHANGED orphans
    /\ UNCHANGED <<deliveries, toPost, batch, runs, tried, faults>>

(* A mutant: a timeout is taken for an answer. *)
TimeoutIsAnAnswer ==
    /\ drain.step = "call"
    /\ drain' = [drain EXCEPT !.step = "done"]
    /\ UNCHANGED <<deliveries, toPost, batch, orphans, runs, tried, faults>>

(* The timeout drops the RPC and terminates the extension's worker.  A wasm  *)
(* invocation is not interrupted and runs on; for a process, terminating     *)
(* waits for the lock that the invocation holds.                             *)
Timeout ==
    /\ drain.step = "call"
    /\ IF IsWasm
       THEN /\ drain' = [drain EXCEPT !.step = "error"]
            /\ orphans' = IF drain.handled THEN orphans
                          ELSE [orphans EXCEPT ![drain.id] = @ + 1]
       ELSE /\ drain' = [drain EXCEPT !.step = "late"]
            /\ UNCHANGED orphans
    /\ UNCHANGED <<deliveries, toPost, batch, runs, tried, faults>>

(* The loop's next iteration. *)
Without(d) == [e \in DOMAIN batch \ {d} |-> batch[e]]

NextDelivery ==
    /\ batch' = Without(drain.id)
    /\ drain' = Quiet
    /\ UNCHANGED <<toPost, orphans, runs, tried>>

MarkSucceeded ==
    /\ drain.step = "done"
    /\ deliveries' = [deliveries EXCEPT ![drain.id] = [@ EXCEPT !.status = "succeeded"]]
    /\ NextDelivery
    /\ UNCHANGED faults

(* A mutant: one attempt too many. *)
MarkRetryLate ==
    /\ drain.step = "error"
    /\ LET attempts == batch[drain.id] + 1 IN
       deliveries' = [deliveries EXCEPT ![drain.id] =
                        [@ EXCEPT !.attempts = attempts,
                                  !.status = IF attempts > MaxAttempts
                                             THEN "failed" ELSE "pending",
                                  !.due = FALSE]]
    /\ NextDelivery
    /\ UNCHANGED faults

(* mark_delivery_retry counts from the snapshot. *)
MarkRetry ==
    /\ drain.step = "error"
    /\ LET attempts == batch[drain.id] + 1 IN
       deliveries' = [deliveries EXCEPT ![drain.id] =
                        [@ EXCEPT !.attempts = attempts,
                                  !.status = IF attempts >= MaxAttempts
                                             THEN "failed" ELSE "pending",
                                  !.due = FALSE]]
    /\ NextDelivery
    /\ UNCHANGED faults

(* The UPDATE fails and nothing is told: the row stays pending and due. *)
MarkFails ==
    /\ drain.step \in {"done", "error"} /\ faults < MaxFaults
    /\ faults' = faults + 1
    /\ NextDelivery
    /\ UNCHANGED deliveries

(* The backoff ends. *)
BackoffEnds(d) ==
    /\ d \in DOMAIN deliveries
    /\ deliveries[d].status = "pending" /\ ~deliveries[d].due
    /\ deliveries' = [deliveries EXCEPT ![d] = [@ EXCEPT !.due = TRUE]]
    /\ UNCHANGED <<toPost, batch, drain, orphans, runs, tried, faults>>

(* An invocation nobody waits for reaches its handler, or dies first. *)
OrphanEnds(d, handled) ==
    /\ orphans[d] > 0
    /\ orphans' = [orphans EXCEPT ![d] = @ - 1]
    /\ runs' = IF handled THEN [runs EXCEPT ![d] = @ + 1] ELSE runs
    /\ UNCHANGED <<deliveries, toPost, batch, drain, tried, faults>>

(* A mutant: the snapshot is lost, the delivery under way is not. *)
RestartMidDelivery ==
    /\ faults < MaxFaults
    /\ faults' = faults + 1
    /\ toPost' = [p \in Publishers |-> <<>>]
    /\ batch' = NoBatch
    /\ UNCHANGED <<deliveries, drain, orphans, runs, tried>>

(* The server stops; the tables are all that is left. *)
Restart ==
    /\ faults < MaxFaults
    /\ faults' = faults + 1
    /\ toPost' = [p \in Publishers |-> <<>>]
    /\ batch' = NoBatch
    /\ drain' = Quiet
    /\ orphans' = [d \in Ids |-> 0]
    /\ UNCHANGED <<deliveries, runs, tried>>

-----------------------------------------------------------------------------
Answered == \E ok \in BOOLEAN : Reply(ok)
Marked   == MarkSucceeded \/ MarkRetry \/ MarkFails

DrainStep ==
    \/ Scan
    \/ \E d \in Ids, reachable \in BOOLEAN : Send(d, reachable)
    \/ Handle \/ Answered \/ Break \/ Timeout
    \/ Marked

PublisherStep ==
    \E p \in Publishers : \/ \E hooks \in Subscriptions : Publish(p, hooks)
                          \/ PostDelivery(p)
                          \/ PostFails(p)

DeliveryStep ==
    \E d \in Ids : \/ BackoffEnds(d)
                   \/ \E handled \in BOOLEAN : OrphanEnds(d, handled)

Next == PublisherStep \/ DrainStep \/ DeliveryStep \/ Restart

(* The loop is a task of its own that runs while the server does, time       *)
(* passes, and a worker that was asked answers or dies sooner or later: the  *)
(* host does not enforce the last of these for a process worker.             *)
Fairness ==
    /\ WF_vars(DrainStep)
    /\ \A d \in Ids : WF_vars(BackoffEnds(d))

Safety == Init /\ [][Next]_vars
Spec == Safety /\ Fairness

-----------------------------------------------------------------------------
(* Properties. *)

(* list_pending_deliveries and NextDelivery: deliveries are tried for the   *)
(* first time in the order they were inserted (so the hooks of one event in *)
(* the order of their priority), whatever fails, times out or restarts.     *)
FirstTriesInOrder ==
    \A d, e \in DOMAIN deliveries : d < e /\ e \in tried => d \in tried

(* dispatch_process and mark_delivery_retry: a handler runs at most twice   *)
(* for each counted attempt, the last one, and each attempt that a fault    *)
(* left uncounted.                                                          *)
RunsAreBounded ==
    \A d \in DOMAIN deliveries :
        runs[d] <= 2 * (deliveries[d].attempts + faults + 1)

(* mark_delivery_retry: a delivery is given up exactly when its attempts    *)
(* are used up, and no attempt is made of one that has settled.             *)
Working(d) == drain.step # "idle" /\ drain.id = d

GivenUpWhenExhausted ==
    \A d \in DOMAIN deliveries :
        /\ deliveries[d].status = "failed" <=> deliveries[d].attempts = MaxAttempts
        /\ Working(d) => deliveries[d].status = "pending"

(* The bus implements HookDelivery: no delivery is reported as succeeded    *)
(* before its handler ran, settled deliveries stay settled, and every one   *)
(* settles.                                                                 *)
Posted(d) == d \in DOMAIN deliveries

Delivery == INSTANCE HookDelivery WITH
    status  <- [d \in Ids |-> IF Posted(d) THEN deliveries[d].status ELSE "absent"],
    reached <- {d \in Ids : runs[d] > 0}

ImplementsDelivery == Delivery!Spec
=============================================================================
