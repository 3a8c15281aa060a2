----------------------------- MODULE Scheduler -----------------------------
(***************************************************************************)
(* The schedules of the host (routes/schedules.rs): the handlers of the    *)
(* schedule routes and the background tick, over one JSON file that a      *)
(* mutex guards.                                                           *)
(*                                                                         *)
(* A handler that edits takes the mutex, reads the file, changes one       *)
(* schedule and writes the file, with no await in between: one step.  A    *)
(* run takes the mutex twice, to copy the schedule and to record the       *)
(* outcome, and executes between the two without it.  The tick keeps the   *)
(* mutex from its try_lock until every due schedule has run.               *)
(***************************************************************************)
EXTENDS Naturals

CONSTANTS
    Schedules,    \* identifiers schedules are created with
    Clients,      \* concurrent requests to the schedule routes
    Tick,         \* the background tick
    Free,         \* nobody holds the mutex
    Drafts,       \* what clients create and update with, see DraftFields
    MaxAttempts,  \* attempts of one run (retry.max_attempts)
    MaxHistory,   \* run records kept (20 in the code)
    MaxRecorded,  \* bound on the count of recorded runs
    MaxRestarts   \* bound on restarts

ASSUME SchedulerAssumption ==
    /\ Schedules # {} /\ Drafts # {}
    /\ Tick \notin Clients
    /\ Free \notin Clients \cup {Tick}
    /\ MaxAttempts \in Nat \ {0}
    /\ MaxHistory \in Nat \ {0}
    /\ MaxRecorded \in Nat /\ MaxRecorded > MaxHistory
    /\ MaxRestarts \in Nat

(* A point in time is past ("due"), ahead ("later") or does not parse.       *)
Times == {"never", "later", "due"}

(* "at" is the time a once or cron trigger names, which is fixed; for an     *)
(* interval, the time one interval from now.                                 *)
Triggers == [kind : {"once", "cron"}, at : Times]
            \cup [kind : {"interval"}, at : {"never", "later"}]

ASSUME DraftFields == Drafts \subseteq [trigger : Triggers, enabled : BOOLEAN]

VARIABLES
    file,         \* schedules.json
    torn,         \* a write was cut short: the file no longer parses
    scheduleLock, \* who holds schedule_lock
    proc,         \* where each request and the tick stand
    dueIds,       \* schedules the tick has still to run
    recorded,     \* history: runs recorded for each schedule
    restarts

schedulerVars == <<file, torn, scheduleLock, proc, dueIds, recorded, restarts>>

Procs == Clients \cup {Tick}

(* Never created, and deleted or lost: identifiers are not used again. *)
Unborn == [absent |-> "unborn"]
Gone   == [absent |-> "gone"]

Records == [trigger : Triggers, enabled : BOOLEAN, next : Times, history : 0..MaxHistory]

Operations == {"create", "update", "delete", "pause", "resume", "run", "list"}
Drafting   == {"create", "update"}
States == [step : {"idle", "serve", "copy", "execute", "record"},
           op : Operations, id : Schedules, payload : Drafts,
           copy : Records \cup {Unborn}, attempt : 0..MaxAttempts]

Present(s) == file[s] \notin {Unborn, Gone}

(* Type correctness; only the tick is ever seen holding the mutex.           *)
SchedulerTypeOK ==
    /\ file \in [Schedules -> Records \cup {Unborn, Gone}]
    /\ torn \in BOOLEAN
    /\ scheduleLock \in {Free, Tick}
    /\ proc \in [Procs -> States]
    /\ dueIds \subseteq Schedules
    /\ recorded \in [Schedules -> 0..MaxRecorded]
    /\ restarts \in 0..MaxRestarts

Idle == [step |-> "idle", op |-> "list", id |-> CHOOSE s \in Schedules : TRUE,
         payload |-> CHOOSE b \in Drafts : TRUE, copy |-> Unborn, attempt |-> 0]

SchedulerInit ==
    /\ file = [s \in Schedules |-> Unborn]
    /\ torn = FALSE
    /\ scheduleLock = Free
    /\ proc = [p \in Procs |-> Idle]
    /\ dueIds = {}
    /\ recorded = [s \in Schedules |-> 0]
    /\ restarts = 0

-----------------------------------------------------------------------------
(* read_schedules(..).unwrap_or_default(): a file that does not parse reads  *)
(* as empty, and the next write makes that so.                               *)
View == IF torn THEN [s \in Schedules |-> IF file[s] = Unborn THEN Unborn ELSE Gone] ELSE file
Found(s) == ~torn /\ Present(s)

Write(f) == file' = f /\ torn' = FALSE

NextRunAt(trigger, enabled) == IF enabled THEN trigger.at ELSE "never"

(* advance_schedule: a once trigger is disarmed; the others are armed again, *)
(* a cron one at the same time as before, whether enabled or not.            *)
Advanced(r) ==
    IF r.trigger.kind = "once"
    THEN [r EXCEPT !.enabled = FALSE, !.next = "never"]
    ELSE [r EXCEPT !.next = r.trigger.at]

Least(m, n) == IF m < n THEN m ELSE n

-----------------------------------------------------------------------------
(* The routes. *)

Request(c, op, s, b) ==
    /\ proc[c].step = "idle"
    /\ proc' = [proc EXCEPT ![c] = [Idle EXCEPT !.step = IF op = "run" THEN "copy" ELSE "serve",
                                                !.op = op, !.id = s, !.payload = b]]
    /\ UNCHANGED <<file, torn, scheduleLock, dueIds, recorded, restarts>>

(* What an edit makes of the record of schedule s. *)
Edited(op, r, b) ==
    CASE op = "update" -> [r EXCEPT !.trigger = b.trigger, !.enabled = b.enabled,
                                    !.next = NextRunAt(b.trigger, b.enabled)]
      [] op = "pause"  -> [r EXCEPT !.enabled = FALSE, !.next = "never"]
      [] op = "resume" -> [r EXCEPT !.enabled = TRUE, !.next = NextRunAt(r.trigger, TRUE)]
      [] op = "delete" -> Gone

Created(b) == [trigger |-> b.trigger, enabled |-> b.enabled,
               next |-> NextRunAt(b.trigger, b.enabled), history |-> 0]

(* A mutant: the handlers do not take the mutex. *)
ServeUnlocked(c) ==
    LET op == proc[c].op
        s  == proc[c].id IN
    /\ proc[c].step = "serve"
    /\ IF op \in {"update", "pause", "resume", "delete"} /\ Found(s)
       THEN Write([View EXCEPT ![s] = Edited(op, file[s], proc[c].payload)])
       ELSE IF op = "create" /\ file[s] = Unborn
       THEN Write([View EXCEPT ![s] = Created(proc[c].payload)])
       ELSE UNCHANGED <<file, torn>>
    /\ proc' = [proc EXCEPT ![c] = Idle]
    /\ UNCHANGED <<scheduleLock, dueIds, recorded, restarts>>

(* A request for a schedule that is not found, or a list, changes nothing. *)
Serve(c) ==
    LET op == proc[c].op
        s  == proc[c].id IN
    /\ proc[c].step = "serve" /\ scheduleLock = Free
    /\ \/ /\ op = "create" /\ file[s] = Unborn
          /\ Write([View EXCEPT ![s] = Created(proc[c].payload)])
       \/ /\ op \in {"update", "pause", "resume", "delete"} /\ Found(s)
          /\ Write([View EXCEPT ![s] = Edited(op, file[s], proc[c].payload)])
       \/ /\ op = "list" \/ (op # "create" /\ ~Found(s))
          /\ UNCHANGED <<file, torn>>
    /\ proc' = [proc EXCEPT ![c] = Idle]
    /\ UNCHANGED <<scheduleLock, dueIds, recorded, restarts>>

(* timeout_middleware answers for a handler that takes too long and drops    *)
(* it, wherever it waits.                                                    *)
Drop(c) ==
    /\ proc[c].step # "idle"
    /\ proc' = [proc EXCEPT ![c] = Idle]
    /\ UNCHANGED <<file, torn, scheduleLock, dueIds, recorded, restarts>>

-----------------------------------------------------------------------------
(* run_schedule_by_id, for a request or for the tick *)

Copy(p) ==
    /\ proc[p].step = "copy" /\ scheduleLock = Free
    /\ proc' = [proc EXCEPT ![p] = IF Found(proc[p].id)
                                   THEN [@ EXCEPT !.step = "execute", !.copy = file[proc[p].id]]
                                   ELSE Idle]
    /\ UNCHANGED <<file, torn, scheduleLock, dueIds, recorded, restarts>>

(* execute_schedule: an attempt that completes or fails is recorded once no  *)
(* attempt is left, an error (a timeout, a target that cannot be resolved)   *)
(* ends the run with nothing recorded.                                       *)
RunSchedule(p, outcome) ==
    /\ proc[p].step = "execute"
    /\ LET attempt == proc[p].attempt + 1 IN
       proc' = [proc EXCEPT ![p] =
                  CASE outcome = "error" -> Idle
                    [] outcome = "failed" /\ attempt < MaxAttempts -> [@ EXCEPT !.attempt = attempt]
                    [] OTHER -> [@ EXCEPT !.attempt = attempt, !.step = "record"]]
    /\ UNCHANGED <<file, torn, scheduleLock, dueIds, recorded, restarts>>

(* A mutant: the record that was copied before the run is written back. *)
Copied(p) == proc[p].copy

(* The file is read again: what others changed meanwhile is kept. *)
Current(p) == file[proc[p].id]

(* A mutant: a schedule deleted meanwhile is inserted again. *)
RecordInserting(p) ==
    LET s == proc[p].id IN
    /\ proc[p].step = "record" /\ scheduleLock = Free
    /\ Write([View EXCEPT ![s] = Advanced(proc[p].copy)])
    /\ recorded' = [recorded EXCEPT ![s] = Least(MaxRecorded, @ + 1)]
    /\ proc' = [proc EXCEPT ![p] = Idle]
    /\ UNCHANGED <<scheduleLock, dueIds, restarts>>

Record(p) ==
    LET s == proc[p].id IN
    /\ proc[p].step = "record" /\ scheduleLock = Free
    /\ \/ /\ Found(s)
          /\ LET r == [Current(p) EXCEPT !.history = Least(MaxHistory, @ + 1)] IN
             Write([file EXCEPT ![s] = Advanced(r)])
          /\ recorded' = [recorded EXCEPT ![s] = Least(MaxRecorded, @ + 1)]
       \/ /\ ~Found(s)
          /\ UNCHANGED <<file, torn, recorded>>
    /\ proc' = [proc EXCEPT ![p] = Idle]
    /\ UNCHANGED <<scheduleLock, dueIds, restarts>>

-----------------------------------------------------------------------------
(* run_due_schedules_once *)

DueNow == {s \in Schedules : Found(s) /\ file[s].enabled /\ file[s].next = "due"}

(* try_lock, and the guard lives until the tick returns; a tick that does not *)
(* get it does nothing.                                                       *)
StartTick ==
    /\ proc[Tick].step = "idle" /\ scheduleLock = Free
    /\ scheduleLock' = Tick
    /\ dueIds' = DueNow
    /\ UNCHANGED <<file, torn, proc, recorded, restarts>>

RunDue(s) ==
    /\ scheduleLock = Tick /\ proc[Tick].step = "idle" /\ s \in dueIds
    /\ dueIds' = dueIds \ {s}
    /\ proc' = [proc EXCEPT ![Tick] = [Idle EXCEPT !.step = "copy", !.op = "run", !.id = s]]
    /\ UNCHANGED <<file, torn, scheduleLock, recorded, restarts>>

EndTick ==
    /\ scheduleLock = Tick /\ proc[Tick].step = "idle" /\ dueIds = {}
    /\ scheduleLock' = Free
    /\ UNCHANGED <<file, torn, proc, dueIds, recorded, restarts>>

-----------------------------------------------------------------------------
(* The clock passes a schedule's next_run_at, and the time its trigger names. *)
TimePasses(s) ==
    /\ Present(s) /\ "later" \in {file[s].next, file[s].trigger.at}
    /\ LET Passed(at) == IF at = "later" THEN "due" ELSE at
           r == [file[s] EXCEPT !.next = Passed(@)] IN
       file' = [file EXCEPT ![s] =
                  IF r.trigger.kind = "interval" THEN r
                  ELSE [r EXCEPT !.trigger.at = Passed(@)]]
    /\ UNCHANGED <<torn, scheduleLock, proc, dueIds, recorded, restarts>>

(* The server stops; stopping inside fs::write, which truncates first, tears *)
(* the file.                                                                 *)
Writes(p) ==
    \/ proc[p].step = "serve" /\ proc[p].op = "create"
    \/ proc[p].step \in {"serve", "record"} /\ proc[p].op # "list" /\ Found(proc[p].id)

Writing == scheduleLock = Free /\ \E p \in Procs : Writes(p)

SchedulerRestarts ==
    /\ restarts < MaxRestarts
    /\ restarts' = restarts + 1
    /\ torn' \in {torn, torn \/ Writing}
    /\ scheduleLock' = Free
    /\ proc' = [p \in Procs |-> Idle]
    /\ dueIds' = {}
    /\ UNCHANGED <<file, recorded>>

-----------------------------------------------------------------------------
Outcomes == {"completed", "failed", "error"}

RunStep(p) == Copy(p) \/ (\E outcome \in Outcomes : RunSchedule(p, outcome)) \/ Record(p)

TickStep == StartTick \/ EndTick \/ \E s \in Schedules : RunDue(s)

SchedulerNext ==
    \/ \E c \in Clients :
          \/ \E op \in Drafting, s \in Schedules, b \in Drafts : Request(c, op, s, b)
          \/ \E op \in Operations \ Drafting, s \in Schedules : Request(c, op, s, Idle.payload)
          \/ Serve(c)
          \/ Drop(c)
    \/ \E p \in Procs : RunStep(p)
    \/ TickStep
    \/ \E s \in Schedules : TimePasses(s)
    \/ SchedulerRestarts

(* Requests and the tick run on the server's threads, tokio's mutex is first *)
(* come first served, and an executor ends or times out.                     *)
SchedulerFairness ==
    /\ \A c \in Clients : SF_schedulerVars(Serve(c))
    /\ \A p \in Procs : SF_schedulerVars(RunStep(p))
    /\ SF_schedulerVars(TickStep)

SchedulerSpec == SchedulerInit /\ [][SchedulerNext]_schedulerVars /\ SchedulerFairness

-----------------------------------------------------------------------------
(* Properties. *)

(* schedule_lock: while the tick holds it, what it read as due stays true:  *)
(* nobody else changes the file (time apart).  And write_schedules writes   *)
(* all of it: as long as no write was cut short, a schedule leaves the file *)
(* only by a delete request for it.                                         *)
SameButForTime(s) ==
    \/ ~Present(s) /\ file'[s] = file[s]
    \/ /\ Present(s) /\ Present(s)'
       /\ file'[s].enabled = file[s].enabled
       /\ file'[s].history = file[s].history
       /\ file'[s].trigger.kind = file[s].trigger.kind

Deleting(s) == \E c \in Clients :
    proc[c].op = "delete" /\ proc[c].id = s /\ proc[c].step = "serve"

ScheduleFileIsKept == [][
    \A s \in Schedules :
        /\ scheduleLock = Tick => SameButForTime(s)
        /\ Present(s) /\ ~Present(s)' /\ ~torn => Deleting(s) ]_schedulerVars

(* run_schedule_by_id reads again before it records: a run that outlives an *)
(* edit neither brings a deleted schedule back, nor resumes a paused one,   *)
(* nor puts an old trigger back.                                            *)
Recording(s) == \E p \in Procs :
    proc[p].step = "record" /\ proc[p].id = s /\ proc'[p].step = "idle"

EditsOutliveRuns == [][
    \A s \in Schedules : file[s] # file'[s] /\ Recording(s)
        /\ ~(\E c \in Clients : proc[c].step = "serve" /\ proc'[c].step = "idle") =>
        /\ Present(s) /\ Present(s)'
        /\ file'[s].enabled => file[s].enabled
        /\ file'[s].trigger = file[s].trigger ]_schedulerVars

(* run_schedule_by_id: the history holds every recorded run, up to its      *)
(* limit; no concurrent run or edit makes one disappear.                    *)
HistoryCountsRuns ==
    \A s \in Schedules :
        Present(s) => file[s].history = Least(MaxHistory, recorded[s])

(* The records of schedules: within their types, with the history they had. *)
ScheduleRecordsAreSound == SchedulerTypeOK /\ HistoryCountsRuns

(* architecture.md:92: the scheduler "works out what is due and triggers it  *)
(* one by one": a due schedule is run, or stops being due.                   *)
DueSchedulesRun ==
    \A s \in Schedules :
        (s \in DueNow) ~> (s \notin DueNow \/ proc[Tick].step = "execute")
=============================================================================
