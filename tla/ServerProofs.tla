---------------------------- MODULE ServerProofs ----------------------------
(***************************************************************************)
(* Theorems about the components of the server and of its supervisor, for  *)
(* every value of their constants: the scheduler, the registry of          *)
(* extensions, what they contribute, the configuration of an instance, the *)
(* files of agents and endpoints, the packages of skills, skills at work   *)
(* and the supervisor; and about the run of all of them.                   *)
(***************************************************************************)
EXTENDS MCServer, PermissionGateProofs, SequenceTheorems, FiniteSetTheorems

-----------------------------------------------------------------------------
(* Records and what the handlers make of them. *)

(* A schedule that is absent is no record. *)
LEMMA AbsentIsNoRecord ==
    /\ Unborn \notin Records /\ Gone \notin Records /\ Unborn # Gone
  <1>1. ASSUME NEW r \in Records PROVE "enabled" \in DOMAIN r
    BY DEF Records
  <1>2. "enabled" \notin DOMAIN Unborn /\ "enabled" \notin DOMAIN Gone
    BY DEF Unborn, Gone
  <1>3. Unborn.absent # Gone.absent
    BY DEF Unborn, Gone
  <1> QED
    BY <1>1, <1>2, <1>3

LEMMA TriggersAre ==
    ASSUME NEW trigger \in Triggers
    PROVE  /\ trigger.at \in Times
           /\ \A enabled \in BOOLEAN : NextRunAt(trigger, enabled) \in Times
  BY DEF Triggers, Times, NextRunAt

LEMMA LeastIs ==
    ASSUME NEW m \in Nat, NEW n \in Nat
    PROVE  /\ Least(m, n) \in 0..m /\ Least(m, n) <= n
           /\ n <= m => Least(m, n) = n
           /\ m <= n => Least(m, n) = m
  BY DEF Least

(* advance_schedule: the record stays one, with its trigger and history, and *)
(* is not enabled by it.                                                     *)
LEMMA AdvancedIs ==
    ASSUME NEW r \in Records
    PROVE  /\ Advanced(r) \in Records
           /\ Advanced(r).history = r.history /\ Advanced(r).trigger = r.trigger
           /\ Advanced(r).enabled => r.enabled
  BY TriggersAre DEF Advanced, Records, Times

LEMMA CreatedIs ==
    ASSUME NEW b \in Drafts
    PROVE  Created(b) \in Records /\ Created(b).history = 0
  <1>1. b.trigger \in Triggers /\ b.enabled \in BOOLEAN
    BY DraftFields
  <1> QED
    BY <1>1, TriggersAre, SchedulerAssumption DEF Created, Records

(* An edit that does not delete leaves a record with the history it had. *)
LEMMA EditedIs ==
    ASSUME NEW r \in Records, NEW b \in Drafts, NEW op \in {"update", "pause", "resume"}
    PROVE  Edited(op, r, b) \in Records /\ Edited(op, r, b).history = r.history
  <1>1. b.trigger \in Triggers /\ b.enabled \in BOOLEAN /\ r.trigger \in Triggers
    BY DraftFields DEF Records
  <1>2. CASE op = "update"
    <2>1. Edited(op, r, b) = [r EXCEPT !.trigger = b.trigger, !.enabled = b.enabled,
                                       !.next = NextRunAt(b.trigger, b.enabled)]
      BY <1>2 DEF Edited
    <2> QED BY <2>1, <1>1, TriggersAre DEF Records
  <1>3. CASE op = "pause"
    <2>1. Edited(op, r, b) = [r EXCEPT !.enabled = FALSE, !.next = "never"]
      BY <1>3 DEF Edited
    <2> QED BY <2>1 DEF Records, Times
  <1>4. CASE op = "resume"
    <2>1. Edited(op, r, b) = [r EXCEPT !.enabled = TRUE, !.next = NextRunAt(r.trigger, TRUE)]
      BY <1>4 DEF Edited
    <2> QED BY <2>1, <1>1, TriggersAre DEF Records
  <1> QED
    BY <1>2, <1>3, <1>4

(* The clock moves two times of a record and nothing else of it. *)
LEMMA PassedIs ==
    ASSUME NEW s \in Schedules, TimePasses(s),
           file \in [Schedules -> Records \cup {Unborn, Gone}]
    PROVE  /\ file' \in [Schedules -> Records \cup {Unborn, Gone}]
           /\ \A t \in Schedules \ {s} : file'[t] = file[t]
           /\ file[s] \in Records /\ file'[s] \in Records
           /\ file'[s].enabled = file[s].enabled
           /\ file'[s].history = file[s].history
           /\ file'[s].trigger.kind = file[s].trigger.kind
  <1> DEFINE Passed(at) == IF at = "later" THEN "due" ELSE at
             r == [file[s] EXCEPT !.next = Passed(@)]
             q == [r EXCEPT !.trigger.at = Passed(@)]
  <1>1. file[s] \in Records
    BY DEF TimePasses, Present
  <1>2. r \in Records /\ r.trigger = file[s].trigger /\ r.enabled = file[s].enabled
        /\ r.history = file[s].history
    BY <1>1 DEF Records, Times
  <1>3. file' = [file EXCEPT ![s] = IF r.trigger.kind = "interval" THEN r ELSE q]
    BY DEF TimePasses
  <1>4. CASE r.trigger.kind = "interval"
    <2> HIDE DEF r, q
    <2> QED BY <1>1, <1>2, <1>3, <1>4
  <1>5. CASE r.trigger.kind # "interval"
    <2> DEFINE trigger == [r.trigger EXCEPT !.at = Passed(@)]
    <2>1. trigger \in Triggers /\ trigger.kind = r.trigger.kind
      <3>1. r.trigger \in [kind : {"once", "cron"}, at : Times]
        BY <1>2, <1>5 DEF Records, Triggers
      <3>2. trigger \in [kind : {"once", "cron"}, at : Times]
        BY <3>1 DEF Times
      <3> QED BY <3>1, <3>2 DEF Triggers
    <2>2. q = [r EXCEPT !.trigger = trigger]
      OBVIOUS
    <2> HIDE DEF r, q, trigger
    <2>3. /\ q \in Records /\ q.trigger = trigger /\ q.enabled = r.enabled
          /\ q.history = r.history
      BY <1>2, <2>1, <2>2 DEF Records
    <2> QED BY <1>1, <1>2, <1>3, <1>5, <2>1, <2>3
  <1> QED
    BY <1>4, <1>5

-----------------------------------------------------------------------------
(* The inductive invariant. *)

(* A run has attempts left while it executes. *)
AttemptsLeft ==
    \A p \in Procs :
        /\ proc[p].step = "copy" => proc[p].attempt = 0
        /\ proc[p].step = "execute" => proc[p].attempt < MaxAttempts

(* An identifier nobody created has no runs. *)
UnbornNeverRan == \A s \in Schedules : file[s] = Unborn => recorded[s] = 0

SchedulerInv ==
    /\ SchedulerTypeOK
    /\ AttemptsLeft
    /\ UnbornNeverRan
    /\ HistoryCountsRuns

LEMMA IdleIs == Idle \in States /\ Idle.step = "idle" /\ Idle.attempt = 0
  <1>1. (CHOOSE s \in Schedules : TRUE) \in Schedules
    BY SchedulerAssumption
  <1>2. (CHOOSE b \in Drafts : TRUE) \in Drafts
    BY SchedulerAssumption
  <1> QED
    BY <1>1, <1>2, SchedulerAssumption DEF Idle, States, Operations

LEMMA SchedulerInitially == SchedulerInit => SchedulerInv
  <1> SUFFICES ASSUME SchedulerInit PROVE SchedulerInv
    OBVIOUS
  <1> USE SchedulerAssumption DEF SchedulerInit
  <1>1. SchedulerTypeOK
    <2>1. proc \in [Procs -> States]
      BY IdleIs
    <2>2. file \in [Schedules -> Records \cup {Unborn, Gone}]
      OBVIOUS
    <2>3. recorded \in [Schedules -> 0..MaxRecorded] /\ restarts \in 0..MaxRestarts
      OBVIOUS
    <2> QED BY <2>1, <2>2, <2>3 DEF SchedulerTypeOK
  <1>2. AttemptsLeft
    BY IdleIs DEF AttemptsLeft
  <1>3. UnbornNeverRan /\ HistoryCountsRuns
    BY DEF UnbornNeverRan, HistoryCountsRuns, Present
  <1> QED
    BY <1>1, <1>2, <1>3 DEF SchedulerInv

(* The state the processes are in after each step. *)
LEMMA ProcsKept ==
    ASSUME SchedulerInv, [SchedulerNext]_schedulerVars
    PROVE  /\ proc' \in [Procs -> States]
           /\ AttemptsLeft'
  <1> DEFINE Good(x) == /\ x \in States
                        /\ x.step = "copy" => x.attempt = 0
                        /\ x.step = "execute" => x.attempt < MaxAttempts
  <1>1. proc \in [Procs -> States] /\ \A p \in Procs : Good(proc[p])
    BY DEF SchedulerInv, SchedulerTypeOK, AttemptsLeft
  <1>2. Good(Idle)
    BY IdleIs
  <1>3. ASSUME NEW p \in Procs, NEW x, Good(x), proc' = [proc EXCEPT ![p] = x]
        PROVE  proc' \in [Procs -> States] /\ AttemptsLeft'
    <2>1. \A q \in Procs : Good(proc'[q])
      <3> HIDE DEF Good
      <3> QED BY <1>1, <1>3
    <2>2. proc' \in [Procs -> States]
      BY <1>1, <1>3
    <2> QED BY <2>1, <2>2 DEF AttemptsLeft
  <1>4. ASSUME NEW c \in Clients, NEW op \in Operations, NEW s \in Schedules, NEW b \in Drafts,
               Request(c, op, s, b)
        PROVE  proc' \in [Procs -> States] /\ AttemptsLeft'
    <2> DEFINE step == IF op = "run" THEN "copy" ELSE "serve"
               x == [Idle EXCEPT !.step = step, !.op = op, !.id = s, !.payload = b]
    <2>1. Good(x)
      <3>1. step \in {"copy", "serve"}
        OBVIOUS
      <3> HIDE DEF step
      <3> QED BY <3>1, IdleIs DEF States
    <2>2. proc' = [proc EXCEPT ![c] = x] /\ c \in Procs
      BY <1>4 DEF Request, Procs
    <2> HIDE DEF Good, x
    <2> QED BY <1>3, <2>1, <2>2
  <1>5. ASSUME NEW c \in Clients, Serve(c) \/ Drop(c)
        PROVE  proc' \in [Procs -> States] /\ AttemptsLeft'
    <2>1. proc' = [proc EXCEPT ![c] = Idle] /\ c \in Procs
      BY <1>5 DEF Serve, Drop, Procs
    <2> HIDE DEF Good
    <2> QED BY <1>2, <1>3, <2>1
  <1>6. ASSUME NEW p \in Procs, Copy(p)
        PROVE  proc' \in [Procs -> States] /\ AttemptsLeft'
    <2>1. CASE Found(proc[p].id)
      <3> DEFINE x == [proc[p] EXCEPT !.step = "execute", !.copy = file[proc[p].id]]
      <3>1. file[proc[p].id] \in Records
        BY <1>1, <2>1 DEF Found, Present, SchedulerInv, SchedulerTypeOK, States
      <3>2. Good(x)
        <4>1. proc[p] \in States /\ proc[p].attempt = 0
          BY <1>1, <1>6 DEF Copy
        <4>2. x \in States /\ x.step = "execute" /\ x.attempt = 0
          BY <3>1, <4>1 DEF States
        <4> HIDE DEF x
        <4> QED BY <4>2, SchedulerAssumption
      <3>3. proc' = [proc EXCEPT ![p] = x]
        BY <1>6, <2>1 DEF Copy
      <3> HIDE DEF Good, x
      <3> QED BY <1>3, <3>2, <3>3
    <2>2. CASE ~Found(proc[p].id)
      <3>1. proc' = [proc EXCEPT ![p] = Idle]
        BY <1>6, <2>2 DEF Copy
      <3> HIDE DEF Good
      <3> QED BY <1>2, <1>3, <3>1
    <2> QED BY <2>1, <2>2
  <1>7. ASSUME NEW p \in Procs, NEW outcome \in Outcomes, RunSchedule(p, outcome)
        PROVE  proc' \in [Procs -> States] /\ AttemptsLeft'
    <2> DEFINE attempt == proc[p].attempt + 1
    <2>1. attempt \in 0..MaxAttempts /\ proc[p] \in States
      BY <1>1, <1>7, SchedulerAssumption DEF RunSchedule, States
    <2>2. CASE outcome = "error"
      <3>1. proc' = [proc EXCEPT ![p] = Idle]
        BY <1>7, <2>2 DEF RunSchedule
      <3> HIDE DEF Good
      <3> QED BY <1>2, <1>3, <3>1
    <2>3. CASE outcome # "error" /\ outcome = "failed" /\ attempt < MaxAttempts
      <3> DEFINE x == [proc[p] EXCEPT !.attempt = attempt]
      <3>1. proc' = [proc EXCEPT ![p] = x]
        BY <1>7, <2>3 DEF RunSchedule
      <3>2. Good(x)
        <4> HIDE DEF attempt
        <4>1. proc[p].step = "execute"
          BY <1>7 DEF RunSchedule
        <4> QED BY <2>1, <2>3, <4>1 DEF States
      <3> HIDE DEF Good, x
      <3> QED BY <1>3, <3>1, <3>2
    <2>4. CASE outcome # "error" /\ ~(outcome = "failed" /\ attempt < MaxAttempts)
      <3> DEFINE x == [proc[p] EXCEPT !.attempt = attempt, !.step = "record"]
      <3>1. proc' = [proc EXCEPT ![p] = x]
        BY <1>7, <2>4 DEF RunSchedule
      <3>2. Good(x)
        <4> HIDE DEF attempt
        <4> QED BY <2>1 DEF States
      <3> HIDE DEF Good, x
      <3> QED BY <1>3, <3>1, <3>2
    <2> QED BY <2>2, <2>3, <2>4
  <1>8. ASSUME NEW p \in Procs, Record(p)
        PROVE  proc' \in [Procs -> States] /\ AttemptsLeft'
    <2>1. proc' = [proc EXCEPT ![p] = Idle]
      BY <1>8 DEF Record
    <2> HIDE DEF Good
    <2> QED BY <1>2, <1>3, <2>1
  <1>9. ASSUME NEW s \in Schedules, RunDue(s)
        PROVE  proc' \in [Procs -> States] /\ AttemptsLeft'
    <2> DEFINE x == [Idle EXCEPT !.step = "copy", !.op = "run", !.id = s]
    <2>1. Good(x)
      BY IdleIs DEF States, Operations
    <2>2. proc' = [proc EXCEPT ![Tick] = x] /\ Tick \in Procs
      BY <1>9 DEF RunDue, Procs
    <2> HIDE DEF Good, x
    <2> QED BY <1>3, <2>1, <2>2
  <1>10. CASE SchedulerRestarts
    <2>1. proc' = [p \in Procs |-> Idle]
      BY <1>10 DEF SchedulerRestarts
    <2> QED BY <1>2, <2>1 DEF AttemptsLeft
  <1>11. CASE UNCHANGED proc
    BY <1>1, <1>11 DEF AttemptsLeft
  <1>12. Idle.payload \in Drafts /\ Drafting \subseteq Operations
    BY IdleIs DEF States, Drafting, Operations
  <1> QED
    BY <1>4, <1>5, <1>6, <1>7, <1>8, <1>9, <1>10, <1>11, <1>12
    DEF SchedulerNext, RunStep, TickStep, StartTick, EndTick, TimePasses, schedulerVars

-----------------------------------------------------------------------------
(* The file. *)

(* A record is edited and keeps its history. *)
RecordKept(s) ==
    /\ file[s] \in Records /\ file'[s] \in Records
    /\ file'[s].history = file[s].history

(* Serving a request: one schedule is created, edited or deleted, and the    *)
(* others stay unless the file was torn.                                     *)
LEMMA ServeWrites ==
    ASSUME SchedulerTypeOK, NEW c \in Clients, Serve(c)
    PROVE  /\ file' \in [Schedules -> Records \cup {Unborn, Gone}]
           /\ torn' \in BOOLEAN
           /\ \A s \in Schedules :
                \/ file'[s] = file[s]
                \/ torn /\ file[s] # Unborn /\ file'[s] = Gone
                \/ /\ file[s] = Unborn /\ file'[s] \in Records /\ file'[s].history = 0
                \/ RecordKept(s)
                \/ file[s] \in Records /\ file'[s] = Gone /\ Deleting(s)
  <1> DEFINE op == proc[c].op
             i  == proc[c].id
             b  == proc[c].payload
             Slots == Records \cup {Unborn, Gone}
             Goal == /\ file' \in [Schedules -> Records \cup {Unborn, Gone}]
                     /\ torn' \in BOOLEAN
                     /\ \A s \in Schedules :
                          \/ file'[s] = file[s]
                          \/ torn /\ file[s] # Unborn /\ file'[s] = Gone
                          \/ /\ file[s] = Unborn /\ file'[s] \in Records /\ file'[s].history = 0
                          \/ RecordKept(s)
                          \/ file[s] \in Records /\ file'[s] = Gone /\ Deleting(s)
  <1>1. /\ proc[c] \in States /\ i \in Schedules /\ b \in Drafts /\ op \in Operations
        /\ file \in [Schedules -> Slots] /\ torn \in BOOLEAN
    BY DEF SchedulerTypeOK, Procs, States
  <1>2. /\ View \in [Schedules -> Slots]
        /\ \A s \in Schedules :
              \/ View[s] = file[s]
              \/ torn /\ file[s] # Unborn /\ View[s] = Gone
    BY <1>1 DEF View
  <1>3. ASSUME NEW x \in Slots, Write([View EXCEPT ![i] = x])
        PROVE  /\ file' \in [Schedules -> Slots] /\ torn' \in BOOLEAN /\ file'[i] = x
               /\ \A s \in Schedules \ {i} :
                    \/ file'[s] = file[s]
                    \/ torn /\ file[s] # Unborn /\ file'[s] = Gone
    BY <1>1, <1>2, <1>3 DEF Write
  <1>4. CASE op = "create" /\ file[i] = Unborn /\ Write([View EXCEPT ![i] = Created(b)])
    <2>1. Created(b) \in Records /\ Created(b).history = 0
      BY <1>1, CreatedIs
    <2> QED BY <1>1, <1>3, <1>4, <2>1
  <1>5. CASE /\ op \in {"update", "pause", "resume", "delete"} /\ Found(i)
             /\ Write([View EXCEPT ![i] = Edited(op, file[i], b)])
    <2>1. file[i] \in Records
      BY <1>1, <1>5 DEF Found, Present
    <2>2. CASE op = "delete"
      <3>1. Edited(op, file[i], b) = Gone
        BY <2>2 DEF Edited
      <3>2. Deleting(i)
        BY <2>2 DEF Deleting, Serve
      <3> QED BY <1>1, <1>3, <1>5, <2>1, <3>1, <3>2
    <2>3. CASE op # "delete"
      <3>1. /\ Edited(op, file[i], b) \in Records
            /\ Edited(op, file[i], b).history = file[i].history
        <4>1. op \in {"update", "pause", "resume"}
          BY <1>5, <2>3
        <4> HIDE DEF op, i, b
        <4> QED BY <1>1, <2>1, <4>1, EditedIs
      <3> QED BY <1>1, <1>3, <1>5, <2>1, <3>1 DEF RecordKept
    <2> QED BY <2>2, <2>3
  <1>6. CASE UNCHANGED <<file, torn>>
    BY <1>1, <1>6
  <1> QED
    BY <1>4, <1>5, <1>6 DEF Serve

(* Recording a run: the record that the file holds is advanced, if any. *)
LEMMA RecordWrites ==
    ASSUME SchedulerTypeOK, NEW p \in Procs, Record(p)
    PROVE  LET i == proc[p].id IN
           /\ i \in Schedules
           /\ \/ UNCHANGED <<file, torn, recorded>>
              \/ /\ file \in [Schedules -> Records \cup {Unborn, Gone}]
                 /\ file' \in [Schedules -> Records \cup {Unborn, Gone}]
                 /\ ~torn /\ torn' = FALSE
                 /\ file[i] \in Records /\ file'[i] \in Records
                 /\ file'[i].history = Least(MaxHistory, file[i].history + 1)
                 /\ file'[i].trigger = file[i].trigger
                 /\ file'[i].enabled => file[i].enabled
                 /\ \A s \in Schedules \ {i} : file'[s] = file[s]
                 /\ recorded' = [recorded EXCEPT ![i] = Least(MaxRecorded, @ + 1)]
  <1> DEFINE i == proc[p].id
             r == [file[i] EXCEPT !.history = Least(MaxHistory, @ + 1)]
  <1>1. i \in Schedules /\ file \in [Schedules -> Records \cup {Unborn, Gone}]
    BY DEF SchedulerTypeOK, States
  <1>2. CASE Found(i) /\ Write([file EXCEPT ![i] = Advanced(r)])
             /\ recorded' = [recorded EXCEPT ![i] = Least(MaxRecorded, @ + 1)]
    <2>1. file[i] \in Records /\ ~torn
      BY <1>1, <1>2 DEF Found, Present
    <2>2. Least(MaxHistory, file[i].history + 1) \in 0..MaxHistory
      <3>1. file[i].history \in 0..MaxHistory /\ MaxHistory \in Nat
        BY <2>1, SchedulerAssumption DEF Records
      <3> HIDE DEF i
      <3> QED BY <3>1, LeastIs
    <2>3. /\ r \in Records /\ r.history = Least(MaxHistory, file[i].history + 1)
          /\ r.trigger = file[i].trigger /\ r.enabled = file[i].enabled
      BY <2>1, <2>2 DEF Records
    <2> HIDE DEF r
    <2>4. /\ Advanced(r) \in Records
          /\ Advanced(r).history = r.history /\ Advanced(r).trigger = r.trigger
          /\ Advanced(r).enabled => r.enabled
      BY <2>3, AdvancedIs
    <2> HIDE DEF i
    <2>5. /\ file' \in [Schedules -> Records \cup {Unborn, Gone}] /\ torn' = FALSE
          /\ file'[i] = Advanced(r)
          /\ \A s \in Schedules \ {i} : file'[s] = file[s]
      BY <1>1, <1>2, <2>4 DEF Write
    <2> QED BY <1>1, <1>2, <2>1, <2>3, <2>4, <2>5 DEF i
  <1>3. CASE UNCHANGED <<file, torn, recorded>>
    BY <1>1, <1>3
  <1> QED
    BY <1>2, <1>3 DEF Record, Current

LEMMA FileTypeKept ==
    ASSUME SchedulerInv, [SchedulerNext]_schedulerVars
    PROVE  SchedulerTypeOK'
  <1> USE SchedulerAssumption
  <1>1. SchedulerTypeOK /\ proc' \in [Procs -> States]
    BY ProcsKept DEF SchedulerInv
  <1>2. ASSUME NEW c \in Clients, Serve(c) PROVE SchedulerTypeOK'
    BY <1>1, <1>2, ServeWrites DEF Serve, SchedulerTypeOK
  <1>3. ASSUME NEW p \in Procs, Record(p) PROVE SchedulerTypeOK'
    <2>1. \A n \in Nat : Least(MaxRecorded, n + 1) \in 0..MaxRecorded
      BY LeastIs
    <2>2. recorded' \in [Schedules -> 0..MaxRecorded]
      <3> DEFINE i == proc[p].id
      <3>1. \/ recorded' = recorded
            \/ recorded' = [recorded EXCEPT ![i] = Least(MaxRecorded, @ + 1)]
        BY <1>1, <1>3, RecordWrites
      <3> HIDE DEF i
      <3> QED BY <1>1, <2>1, <3>1 DEF SchedulerTypeOK
    <2>3. file' \in [Schedules -> Records \cup {Unborn, Gone}] /\ torn' \in BOOLEAN
      BY <1>1, <1>3, RecordWrites DEF SchedulerTypeOK
    <2>4. UNCHANGED <<scheduleLock, dueIds, restarts>>
      BY <1>3 DEF Record
    <2> QED BY <1>1, <2>2, <2>3, <2>4 DEF SchedulerTypeOK
  <1>4. ASSUME NEW s \in Schedules, TimePasses(s) PROVE SchedulerTypeOK'
    BY <1>1, <1>4, PassedIs DEF TimePasses, SchedulerTypeOK
  <1>5. CASE SchedulerRestarts
    <2>1. /\ restarts < MaxRestarts /\ restarts' = restarts + 1
          /\ scheduleLock' = Free /\ dueIds' = {}
          /\ UNCHANGED <<file, recorded>>
      BY <1>5 DEF SchedulerRestarts
    <2>2. torn' \in BOOLEAN
      <3>1. torn' = torn \/ torn' = (torn \/ Writing)
        BY <1>5 DEF SchedulerRestarts
      <3>2. (torn \/ Writing) = TRUE \/ (torn \/ Writing) = FALSE
        BY Zenon
      <3> QED BY <1>1, <3>1, <3>2 DEF SchedulerTypeOK
    <2> QED BY <1>1, <2>1, <2>2 DEF SchedulerTypeOK
  <1>6. CASE UNCHANGED <<file, torn, recorded, restarts>> /\ scheduleLock' \in {Free, Tick}
             /\ dueIds' \subseteq Schedules
    BY <1>1, <1>6 DEF SchedulerTypeOK
  <1>7. ASSUME NEW s \in Schedules, RunDue(s) PROVE SchedulerTypeOK'
    BY <1>1, <1>6, <1>7 DEF RunDue, SchedulerTypeOK
  <1>8. CASE StartTick \/ EndTick
    BY <1>1, <1>6, <1>8 DEF StartTick, EndTick, DueNow, SchedulerTypeOK
  <1>9. CASE UNCHANGED <<file, torn, scheduleLock, dueIds, recorded, restarts>>
    BY <1>1, <1>6, <1>9 DEF SchedulerTypeOK
  <1> QED
    BY <1>2, <1>3, <1>4, <1>5, <1>7, <1>8, <1>9
    DEF SchedulerNext, RunStep, TickStep, Request, Drop, Copy, RunSchedule, schedulerVars

LEMMA HistoryKept ==
    ASSUME SchedulerInv, [SchedulerNext]_schedulerVars
    PROVE  UnbornNeverRan' /\ HistoryCountsRuns'
  <1> USE SchedulerAssumption
  <1> DEFINE Counts(s) == /\ file[s] = Unborn => recorded[s] = 0
                          /\ Present(s) => file[s].history = Least(MaxHistory, recorded[s])
  <1>1. /\ SchedulerTypeOK /\ \A s \in Schedules : Counts(s) /\ recorded[s] \in 0..MaxRecorded
        /\ file \in [Schedules -> Records \cup {Unborn, Gone}]
    BY DEF SchedulerInv, SchedulerTypeOK, UnbornNeverRan, HistoryCountsRuns
  <1>2. ASSUME NEW s \in Schedules, file'[s] = file[s], recorded'[s] = recorded[s]
        PROVE  Counts(s)'
    BY <1>1, <1>2 DEF Present
  <1>3. Unborn # Gone /\ Unborn \notin Records /\ Gone \notin Records
    BY AbsentIsNoRecord
  <1>4. ASSUME NEW c \in Clients, Serve(c), NEW s \in Schedules
        PROVE  Counts(s)'
    <2>1. recorded' = recorded
      BY <1>4 DEF Serve
    <2>2. CASE file'[s] = file[s]
      BY <1>2, <2>1, <2>2
    <2>3. CASE file'[s] = Gone
      BY <1>3, <2>3 DEF Present
    <2>4. CASE file[s] = Unborn /\ file'[s] \in Records /\ file'[s].history = 0
      BY <1>1, <1>3, <2>1, <2>4, LeastIs
    <2>5. CASE RecordKept(s)
      BY <1>1, <1>3, <2>1, <2>5 DEF RecordKept, Present
    <2> QED BY <1>1, <1>4, <2>2, <2>3, <2>4, <2>5, ServeWrites
  <1>5. ASSUME NEW p \in Procs, Record(p), NEW s \in Schedules
        PROVE  Counts(s)'
    <2> DEFINE i == proc[p].id
    <2>1. i \in Schedules /\ recorded \in [Schedules -> 0..MaxRecorded]
      BY <1>1, <1>5 DEF SchedulerTypeOK, States
    <2>2. CASE UNCHANGED <<file, recorded>>
      BY <1>2, <2>2
    <2>3. CASE /\ file[i] \in Records /\ file'[i] \in Records
               /\ file'[i].history = Least(MaxHistory, file[i].history + 1)
               /\ \A t \in Schedules \ {i} : file'[t] = file[t]
               /\ recorded' = [recorded EXCEPT ![i] = Least(MaxRecorded, @ + 1)]
      <3> HIDE DEF i
      <3>1. CASE s # i
        BY <1>2, <2>1, <2>3, <3>1
      <3>2. CASE s = i
        <4>1. file[s].history = Least(MaxHistory, recorded[s]) /\ recorded[s] \in 0..MaxRecorded
          BY <1>1, <1>3, <2>3, <3>2 DEF Present
        <4>2. recorded'[s] = Least(MaxRecorded, recorded[s] + 1)
          BY <2>1, <2>3, <3>2
        <4>3. file'[s].history = Least(MaxHistory, recorded'[s])
          BY <2>3, <3>2, <4>1, <4>2 DEF Least
        <4> QED BY <1>3, <2>3, <3>2, <4>3
      <3> QED BY <3>1, <3>2
    <2> QED BY <1>1, <1>5, <2>2, <2>3, RecordWrites
  <1>6. ASSUME NEW t \in Schedules, TimePasses(t), NEW s \in Schedules
        PROVE  Counts(s)'
    <2>1. recorded' = recorded
      BY <1>6 DEF TimePasses
    <2> QED BY <1>1, <1>2, <1>3, <1>6, <2>1, PassedIs DEF Present
  <1>7. ASSUME UNCHANGED <<file, recorded>>, NEW s \in Schedules
        PROVE  Counts(s)'
    BY <1>2, <1>7
  <1> HIDE DEF Counts
  <1>8. ASSUME NEW s \in Schedules PROVE Counts(s)'
    BY <1>4, <1>5, <1>6, <1>7
    DEF SchedulerNext, RunStep, TickStep, Request, Drop, Copy, RunSchedule, StartTick, EndTick,
        RunDue, SchedulerRestarts, schedulerVars
  <1> QED
    BY <1>8 DEF UnbornNeverRan, HistoryCountsRuns, Counts

LEMMA SchedulerStep ==
    ASSUME SchedulerInv, [SchedulerNext]_schedulerVars
    PROVE  SchedulerInv'
  BY FileTypeKept, ProcsKept, HistoryKept DEF SchedulerInv

-----------------------------------------------------------------------------
(* What a step may do to the file. *)

LEMMA FileIsKept ==
    ASSUME SchedulerTypeOK, [SchedulerNext]_schedulerVars, NEW s \in Schedules
    PROVE  /\ scheduleLock = Tick => SameButForTime(s)
           /\ Present(s) /\ ~Present(s)' /\ ~torn => Deleting(s)
  <1>1. file \in [Schedules -> Records \cup {Unborn, Gone}]
    BY DEF SchedulerTypeOK
  <1>2. \A r \in Records : r # Unborn /\ r # Gone
    BY AbsentIsNoRecord
  <1>3. CASE file' = file
    BY <1>3 DEF SameButForTime, Present
  <1>4. ASSUME NEW c \in Clients, Serve(c)
        PROVE  /\ scheduleLock # Tick
               /\ Present(s) /\ ~Present(s)' /\ ~torn => Deleting(s)
    <2>1. scheduleLock # Tick
      BY <1>4, SchedulerAssumption DEF Serve
    <2>2. Present(s) => file[s] # Unborn
      BY DEF Present
    <2> QED BY <1>2, <1>4, <2>1, <2>2, ServeWrites DEF Present, RecordKept
  <1>5. ASSUME NEW p \in Procs, Record(p)
        PROVE  scheduleLock # Tick /\ (Present(s) => Present(s)')
    <2>1. scheduleLock # Tick
      BY <1>5, SchedulerAssumption DEF Record
    <2> QED BY <1>2, <1>5, <2>1, RecordWrites DEF Present
  <1>6. ASSUME NEW t \in Schedules, TimePasses(t)
        PROVE  SameButForTime(s) /\ (Present(s) => Present(s)')
    BY <1>1, <1>2, <1>6, PassedIs DEF Present, SameButForTime
  <1> QED
    BY <1>3, <1>4, <1>5, <1>6
    DEF SchedulerNext, RunStep, TickStep, Request, Drop, Copy, RunSchedule, StartTick, EndTick,
        RunDue, SchedulerRestarts, schedulerVars

LEMMA EditsAreKept ==
    ASSUME SchedulerTypeOK, [SchedulerNext]_schedulerVars, NEW s \in Schedules,
           file[s] # file'[s], Recording(s),
           ~(\E c \in Clients : proc[c].step = "serve" /\ proc'[c].step = "idle")
    PROVE  /\ Present(s) /\ Present(s)'
           /\ file'[s].enabled => file[s].enabled
           /\ file'[s].trigger = file[s].trigger
  <1>1. \A r \in Records : r # Unborn /\ r # Gone
    BY AbsentIsNoRecord
  <1>2. proc # proc'
    BY DEF Recording
  <1>3. ASSUME NEW c \in Clients, Serve(c) PROVE FALSE
    <2>1. proc[c].step = "serve" /\ proc'[c] = Idle
      BY <1>3 DEF Serve, SchedulerTypeOK, Procs
    <2> QED BY <2>1, IdleIs
  <1>4. PICK p \in Procs : Record(p)
    BY <1>2, <1>3
    DEF SchedulerNext, RunStep, TickStep, Request, Drop, Copy, RunSchedule, StartTick, EndTick,
        RunDue, TimePasses, SchedulerRestarts, schedulerVars
  <1> QED
    BY <1>1, <1>4, RecordWrites DEF Present

-----------------------------------------------------------------------------
(* The theorems. *)

(* Every reachable state of the scheduler satisfies the invariant. *)
THEOREM SchedulerInvariant == SchedulerSpec => []SchedulerInv
  BY SchedulerInitially, SchedulerStep, PTL DEF SchedulerSpec

(* run_schedule_by_id and write_schedules: records stay records, and the    *)
(* history of each holds every recorded run up to its limit, whatever       *)
(* requests, runs and restarts interleave.                                  *)
THEOREM RecordsAreSound == SchedulerSpec => []ScheduleRecordsAreSound
  <1>1. SchedulerInv => ScheduleRecordsAreSound
    BY DEF SchedulerInv, ScheduleRecordsAreSound
  <1> QED
    BY <1>1, SchedulerInvariant, PTL

(* schedule_lock and write_schedules: what the tick found stays so while it *)
(* holds the lock, and only a delete request takes a schedule out of a file *)
(* that parses.                                                             *)
THEOREM FileIsKeptAlways == SchedulerSpec => ScheduleFileIsKept
  <1>1. SchedulerInv /\ [SchedulerNext]_schedulerVars => ScheduleFileIsKept!1
    BY FileIsKept DEF SchedulerInv
  <1> QED
    BY <1>1, SchedulerInvariant, PTL DEF SchedulerSpec, ScheduleFileIsKept

(* run_schedule_by_id: a run that ends records into what the file holds by  *)
(* then, so no edit made meanwhile is undone.                               *)
THEOREM EditsAlwaysOutliveRuns == SchedulerSpec => EditsOutliveRuns
  <1>1. SchedulerInv /\ [SchedulerNext]_schedulerVars => EditsOutliveRuns!1
    BY EditsAreKept DEF SchedulerInv
  <1> QED
    BY <1>1, SchedulerInvariant, PTL DEF SchedulerSpec, EditsOutliveRuns

-----------------------------------------------------------------------------
(* The registry: the inductive invariant.                                    *)

RegFiles  == [entries : [ExtIds -> Flags], dev : [ExtIds -> Flags]]
Graphs    == [ExtIds -> Resolved \cup {Nobody}]
AdminOps  == {"none", "tick", "reload", "attach", "detach", "on", "off", "package", "dev"}
AdminCalls ==
    [step : {"idle", "empty", "write", "build", "invalidate", "swap", "answer", "dispatch"},
     op : AdminOps, ext : ExtIds \cup {"none"}, file : RegFiles, next : Graphs, gen : Nat,
     swapped : BOOLEAN, clean : BOOLEAN]
ExtEvents == [gen : Nat \ {0}, ext : ExtIds \cup {"graph"}]
Pools     == [mode : {"package", "dev", "none"}, late : BOOLEAN]
Viewers   == [on : BOOLEAN, told : BOOLEAN, gen : Nat, missed : BOOLEAN]

RegTypes ==
    /\ regFile \in RegFiles
    /\ sources \in [ExtIds -> [package : Contents, dev : Contents]]
    /\ graph \in [gen : Nat \ {0}, exts : Graphs]
    /\ extLog \in Seq(ExtEvents) /\ Len(extLog) \in 1..EventLimit
    /\ admins \in [Operators -> AdminCalls]
    /\ workerOf \in [ExtIds -> Pools]
    /\ viewer \in Viewers

(* A call names what it is about, and the generation of what it publishes. *)
Named(c) ==
    /\ c.step \in {"invalidate", "swap"} => c.gen # 0
    /\ c.op \in {"reload", "attach", "detach", "on", "off", "package", "dev"} => c.ext \in ExtIds
    /\ c.step = "dispatch" => c.op \in {"package", "dev"}
CallsName == \A a \in Operators : Named(admins[a])

(* Before a snapshot is published the pools it has no place for were closed, *)
(* or made again since.                                                      *)
ClosedBeforeSwap ==
    \A a \in Operators, x \in ExtIds :
       admins[a].step = "swap" =>
          workerOf[x].mode \in {"none", admins[a].next[x].mode} \/ workerOf[x].late

(* What a call writes into the registry file. *)
Wrote(op, x, reg) ==
    /\ op = "attach" => reg.dev[x] = "on"
    /\ op = "detach" => reg.dev[x] = "none"
    /\ op = "off" => reg.dev[x] # "on" /\ reg.entries[x] # "on"

(* A call that is alone finds what it wrote, and publishes what is there.    *)
CleanCall(c, reg, snapshot, shown) ==
    /\ c.step \in {"empty", "write"} => Wrote(c.op, c.ext, c.file)
    /\ c.step \in {"build", "invalidate", "swap", "answer"} => Wrote(c.op, c.ext, reg)
    /\ c.step \in {"invalidate", "swap"} => c.next = snapshot
    /\ c.step = "answer" => shown = snapshot
CleanCalls ==
    \A a \in Operators :
       admins[a].clean => /\ CleanCall(admins[a], regFile, BuildSnapshot, graph.exts)
                          /\ \A b \in Operators : b # a => admins[b].step = "idle"

RegistryInv ==
    /\ RegTypes
    /\ CallsName
    /\ LogEndsWithGraph
    /\ ViewersAreTold
    /\ LeakedWorkersStartedLate
    /\ ClosedBeforeSwap
    /\ CleanCalls

-----------------------------------------------------------------------------
(* The registry: snapshots, events and calls.                                *)

LEMMA SnapshotIs ==
    ASSUME RegTypes
    PROVE  /\ BuildSnapshot \in Graphs
           /\ \A x \in ExtIds : /\ regFile.dev[x] = "on" => BuildSnapshot[x].mode = "dev"
                                /\ regFile.dev[x] # "on" => BuildSnapshot[x].mode # "dev"
                                /\ regFile.dev[x] # "on" /\ regFile.entries[x] = "off" =>
                                      BuildSnapshot[x] = Nobody
                                /\ regFile.dev[x] # "on" => \/ BuildSnapshot[x] = Nobody
                                                            \/ BuildSnapshot[x].mode = "package"
  <1>1. \A content : HealthOf(content) \in {"ready", "degraded", "failed"}
    BY DEF HealthOf
  <1>2. ASSUME NEW x \in ExtIds
        PROVE  /\ Resolve(regFile, sources, x) \in Resolved \cup {Nobody}
               /\ regFile.dev[x] = "on" => Resolve(regFile, sources, x).mode = "dev"
               /\ regFile.dev[x] # "on" => Resolve(regFile, sources, x).mode # "dev"
               /\ regFile.dev[x] # "on" /\ regFile.entries[x] = "off" =>
                     Resolve(regFile, sources, x) = Nobody
               /\ regFile.dev[x] # "on" => \/ Resolve(regFile, sources, x) = Nobody
                                           \/ Resolve(regFile, sources, x).mode = "package"
    BY <1>1 DEF Resolve, Resolved, Nobody
  <1>3. \A x \in ExtIds : BuildSnapshot[x] = Resolve(regFile, sources, x)
    BY DEF BuildSnapshot
  <1>4. BuildSnapshot \in Graphs
    BY <1>2 DEF BuildSnapshot, Graphs
  <1> QED BY <1>2, <1>3, <1>4

LEMMA ListOf ==
    ASSUME NEW S, IsFiniteSet(S)
    PROVE  SetToSeq(S) \in Seq(S)
  <1>1. Cardinality(S) \in Nat /\ ExistsBijection(1..Cardinality(S), S)
    BY FS_CardinalityType
  <1>2. \E f \in [1..Cardinality(S) -> S] : IsInjective(f)
    BY <1>1 DEF ExistsBijection, Bijection, Injection
  <1>3. SetToSeq(S) \in [1..Cardinality(S) -> S]
    BY <1>2 DEF SetToSeq
  <1> QED BY <1>1, <1>3

LEMMA SwapIsLogged ==
    ASSUME NEW log \in Seq(ExtEvents), NEW gen \in Nat \ {0}, NEW exts
    PROVE  /\ LogSwap(log, gen, exts) \in Seq(ExtEvents)
           /\ Len(LogSwap(log, gen, exts)) \in 1..EventLimit
           /\ Last(LogSwap(log, gen, exts)) = [gen |-> gen, ext |-> "graph"]
  <1> DEFINE S     == {x \in ExtIds : exts[x] # Nobody}
             seen  == SetToSeq(S)
             first == [i \in DOMAIN seen |-> [gen |-> gen, ext |-> seen[i]]]
             own   == [gen |-> gen, ext |-> "graph"]
             all   == log \o (first \o <<own>>)
             n     == Len(all)
             k     == IF n > EventLimit THEN n - EventLimit + 1 ELSE 1
  <1>1. seen \in Seq(S)
    BY ListOf, FS_Subset, RegistryAssumption
  <1>2. first \in Seq(ExtEvents)
    <2>1. \A i \in DOMAIN seen : seen[i] \in ExtIds
      BY <1>1
    <2>2. DOMAIN seen = 1..Len(seen) /\ Len(seen) \in Nat
      BY <1>1
    <2> HIDE DEF seen
    <2> QED BY <2>1, <2>2 DEF ExtEvents
  <1>3. <<own>> \in Seq(ExtEvents) /\ Len(<<own>>) = 1 /\ <<own>>[1] = own
    BY DEF ExtEvents
  <1> HIDE DEF first, own
  <1>4. /\ all \in Seq(ExtEvents) /\ n \in Nat /\ n >= 1 /\ all[n] = own
    <2> DEFINE new == first \o <<own>>
    <2>1. /\ new \in Seq(ExtEvents) /\ Len(new) = Len(first) + 1 /\ Len(first) \in Nat
          /\ new[Len(new)] = own
      BY <1>2, <1>3
    <2> HIDE DEF new
    <2>2. /\ log \o new \in Seq(ExtEvents) /\ Len(log \o new) = Len(log) + Len(new)
          /\ Len(log) \in Nat /\ (log \o new)[Len(log) + Len(new)] = new[Len(new)]
      BY <2>1
    <2> QED BY <2>1, <2>2 DEF new
  <1>5. LogSwap(log, gen, exts) = SubSeq(all, k, n)
    BY DEF LogSwap, NewEvents, first, own
  <1> HIDE DEF all, n
  <1>6. k \in 1..n /\ n - k + 1 \in 1..EventLimit /\ k + (n - k + 1) - 1 = n
    BY <1>4, RegistryAssumption
  <1> HIDE DEF k
  <1>7. /\ SubSeq(all, k, n) \in Seq(ExtEvents) /\ Len(SubSeq(all, k, n)) = n - k + 1
        /\ SubSeq(all, k, n)[n - k + 1] = all[n]
    <2>1. \A i \in k..n : all[i] \in ExtEvents
      BY <1>4, <1>6 DEF n
    <2>2. k \in Int /\ n \in Int /\ k <= n /\ n - k + 1 \in 1..(n - k + 1)
      BY <1>4, <1>6
    <2>3. /\ SubSeq(all, k, n) \in Seq(ExtEvents)
          /\ Len(SubSeq(all, k, n)) = IF k <= n THEN n - k + 1 ELSE 0
          /\ \A i \in 1..(n - k + 1) : SubSeq(all, k, n)[i] = all[k + i - 1]
      BY <2>1, <2>2, SubSeqProperties
    <2> QED BY <1>6, <2>2, <2>3
  <1> QED BY <1>4, <1>5, <1>6, <1>7 DEF Last, own

LEMMA AdminFields ==
    ASSUME NEW c \in AdminCalls
    PROVE  /\ c.step \in {"idle", "empty", "write", "build", "invalidate", "swap", "answer",
                          "dispatch"}
           /\ c.op \in AdminOps /\ c.ext \in ExtIds \cup {"none"} /\ c.file \in RegFiles
           /\ c.next \in Graphs /\ c.gen \in Nat /\ c.swapped \in BOOLEAN /\ c.clean \in BOOLEAN
  BY DEF AdminCalls

LEMMA EmptyIs == EmptyFile \in RegFiles /\ NoGraph \in Graphs /\ AtRest \in AdminCalls
  <1>1. EmptyFile \in RegFiles
    BY DEF EmptyFile, RegFiles, Flags
  <1>2. NoGraph \in Graphs
    BY DEF NoGraph, Graphs
  <1> QED BY <1>1, <1>2 DEF AtRest, AdminCalls, AdminOps

LEMMA AtRestIs ==
    /\ AtRest.step = "idle" /\ AtRest.op = "none" /\ AtRest.gen = 0 /\ ~AtRest.swapped
    /\ ~AtRest.clean
  BY DEF AtRest

SameCall(c, d) ==
    /\ c.step = d.step /\ c.op = d.op /\ c.ext = d.ext /\ c.file = d.file
    /\ c.next = d.next /\ c.gen = d.gen /\ c.swapped = d.swapped

LEMMA StartsIs ==
    ASSUME RegTypes, NEW a \in Operators, NEW asked \in AdminCalls, StartsCall(a, asked)
    PROVE  /\ admins' \in [Operators -> AdminCalls] /\ admins[a].step = "idle"
           /\ SameCall(admins'[a], asked)
           /\ admins'[a].clean => \A c \in Operators : admins[c].step = "idle"
           /\ \A b \in Operators : b # a => SameCall(admins'[b], admins[b]) /\ ~admins'[b].clean
  <1>1. admins \in [Operators -> AdminCalls]
    BY DEF RegTypes
  <1>2. ASSUME NEW c \in AdminCalls, NEW flag \in BOOLEAN
        PROVE  /\ [c EXCEPT !.clean = flag] \in AdminCalls
               /\ SameCall([c EXCEPT !.clean = flag], c) /\ [c EXCEPT !.clean = flag].clean = flag
    BY DEF AdminCalls, SameCall
  <1>3. admins' = [b \in Operators |->
                     IF b = a
                     THEN [asked EXCEPT !.clean = \A c \in Operators : admins[c].step = "idle"]
                     ELSE [admins[b] EXCEPT !.clean = FALSE]]
    BY DEF StartsCall
  <1>4. (\A c \in Operators : admins[c].step = "idle") \in BOOLEAN
    OBVIOUS
  <1>5. /\ [asked EXCEPT !.clean = \A c \in Operators : admins[c].step = "idle"] \in AdminCalls
        /\ SameCall([asked EXCEPT !.clean = \A c \in Operators : admins[c].step = "idle"], asked)
        /\ [asked EXCEPT !.clean = \A c \in Operators : admins[c].step = "idle"].clean =>
              \A c \in Operators : admins[c].step = "idle"
    BY <1>2, <1>4
  <1>6. admins[a].step = "idle"
    BY DEF StartsCall
  <1>7. ASSUME NEW b \in Operators, b # a
        PROVE  admins'[b] \in AdminCalls /\ SameCall(admins'[b], admins[b]) /\ ~admins'[b].clean
    BY <1>1, <1>2, <1>3, <1>7
  <1>8. admins'[a] = [asked EXCEPT !.clean = \A c \in Operators : admins[c].step = "idle"]
    BY <1>3
  <1>9. admins' \in [Operators -> AdminCalls]
    <2>1. \A b \in Operators : admins'[b] \in AdminCalls
      BY <1>5, <1>7, <1>8
    <2> QED BY <1>3, <2>1
  <1> QED BY <1>5, <1>6, <1>7, <1>8, <1>9

LEMMA MovesIs ==
    ASSUME RegTypes, NEW a \in Operators, NEW c \in AdminCalls, admins' = [admins EXCEPT ![a] = c]
    PROVE  /\ admins' \in [Operators -> AdminCalls] /\ admins'[a] = c
           /\ \A b \in Operators : b # a => admins'[b] = admins[b]
  BY DEF RegTypes

(* The registry: one step per action.                                        *)

(* A call begins: nothing else changes. *)
LEMMA StartKeeps ==
    ASSUME RegistryInv, NEW a \in Operators, NEW asked \in AdminCalls, StartsCall(a, asked),
           UNCHANGED <<regFile, sources, graph, extLog, workerOf, viewer>>,
           Named(asked), asked.step \in {"empty", "build", "dispatch"},
           asked.step = "empty" => Wrote(asked.op, asked.ext, asked.file),
           asked.step = "build" => Wrote(asked.op, asked.ext, regFile)
    PROVE  RegistryInv'
  <1>1. /\ admins' \in [Operators -> AdminCalls] /\ admins[a].step = "idle"
        /\ SameCall(admins'[a], asked)
        /\ admins'[a].clean => \A c \in Operators : admins[c].step = "idle"
        /\ \A b \in Operators : b # a => SameCall(admins'[b], admins[b]) /\ ~admins'[b].clean
    BY StartsIs DEF RegistryInv
  <1>2. RegTypes'
    BY <1>1 DEF RegistryInv, RegTypes
  <1>3. CallsName'
    BY <1>1 DEF RegistryInv, CallsName, Named, SameCall
  <1>4. LogEndsWithGraph'
    BY DEF RegistryInv, LogEndsWithGraph
  <1>5. ViewersAreTold'
    BY <1>1 DEF RegistryInv, ViewersAreTold, SameCall
  <1>6. LeakedWorkersStartedLate'
    BY <1>1 DEF RegistryInv, LeakedWorkersStartedLate, SameCall
  <1>7. ClosedBeforeSwap'
    BY <1>1 DEF RegistryInv, ClosedBeforeSwap, SameCall
  <1>8. CleanCalls'
    <2>1. ASSUME NEW b \in Operators, admins'[b].clean
          PROVE  /\ CleanCall(admins'[b], regFile', BuildSnapshot', graph'.exts)
                 /\ \A c \in Operators : c # b => admins'[c].step = "idle"
      <3>1. b = a
        BY <1>1, <2>1
      <3>2. CleanCall(admins'[a], regFile', BuildSnapshot', graph'.exts)
        BY <1>1 DEF CleanCall, SameCall, Wrote
      <3>3. \A c \in Operators : c # a => admins'[c].step = "idle"
        BY <1>1, <2>1, <3>1 DEF SameCall
      <3> QED BY <3>1, <3>2, <3>3
    <2> QED BY <2>1 DEF CleanCalls
  <1> QED BY <1>2, <1>3, <1>4, <1>5, <1>6, <1>7, <1>8 DEF RegistryInv

LEMMA RefreshKeeps ==
    ASSUME RegistryInv, NEW a \in Operators, Refresh(a)
    PROVE  RegistryInv'
  <1> DEFINE tick == [AtRest EXCEPT !.op = "tick", !.step = "build"]
             again(x) == [AtRest EXCEPT !.op = "reload", !.ext = x, !.step = "build"]
  <1>1. CASE StartsCall(a, tick)
    <2>1. tick \in AdminCalls /\ tick.step = "build" /\ tick.op = "tick"
      BY EmptyIs DEF AtRest, AdminCalls, AdminOps
    <2> HIDE DEF tick
    <2>2. Named(tick) /\ Wrote(tick.op, tick.ext, regFile)
      BY <2>1 DEF Named, Wrote
    <2> QED BY <1>1, <2>1, <2>2, StartKeeps DEF Refresh
  <1>2. ASSUME NEW x \in ExtIds, StartsCall(a, again(x)) PROVE RegistryInv'
    <2> DEFINE asked == again(x)
    <2>1. asked \in AdminCalls /\ asked.step = "build" /\ asked.op = "reload" /\ asked.ext = x
      BY EmptyIs DEF AtRest, AdminCalls, AdminOps
    <2>2. StartsCall(a, asked)
      BY <1>2
    <2> HIDE DEF asked, again
    <2>3. Named(asked) /\ Wrote(asked.op, asked.ext, regFile)
      BY <2>1 DEF Named, Wrote
    <2> QED BY <2>1, <2>2, <2>3, StartKeeps DEF Refresh
  <1> QED BY <1>1, <1>2 DEF Refresh

(* A call that edits the registry as it was read. *)
LEMMA EditKeeps ==
    ASSUME RegistryInv, NEW a \in Operators, NEW op \in {"attach", "detach", "on", "off"},
           NEW x \in ExtIds, NEW text \in RegFiles, Edits(a, op, x, text), Wrote(op, x, text)
    PROVE  RegistryInv'
  <1> DEFINE asked == [AtRest EXCEPT !.op = op, !.ext = x, !.step = "empty", !.file = text]
  <1>1. /\ asked \in AdminCalls /\ asked.step = "empty" /\ asked.op = op /\ asked.ext = x
        /\ asked.file = text
    BY EmptyIs DEF AtRest, AdminCalls, AdminOps
  <1>2. StartsCall(a, asked) /\ UNCHANGED <<regFile, sources, graph, extLog, workerOf, viewer>>
    BY DEF Edits
  <1> HIDE DEF asked
  <1>3. Named(asked)
    BY <1>1 DEF Named
  <1> QED BY <1>1, <1>2, <1>3, StartKeeps

LEMMA AttachKeeps ==
    ASSUME RegistryInv, NEW a \in Operators, NEW x \in ExtIds, AttachDevSource(a, x)
    PROVE  RegistryInv'
  <1> DEFINE text == [regFile EXCEPT !.dev[x] = "on"]
  <1>1. text \in RegFiles /\ text.dev[x] = "on"
    BY DEF RegistryInv, RegTypes, RegFiles, Flags
  <1>2. Wrote("attach", x, text)
    BY <1>1 DEF Wrote
  <1> QED BY <1>1, <1>2, EditKeeps DEF AttachDevSource

LEMMA DetachKeeps ==
    ASSUME RegistryInv, NEW a \in Operators, NEW x \in ExtIds, DetachDevSource(a, x)
    PROVE  RegistryInv'
  <1> DEFINE text == [regFile EXCEPT !.dev[x] = "none"]
  <1>1. text \in RegFiles /\ text.dev[x] = "none"
    BY DEF RegistryInv, RegTypes, RegFiles, Flags
  <1>2. Wrote("detach", x, text)
    BY <1>1 DEF Wrote
  <1> QED BY <1>1, <1>2, EditKeeps DEF DetachDevSource

LEMMA SetEnabledKeeps ==
    ASSUME RegistryInv, NEW a \in Operators, NEW x \in ExtIds, NEW flag \in {"on", "off"},
           SetExtensionEnabled(a, x, flag)
    PROVE  RegistryInv'
  <1> DEFINE Flagged(f) == IF f = "none" THEN f ELSE flag
             text == [entries |-> [regFile.entries EXCEPT ![x] = Flagged(@)],
                      dev |-> [regFile.dev EXCEPT ![x] = Flagged(@)]]
  <1>1. /\ regFile.entries \in [ExtIds -> Flags] /\ regFile.dev \in [ExtIds -> Flags]
        /\ flag \in Flags
    BY DEF RegistryInv, RegTypes, RegFiles, Flags
  <1>2. text \in RegFiles /\ text.dev[x] = Flagged(regFile.dev[x])
        /\ text.entries[x] = Flagged(regFile.entries[x])
    BY <1>1 DEF RegFiles
  <1>3. Wrote(flag, x, text)
    BY <1>2 DEF Wrote
  <1>4. Edits(a, flag, x, text)
    BY DEF SetExtensionEnabled
  <1> HIDE DEF text
  <1> QED BY <1>2, <1>3, <1>4, EditKeeps

LEMMA DispatchKeeps ==
    ASSUME RegistryInv, NEW a \in Operators, NEW x \in ExtIds, DispatchRpc(a, x)
    PROVE  RegistryInv'
  <1> DEFINE m    == graph.exts[x].mode
             asked == [AtRest EXCEPT !.op = m, !.ext = x, !.step = "dispatch"]
  <1>1. m \in {"package", "dev"}
    <2>1. graph.exts[x] \in Resolved
      BY DEF DispatchRpc, RegistryInv, RegTypes, Graphs
    <2> QED BY <2>1 DEF Resolved
  <1> HIDE DEF m
  <1>2. asked \in AdminCalls /\ asked.step = "dispatch" /\ asked.op = m /\ asked.ext = x
    BY <1>1, EmptyIs DEF AtRest, AdminCalls, AdminOps
  <1>3. StartsCall(a, asked) /\ UNCHANGED <<regFile, sources, graph, extLog, workerOf, viewer>>
    BY DEF DispatchRpc, m
  <1> HIDE DEF asked
  <1>4. Named(asked)
    BY <1>1, <1>2 DEF Named
  <1> QED BY <1>2, <1>3, <1>4, StartKeeps

(* Another call is under way: only it can be alone. *)
LEMMA OnlyTheMover ==
    ASSUME RegistryInv, NEW a \in Operators, NEW c \in AdminCalls, admins[a].step # "idle",
           admins' = [admins EXCEPT ![a] = c], c.clean => admins[a].clean,
           admins[a].clean => CleanCall(c, regFile', BuildSnapshot', graph'.exts)
    PROVE  CleanCalls'
  <1>1. /\ admins'[a] = c /\ \A b \in Operators : b # a => admins'[b] = admins[b]
    BY MovesIs DEF RegistryInv
  <1>2. ASSUME NEW b \in Operators, admins'[b].clean
        PROVE  /\ CleanCall(admins'[b], regFile', BuildSnapshot', graph'.exts)
               /\ \A d \in Operators : d # b => admins'[d].step = "idle"
    <2>1. b = a /\ admins[a].clean
      BY <1>1, <1>2 DEF RegistryInv, CleanCalls
    <2>2. \A d \in Operators : d # a => admins[d].step = "idle"
      BY <2>1 DEF RegistryInv, CleanCalls
    <2> QED BY <1>1, <2>1, <2>2
  <1> QED BY <1>2 DEF CleanCalls

LEMMA WriteFileKeeps ==
    ASSUME RegistryInv, NEW a \in Operators, WriteRegistryFile(a)
    PROVE  RegistryInv'
  <1> DEFINE q == admins[a]
             p == [q EXCEPT !.step = "write"]
             s == [q EXCEPT !.step = "build", !.file = EmptyFile]
  <1>1. /\ q \in AdminCalls /\ Named(q) /\ UNCHANGED <<sources, graph, extLog, workerOf, viewer>>
        /\ q.clean => CleanCall(q, regFile, BuildSnapshot, graph.exts)
    BY DEF RegistryInv, RegTypes, CallsName, CleanCalls, WriteRegistryFile
  <1>2. PICK c \in AdminCalls :
           /\ admins' = [admins EXCEPT ![a] = c] /\ q.step \in {"empty", "write"}
           /\ regFile' \in RegFiles /\ c.step \in {"write", "build"} /\ Named(c)
           /\ c.clean = q.clean /\ c.swapped = q.swapped
           /\ q.clean => CleanCall(c, regFile', BuildSnapshot', graph'.exts)
    <2>1. CASE q.step = "empty" /\ regFile' = EmptyFile /\ GoesTo(a, "write")
      <3>1. /\ p \in AdminCalls /\ p.step = "write" /\ p.op = q.op /\ p.ext = q.ext
            /\ p.file = q.file /\ p.clean = q.clean /\ p.swapped = q.swapped /\ p.gen = q.gen
        BY <1>1 DEF AdminCalls
      <3>2. admins' = [admins EXCEPT ![a] = p]
        BY <2>1 DEF GoesTo
      <3> HIDE DEF p
      <3>3. Named(p)
        BY <1>1, <3>1 DEF Named
      <3>4. q.clean => CleanCall(p, regFile', BuildSnapshot', graph'.exts)
        BY <1>1, <2>1, <3>1 DEF CleanCall
      <3> QED BY <2>1, <3>1, <3>2, <3>3, <3>4, EmptyIs
    <2>2. CASE q.step = "write" /\ regFile' = q.file /\ admins' = [admins EXCEPT ![a] = s]
      <3>1. /\ s \in AdminCalls /\ s.step = "build" /\ s.op = q.op /\ s.ext = q.ext
            /\ s.clean = q.clean /\ s.swapped = q.swapped /\ s.gen = q.gen
        BY <1>1, EmptyIs DEF AdminCalls
      <3> HIDE DEF s
      <3>2. Named(s)
        BY <1>1, <3>1 DEF Named
      <3>3. q.clean => CleanCall(s, regFile', BuildSnapshot', graph'.exts)
        BY <1>1, <2>2, <3>1 DEF CleanCall
      <3>4. q.file \in RegFiles
        BY <1>1, AdminFields
      <3> QED BY <2>2, <3>1, <3>2, <3>3, <3>4
    <2> QED BY <2>1, <2>2 DEF WriteRegistryFile
  <1>3. /\ admins' \in [Operators -> AdminCalls] /\ admins'[a] = c
        /\ \A b \in Operators : b # a => admins'[b] = admins[b]
    BY <1>2, MovesIs DEF RegistryInv
  <1>4. RegTypes' /\ CallsName' /\ LogEndsWithGraph'
    BY <1>1, <1>2, <1>3 DEF RegistryInv, RegTypes, CallsName, LogEndsWithGraph
  <1>5. ViewersAreTold' /\ LeakedWorkersStartedLate' /\ ClosedBeforeSwap'
    BY <1>1, <1>2, <1>3 DEF RegistryInv, ViewersAreTold, LeakedWorkersStartedLate, ClosedBeforeSwap
  <1>6. CleanCalls'
    BY <1>2, OnlyTheMover
  <1> QED BY <1>4, <1>5, <1>6 DEF RegistryInv

LEMMA MoverIs ==
    ASSUME RegistryInv, NEW a \in Operators
    PROVE  /\ admins[a] \in AdminCalls /\ Named(admins[a]) /\ RegTypes
           /\ admins[a].clean => CleanCall(admins[a], regFile, BuildSnapshot, graph.exts)
           /\ BuildSnapshot \in Graphs /\ graph.gen \in Nat \ {0} /\ graph.exts \in Graphs
  BY SnapshotIs DEF RegistryInv, RegTypes, CallsName, CleanCalls

LEMMA BuildKeeps ==
    ASSUME RegistryInv, NEW a \in Operators, Build(a)
    PROVE  RegistryInv'
  <1> DEFINE q == admins[a]
             p == [q EXCEPT !.step = "answer"]
             s == [q EXCEPT !.step = "invalidate", !.next = BuildSnapshot, !.gen = graph.gen + 1]
  <1>1. /\ q \in AdminCalls /\ Named(q) /\ q.step = "build" /\ BuildSnapshot \in Graphs
        /\ UNCHANGED <<regFile, sources, graph, extLog, workerOf, viewer>>
        /\ graph.gen + 1 \in Nat /\ graph.gen + 1 # 0 /\ BuildSnapshot' = BuildSnapshot
        /\ q.clean => CleanCall(q, regFile, BuildSnapshot, graph.exts)
    <2>1. /\ q.step = "build" /\ UNCHANGED <<regFile, sources, graph, extLog, workerOf, viewer>>
      BY DEF Build
    <2>2. BuildSnapshot' = BuildSnapshot
      BY <2>1 DEF BuildSnapshot
    <2>3. /\ q \in AdminCalls /\ Named(q) /\ BuildSnapshot \in Graphs /\ graph.gen \in Nat \ {0}
          /\ q.clean => CleanCall(q, regFile, BuildSnapshot, graph.exts)
      BY MoverIs
    <2> HIDE DEF q
    <2>4. graph.gen + 1 \in Nat /\ graph.gen + 1 # 0
      BY <2>3
    <2> QED BY <2>1, <2>2, <2>3, <2>4
  <1>2. PICK c \in AdminCalls :
           /\ admins' = [admins EXCEPT ![a] = c] /\ c.step \in {"answer", "invalidate"} /\ Named(c)
           /\ c.clean = q.clean /\ c.swapped = q.swapped
           /\ q.clean => CleanCall(c, regFile', BuildSnapshot', graph'.exts)
    <2>1. CASE GoesTo(a, "answer") /\ graph.exts = BuildSnapshot
      <3>1. /\ p \in AdminCalls /\ p.step = "answer" /\ p.op = q.op /\ p.ext = q.ext
            /\ p.clean = q.clean /\ p.swapped = q.swapped /\ p.gen = q.gen
        BY <1>1 DEF AdminCalls
      <3>2. admins' = [admins EXCEPT ![a] = p]
        BY <2>1 DEF GoesTo
      <3> HIDE DEF p
      <3>3. Named(p)
        BY <1>1, <3>1 DEF Named
      <3>4. q.clean => CleanCall(p, regFile', BuildSnapshot', graph'.exts)
        BY <1>1, <2>1, <3>1 DEF CleanCall
      <3> QED BY <3>1, <3>2, <3>3, <3>4
    <2>2. CASE admins' = [admins EXCEPT ![a] = s]
      <3>1. /\ s \in AdminCalls /\ s.step = "invalidate" /\ s.op = q.op /\ s.ext = q.ext
            /\ s.clean = q.clean /\ s.swapped = q.swapped /\ s.gen = graph.gen + 1
            /\ s.next = BuildSnapshot
        BY <1>1 DEF AdminCalls
      <3> HIDE DEF s
      <3>2. Named(s)
        BY <1>1, <3>1 DEF Named
      <3>3. q.clean => CleanCall(s, regFile', BuildSnapshot', graph'.exts)
        BY <1>1, <3>1 DEF CleanCall
      <3> QED BY <2>2, <3>1, <3>2, <3>3
    <2>3. \/ GoesTo(a, "answer") /\ graph.exts = BuildSnapshot
          \/ admins' = [admins EXCEPT ![a] = s]
      BY DEF Build, Equivalent
    <2> QED BY <2>1, <2>2, <2>3
  <1>3. /\ admins' \in [Operators -> AdminCalls] /\ admins'[a] = c
        /\ \A b \in Operators : b # a => admins'[b] = admins[b]
    BY <1>2, MovesIs DEF RegistryInv
  <1>4. RegTypes' /\ CallsName' /\ LogEndsWithGraph'
    BY <1>1, <1>2, <1>3 DEF RegistryInv, RegTypes, CallsName, LogEndsWithGraph
  <1>5. ViewersAreTold' /\ LeakedWorkersStartedLate' /\ ClosedBeforeSwap'
    BY <1>1, <1>2, <1>3 DEF RegistryInv, ViewersAreTold, LeakedWorkersStartedLate, ClosedBeforeSwap
  <1>6. CleanCalls'
    BY <1>1, <1>2, OnlyTheMover
  <1> QED BY <1>4, <1>5, <1>6 DEF RegistryInv

LEMMA InvalidateKeeps ==
    ASSUME RegistryInv, NEW a \in Operators, Invalidate(a)
    PROVE  RegistryInv'
  <1> DEFINE q == admins[a]
             c == [q EXCEPT !.step = "swap"]
  <1>1. /\ q \in AdminCalls /\ Named(q) /\ q.step = "invalidate" /\ RegTypes
        /\ UNCHANGED <<regFile, sources, graph, extLog, viewer>>
        /\ admins' = [admins EXCEPT ![a] = c] /\ BuildSnapshot' = BuildSnapshot
        /\ q.clean => CleanCall(q, regFile, BuildSnapshot, graph.exts)
    BY MoverIs DEF Invalidate, GoesTo, BuildSnapshot
  <1>2. /\ c \in AdminCalls /\ c.step = "swap" /\ c.op = q.op /\ c.ext = q.ext
        /\ c.clean = q.clean /\ c.swapped = q.swapped /\ c.gen = q.gen /\ c.next = q.next
    BY <1>1 DEF AdminCalls
  <1> HIDE DEF c
  <1>3. Named(c) /\ (q.clean => CleanCall(c, regFile', BuildSnapshot', graph'.exts))
    BY <1>1, <1>2 DEF Named, CleanCall
  <1>4. /\ admins' \in [Operators -> AdminCalls] /\ admins'[a] = c
        /\ \A b \in Operators : b # a => admins'[b] = admins[b]
    BY <1>1, <1>2, MovesIs
  <1>5. /\ workerOf' \in [ExtIds -> Pools]
        /\ \A x \in ExtIds : \/ workerOf'[x].mode = "none"
                             \/ workerOf'[x] = workerOf[x] /\ workerOf[x].mode = q.next[x].mode
    <2>1. NoPool \in Pools /\ NoPool.mode = "none"
      BY DEF NoPool, Pools
    <2> QED BY <1>1, <2>1 DEF Invalidate, RegTypes
  <1>6. RegTypes' /\ CallsName' /\ LogEndsWithGraph' /\ ViewersAreTold'
    BY <1>1, <1>2, <1>3, <1>4, <1>5
    DEF RegistryInv, RegTypes, CallsName, LogEndsWithGraph, ViewersAreTold
  <1>7. LeakedWorkersStartedLate'
    BY <1>2, <1>4 DEF LeakedWorkersStartedLate
  <1>8. ClosedBeforeSwap'
    <2>1. ASSUME NEW b \in Operators, NEW x \in ExtIds, admins'[b].step = "swap"
          PROVE  workerOf'[x].mode \in {"none", admins'[b].next[x].mode} \/ workerOf'[x].late
      BY <1>2, <1>4, <1>5, <2>1 DEF RegistryInv, ClosedBeforeSwap
    <2> QED BY <2>1 DEF ClosedBeforeSwap
  <1>9. CleanCalls'
    BY <1>1, <1>2, <1>3, OnlyTheMover
  <1> QED BY <1>6, <1>7, <1>8, <1>9 DEF RegistryInv

LEMMA SwapKeeps ==
    ASSUME RegistryInv, NEW a \in Operators, Swap(a)
    PROVE  RegistryInv'
  <1> DEFINE q == admins[a]
             c == [q EXCEPT !.step = "answer", !.swapped = TRUE, !.next = NoGraph, !.gen = 0]
  <1>1. /\ q \in AdminCalls /\ Named(q) /\ q.step = "swap" /\ RegTypes
        /\ UNCHANGED <<regFile, sources, workerOf, viewer>>
        /\ admins' = [admins EXCEPT ![a] = c] /\ BuildSnapshot' = BuildSnapshot
        /\ graph' = [gen |-> q.gen, exts |-> q.next]
        /\ extLog' = LogSwap(extLog, q.gen, q.next)
        /\ q.clean => CleanCall(q, regFile, BuildSnapshot, graph.exts)
    BY MoverIs DEF Swap, BuildSnapshot
  <1>2. q.gen \in Nat \ {0} /\ q.next \in Graphs
    BY <1>1, AdminFields DEF Named
  <1>3. /\ c \in AdminCalls /\ c.step = "answer" /\ c.op = q.op /\ c.ext = q.ext
        /\ c.clean = q.clean /\ c.swapped
    BY <1>1, EmptyIs DEF AdminCalls
  <1> HIDE DEF c
  <1>4. /\ graph' \in [gen : Nat \ {0}, exts : Graphs] /\ graph'.gen = q.gen
        /\ graph'.exts = q.next
    BY <1>1, <1>2
  <1>5. /\ extLog' \in Seq(ExtEvents) /\ Len(extLog') \in 1..EventLimit
        /\ Last(extLog') = [gen |-> q.gen, ext |-> "graph"]
    BY <1>1, <1>2, SwapIsLogged DEF RegTypes
  <1>6. Named(c) /\ (q.clean => CleanCall(c, regFile', BuildSnapshot', graph'.exts))
    BY <1>1, <1>3, <1>4 DEF Named, CleanCall
  <1>7. /\ admins' \in [Operators -> AdminCalls] /\ admins'[a] = c
        /\ \A b \in Operators : b # a => admins'[b] = admins[b]
    BY <1>1, <1>3, MovesIs
  <1>8. RegTypes' /\ CallsName' /\ LogEndsWithGraph' /\ ViewersAreTold'
    BY <1>1, <1>3, <1>4, <1>5, <1>6, <1>7
    DEF RegistryInv, RegTypes, CallsName, LogEndsWithGraph, ViewersAreTold
  <1>9. LeakedWorkersStartedLate'
    BY <1>1, <1>4 DEF RegistryInv, ClosedBeforeSwap, LeakedWorkersStartedLate
  <1>10. ClosedBeforeSwap'
    BY <1>1, <1>3, <1>7 DEF RegistryInv, ClosedBeforeSwap
  <1>11. CleanCalls'
    BY <1>1, <1>3, <1>6, OnlyTheMover
  <1> QED BY <1>8, <1>9, <1>10, <1>11 DEF RegistryInv

(* A call is over. *)
LEMMA RestsIs ==
    ASSUME RegistryInv, NEW a \in Operators, admins' = [admins EXCEPT ![a] = AtRest],
           admins[a].step # "idle"
    PROVE  /\ admins' \in [Operators -> AdminCalls] /\ admins'[a].step = "idle"
           /\ ~admins'[a].clean
           /\ \A b \in Operators : b # a => admins'[b] = admins[b]
           /\ CallsName' /\ CleanCalls'
  <1>1. /\ admins' \in [Operators -> AdminCalls] /\ admins'[a] = AtRest
        /\ \A b \in Operators : b # a => admins'[b] = admins[b]
    BY EmptyIs, MovesIs DEF RegistryInv
  <1>2. CallsName'
    BY <1>1, AtRestIs DEF RegistryInv, CallsName, Named
  <1>3. CleanCalls'
    <2>1. \A b \in Operators : ~admins'[b].clean
      BY <1>1, AtRestIs DEF RegistryInv, CleanCalls
    <2> QED BY <2>1 DEF CleanCalls
  <1> QED BY <1>1, <1>2, <1>3, AtRestIs

LEMMA AnswerKeeps ==
    ASSUME RegistryInv, NEW a \in Operators, AnswerAdmin(a)
    PROVE  RegistryInv'
  <1> DEFINE q == admins[a]
  <1>1. /\ q \in AdminCalls /\ q.step = "answer" /\ RegTypes
        /\ UNCHANGED <<regFile, sources, graph, extLog, workerOf>>
        /\ admins' = [admins EXCEPT ![a] = AtRest]
    BY MoverIs DEF AnswerAdmin
  <1>2. /\ admins' \in [Operators -> AdminCalls] /\ admins'[a].step = "idle"
        /\ \A b \in Operators : b # a => admins'[b] = admins[b]
        /\ CallsName' /\ CleanCalls'
    BY <1>1, RestsIs
  <1>3. viewer \in Viewers /\ q.swapped \in BOOLEAN
    BY <1>1, AdminFields DEF RegTypes
  <1>4. /\ viewer' \in Viewers /\ viewer'.on = viewer.on /\ viewer'.gen = viewer.gen
        /\ viewer.missed => viewer'.missed
        /\ viewer.told => viewer'.told \/ ~viewer.on
        /\ q.swapped => viewer'.told \/ ~viewer.on \/ viewer'.missed
    <2>1. CASE Announced(a)
      <3>1. viewer' = [viewer EXCEPT !.told = viewer.on]
        BY <2>1 DEF AnswerAdmin
      <3> QED BY <1>3, <3>1 DEF Viewers
    <2>2. CASE ~Announced(a)
      <3> DEFINE away == q.swapped /\ q.op \in {"reload", "attach"}
      <3>1. viewer' = [viewer EXCEPT !.missed = viewer.missed \/ away]
        BY <2>2 DEF AnswerAdmin
      <3>2. q.swapped => q.op \in {"reload", "attach"}
        BY <2>2 DEF Announced
      <3>3. away \in BOOLEAN /\ (q.swapped => away)
        BY <3>2
      <3> HIDE DEF away
      <3>4. viewer.missed \in BOOLEAN /\ (viewer.missed \/ away) \in BOOLEAN
        BY <1>3, <3>3 DEF Viewers
      <3>5. /\ viewer' \in Viewers /\ viewer'.on = viewer.on /\ viewer'.gen = viewer.gen
            /\ viewer'.told = viewer.told /\ viewer'.missed = (viewer.missed \/ away)
        BY <1>3, <3>1, <3>4 DEF Viewers
      <3> QED BY <3>3, <3>5
    <2> QED BY <2>1, <2>2
  <1>5. RegTypes' /\ LogEndsWithGraph'
    BY <1>1, <1>2, <1>4 DEF RegistryInv, RegTypes, LogEndsWithGraph
  <1>6. ViewersAreTold'
    BY <1>1, <1>2, <1>4 DEF RegistryInv, ViewersAreTold
  <1>7. LeakedWorkersStartedLate'
    BY <1>1, <1>2 DEF RegistryInv, LeakedWorkersStartedLate
  <1>8. ClosedBeforeSwap'
    BY <1>1, <1>2 DEF RegistryInv, ClosedBeforeSwap
  <1> QED BY <1>2, <1>5, <1>6, <1>7, <1>8 DEF RegistryInv

LEMMA StartWorkerKeeps ==
    ASSUME RegistryInv, NEW a \in Operators, StartWorker(a)
    PROVE  RegistryInv'
  <1> DEFINE q == admins[a]
             x == q.ext
             late == \/ graph.exts[x].mode # q.op
                     \/ graph.exts[x].health = "failed"
                     \/ \E b \in Operators : admins[b].step = "swap"
             new == [mode |-> q.op, late |-> late]
  <1>1. /\ q \in AdminCalls /\ q.step = "dispatch" /\ RegTypes /\ Named(q)
        /\ UNCHANGED <<regFile, sources, graph, extLog, viewer>>
        /\ admins' = [admins EXCEPT ![a] = AtRest]
        /\ workerOf' = [workerOf EXCEPT ![x] = IF workerOf[x].mode = q.op THEN workerOf[x] ELSE new]
    BY MoverIs DEF StartWorker
  <1>2. /\ admins' \in [Operators -> AdminCalls] /\ admins'[a].step = "idle"
        /\ \A b \in Operators : b # a => admins'[b] = admins[b]
        /\ CallsName' /\ CleanCalls'
    BY <1>1, RestsIs
  <1>3. x \in ExtIds /\ q.op \in {"package", "dev"} /\ late \in BOOLEAN
    BY <1>1 DEF Named
  <1>4. /\ workerOf' \in [ExtIds -> Pools]
        /\ \A y \in ExtIds : \/ workerOf'[y] = workerOf[y]
                             \/ y = x /\ workerOf'[y].mode = q.op /\ workerOf'[y].late = late
    <2>1. new \in Pools /\ new.mode = q.op /\ new.late = late
      BY <1>3 DEF Pools
    <2> HIDE DEF new, late
    <2> QED BY <1>1, <1>3, <2>1 DEF RegTypes
  <1>5. RegTypes' /\ LogEndsWithGraph' /\ ViewersAreTold'
    BY <1>1, <1>2, <1>4 DEF RegistryInv, RegTypes, LogEndsWithGraph, ViewersAreTold
  <1>6. LeakedWorkersStartedLate'
    BY <1>1, <1>2, <1>4 DEF RegistryInv, LeakedWorkersStartedLate
  <1>7. ClosedBeforeSwap'
    BY <1>1, <1>2, <1>4 DEF RegistryInv, ClosedBeforeSwap
  <1> QED BY <1>2, <1>5, <1>6, <1>7 DEF RegistryInv

LEMMA SubscribeKeeps == RegistryInv /\ Subscribe => RegistryInv'
  <1> SUFFICES ASSUME RegistryInv, Subscribe PROVE RegistryInv'
    OBVIOUS
  <1> DEFINE missed == \E a \in Operators : admins[a].step = "answer" /\ admins[a].swapped
  <1>1. /\ UNCHANGED <<regFile, sources, graph, extLog, admins, workerOf>>
        /\ viewer' = [on |-> TRUE, told |-> FALSE, gen |-> graph.gen, missed |-> missed]
        /\ BuildSnapshot' = BuildSnapshot
    BY DEF Subscribe, BuildSnapshot
  <1>2. viewer' \in Viewers /\ viewer'.gen = graph.gen
    <2>1. missed \in BOOLEAN /\ graph.gen \in Nat
      BY DEF RegistryInv, RegTypes
    <2> HIDE DEF missed
    <2> QED BY <1>1, <2>1 DEF Viewers
  <1> HIDE DEF missed
  <1>3. RegTypes' /\ CallsName' /\ LogEndsWithGraph' /\ ViewersAreTold'
    BY <1>1, <1>2 DEF RegistryInv, RegTypes, CallsName, LogEndsWithGraph, ViewersAreTold
  <1>4. LeakedWorkersStartedLate' /\ ClosedBeforeSwap' /\ CleanCalls'
    BY <1>1 DEF RegistryInv, LeakedWorkersStartedLate, ClosedBeforeSwap, CleanCalls
  <1> QED BY <1>3, <1>4 DEF RegistryInv

LEMMA ReceiveKeeps == RegistryInv /\ Receive => RegistryInv'
  <1> SUFFICES ASSUME RegistryInv, Receive PROVE RegistryInv'
    OBVIOUS
  <1>1. /\ UNCHANGED <<regFile, sources, graph, extLog, admins, workerOf>>
        /\ viewer' = [viewer EXCEPT !.told = FALSE, !.gen = graph.gen, !.missed = FALSE]
        /\ BuildSnapshot' = BuildSnapshot
    BY DEF Receive, BuildSnapshot
  <1>2. viewer' \in Viewers /\ viewer'.gen = graph.gen
    BY <1>1 DEF RegistryInv, RegTypes, Viewers
  <1>3. RegTypes' /\ CallsName' /\ LogEndsWithGraph' /\ ViewersAreTold'
    BY <1>1, <1>2 DEF RegistryInv, RegTypes, CallsName, LogEndsWithGraph, ViewersAreTold
  <1>4. LeakedWorkersStartedLate' /\ ClosedBeforeSwap' /\ CleanCalls'
    BY <1>1 DEF RegistryInv, LeakedWorkersStartedLate, ClosedBeforeSwap, CleanCalls
  <1> QED BY <1>3, <1>4 DEF RegistryInv

LEMMA SourceChangesKeeps == RegistryInv /\ SourceChanges => RegistryInv'
  <1> SUFFICES ASSUME RegistryInv, SourceChanges PROVE RegistryInv'
    OBVIOUS
  <1>1. /\ UNCHANGED <<regFile, graph, extLog, workerOf, viewer>>
        /\ admins' = [a \in Operators |-> [admins[a] EXCEPT !.clean = FALSE]]
    BY DEF SourceChanges
  <1>2. /\ admins' \in [Operators -> AdminCalls]
        /\ \A a \in Operators : SameCall(admins'[a], admins[a]) /\ ~admins'[a].clean
    <2>1. ASSUME NEW c \in AdminCalls
          PROVE  /\ [c EXCEPT !.clean = FALSE] \in AdminCalls
                 /\ SameCall([c EXCEPT !.clean = FALSE], c) /\ ~[c EXCEPT !.clean = FALSE].clean
      BY DEF AdminCalls, SameCall
    <2>2. admins \in [Operators -> AdminCalls]
      BY DEF RegistryInv, RegTypes
    <2> QED BY <1>1, <2>1, <2>2
  <1>3. sources' \in [ExtIds -> [package : Contents, dev : Contents]]
    <2>1. sources \in [ExtIds -> [package : Contents, dev : Contents]]
      BY DEF RegistryInv, RegTypes
    <2>2. PICK x \in ExtIds, content \in Contents :
             \/ sources' = [sources EXCEPT ![x].package = content]
             \/ sources' = [sources EXCEPT ![x].dev = content]
      BY DEF SourceChanges
    <2> QED BY <2>1, <2>2
  <1>4. RegTypes' /\ LogEndsWithGraph'
    BY <1>1, <1>2, <1>3 DEF RegistryInv, RegTypes, LogEndsWithGraph
  <1>5. CallsName' /\ CleanCalls'
    BY <1>2 DEF RegistryInv, CallsName, CleanCalls, Named, SameCall
  <1>6. ViewersAreTold'
    <2>1. CASE \E a \in Operators : admins[a].step = "answer" /\ admins[a].swapped
      <3>1. PICK a \in Operators : admins[a].step = "answer" /\ admins[a].swapped
        BY <2>1
      <3>2. admins'[a].step = "answer" /\ admins'[a].swapped
        BY <1>2, <3>1 DEF SameCall
      <3> QED BY <3>1, <3>2 DEF ViewersAreTold
    <2>2. CASE ~viewer.on \/ viewer.told \/ viewer.missed \/ viewer.gen = graph.gen
      BY <1>1, <2>2 DEF ViewersAreTold
    <2> QED BY <2>1, <2>2 DEF RegistryInv, ViewersAreTold
  <1>7. LeakedWorkersStartedLate' /\ ClosedBeforeSwap'
    BY <1>1, <1>2 DEF RegistryInv, LeakedWorkersStartedLate, ClosedBeforeSwap, SameCall
  <1> QED BY <1>4, <1>5, <1>6, <1>7 DEF RegistryInv

(* The server begins with what it finds. *)
Bootstrapped ==
    /\ graph = [gen |-> 1, exts |-> BuildSnapshot]
    /\ extLog = LogSwap(<<>>, 1, BuildSnapshot)
    /\ admins = [a \in Operators |-> AtRest]
    /\ workerOf = [x \in ExtIds |-> NoPool]
    /\ viewer = [on |-> FALSE, told |-> FALSE, gen |-> 0, missed |-> FALSE]

LEMMA BootstrapIsSound ==
    Bootstrapped /\ regFile \in RegFiles /\ BuildSnapshot \in Graphs
    /\ sources \in [ExtIds -> [package : Contents, dev : Contents]]
    => RegistryInv
  <1> SUFFICES ASSUME Bootstrapped, regFile \in RegFiles, BuildSnapshot \in Graphs,
                      sources \in [ExtIds -> [package : Contents, dev : Contents]]
               PROVE  RegistryInv
    OBVIOUS
  <1>1. /\ graph \in [gen : Nat \ {0}, exts : Graphs] /\ graph.gen = 1
    BY DEF Bootstrapped
  <1>2. /\ extLog \in Seq(ExtEvents) /\ Len(extLog) \in 1..EventLimit
        /\ Last(extLog) = [gen |-> 1, ext |-> "graph"]
    <2>1. <<>> \in Seq(ExtEvents) /\ 1 \in Nat \ {0}
      OBVIOUS
    <2> QED BY <2>1, SwapIsLogged DEF Bootstrapped
  <1>3. /\ admins \in [Operators -> AdminCalls] /\ \A a \in Operators : admins[a] = AtRest
    BY EmptyIs DEF Bootstrapped
  <1>4. /\ workerOf \in [ExtIds -> Pools] /\ \A x \in ExtIds : workerOf[x].mode = "none"
    BY DEF Bootstrapped, NoPool, Pools
  <1>5. viewer \in Viewers /\ ~viewer.on
    BY DEF Bootstrapped, Viewers
  <1>6. RegTypes /\ LogEndsWithGraph
    BY <1>1, <1>2, <1>3, <1>4, <1>5 DEF RegTypes, LogEndsWithGraph
  <1>7. CallsName /\ CleanCalls /\ ClosedBeforeSwap
    BY <1>3, AtRestIs DEF CallsName, Named, CleanCalls, ClosedBeforeSwap
  <1>8. ViewersAreTold /\ LeakedWorkersStartedLate
    BY <1>4, <1>5 DEF ViewersAreTold, LeakedWorkersStartedLate
  <1> QED BY <1>6, <1>7, <1>8 DEF RegistryInv

LEMMA RestartHostKeeps == RegistryInv /\ RestartHost => RegistryInv'
  <1>1. ASSUME RegistryInv, RestartHost
        PROVE  /\ Bootstrapped' /\ (regFile \in RegFiles)' /\ (BuildSnapshot \in Graphs)'
               /\ (sources \in [ExtIds -> [package : Contents, dev : Contents]])'
    <2>1. UNCHANGED <<regFile, sources>> /\ BuildSnapshot' = BuildSnapshot
      BY <1>1 DEF RestartHost, BuildSnapshot
    <2>2. Bootstrapped'
      BY <1>1, <2>1 DEF RestartHost, Bootstrapped
    <2> QED BY <1>1, <2>1, <2>2, SnapshotIs DEF RegistryInv, RegTypes
  <1> QED BY <1>1, BootstrapIsSound, PTL

LEMMA RegistryStart == RegistryInit => RegistryInv
  <1> SUFFICES ASSUME RegistryInit PROVE RegistryInv
    OBVIOUS
  <1>1. regFile \in RegFiles
    <2>1. /\ EmptyFile \in RegFiles
          /\ [x \in ExtIds |-> IF x \in InstalledIds THEN "on" ELSE "none"] \in [ExtIds -> Flags]
      BY EmptyIs DEF Flags
    <2> QED BY <2>1 DEF RegistryInit, RegFiles
  <1>2. sources \in [ExtIds -> [package : Contents, dev : Contents]]
    BY DEF RegistryInit, Contents
  <1>3. BuildSnapshot \in Graphs
    <2>1. \A content : HealthOf(content) \in {"ready", "degraded", "failed"}
      BY DEF HealthOf
    <2>2. \A x \in ExtIds : Resolve(regFile, sources, x) \in Resolved \cup {Nobody}
      BY <2>1 DEF Resolve, Resolved, Nobody
    <2> QED BY <2>2 DEF BuildSnapshot, Graphs
  <1>4. Bootstrapped
    <2>1. graph = [gen |-> 1, exts |-> BuildSnapshot]
      BY DEF RegistryInit, BuildSnapshot
    <2>2. graph.exts = BuildSnapshot
      BY <2>1
    <2> QED BY <2>1, <2>2 DEF RegistryInit, Bootstrapped
  <1> QED BY <1>1, <1>2, <1>3, <1>4, BootstrapIsSound

LEMMA RegistryStep == RegistryInv /\ [RegistryNext]_registryVars => RegistryInv'
  <1> SUFFICES ASSUME RegistryInv, [RegistryNext]_registryVars PROVE RegistryInv'
    OBVIOUS
  <1>1. CASE UNCHANGED registryVars
    <2>1. UNCHANGED <<regFile, sources, graph, extLog, admins, workerOf, viewer>>
          /\ BuildSnapshot' = BuildSnapshot
      BY <1>1 DEF registryVars, BuildSnapshot
    <2>2. RegTypes' /\ CallsName' /\ LogEndsWithGraph' /\ ViewersAreTold'
      BY <2>1 DEF RegistryInv, RegTypes, CallsName, LogEndsWithGraph, ViewersAreTold
    <2>3. LeakedWorkersStartedLate' /\ ClosedBeforeSwap' /\ CleanCalls'
      BY <2>1 DEF RegistryInv, LeakedWorkersStartedLate, ClosedBeforeSwap, CleanCalls
    <2> QED BY <2>2, <2>3 DEF RegistryInv
  <1>2. ASSUME NEW a \in Operators,
               \/ Refresh(a) \/ WriteRegistryFile(a) \/ Build(a) \/ Invalidate(a) \/ Swap(a)
               \/ AnswerAdmin(a) \/ StartWorker(a)
        PROVE  RegistryInv'
    BY <1>2, RefreshKeeps, WriteFileKeeps, BuildKeeps, InvalidateKeeps, SwapKeeps, AnswerKeeps,
       StartWorkerKeeps
  <1>3. ASSUME NEW a \in Operators, NEW x \in ExtIds,
               AttachDevSource(a, x) \/ DetachDevSource(a, x) \/ DispatchRpc(a, x)
        PROVE  RegistryInv'
    BY <1>3, AttachKeeps, DetachKeeps, DispatchKeeps
  <1>4. ASSUME NEW a \in Operators, NEW x \in ExtIds, NEW flag \in {"on", "off"},
               SetExtensionEnabled(a, x, flag)
        PROVE  RegistryInv'
    BY <1>4, SetEnabledKeeps
  <1>5. CASE Subscribe \/ Receive \/ SourceChanges \/ RestartHost
    BY <1>5, SubscribeKeeps, ReceiveKeeps, SourceChangesKeeps, RestartHostKeeps
  <1> QED BY <1>1, <1>2, <1>3, <1>4, <1>5 DEF RegistryNext

LEMMA RegistryInvTells == RegistryInv => RegistryTypeOK /\ RegistryIsTruthful
  <1> SUFFICES ASSUME RegistryInv PROVE RegistryTypeOK /\ RegistryIsTruthful
    OBVIOUS
  <1>1. RegistryTypeOK
    BY DEF RegistryInv, RegTypes, RegistryTypeOK, RegFiles, Graphs, Pools, Viewers
  <1>2. AnswersAreShown
    <2>1. ASSUME NEW a \in Operators, admins[a].step = "answer", admins[a].clean
          PROVE  LET x == admins[a].ext IN
                 /\ admins[a].op = "attach" => graph.exts[x].mode = "dev"
                 /\ admins[a].op = "detach" => graph.exts[x].mode # "dev"
                 /\ admins[a].op = "off" =>
                       \/ graph.exts[x] = Nobody
                       \/ regFile.entries[x] = "none" /\ graph.exts[x].mode = "package"
      <3> DEFINE x == admins[a].ext
      <3>1. Named(admins[a]) /\ graph.exts = BuildSnapshot /\ Wrote(admins[a].op, x, regFile)
        BY <2>1 DEF RegistryInv, CallsName, CleanCalls, CleanCall
      <3>2. CASE admins[a].op \in {"attach", "detach", "off"}
        <4>1. x \in ExtIds
          BY <3>1, <3>2 DEF Named
        <4>2. regFile.entries[x] \in Flags
          BY <4>1 DEF RegistryInv, RegTypes, RegFiles
        <4> QED BY <3>1, <3>2, <4>1, <4>2, SnapshotIs DEF RegistryInv, Wrote, Flags
      <3> QED BY <3>2
    <2> QED BY <2>1 DEF AnswersAreShown
  <1> QED BY <1>1, <1>2 DEF RegistryInv, RegistryIsTruthful

(* The registry shows what was asked for. *)
THEOREM RegistryShowsWhatIs == RegistrySpec => [](RegistryTypeOK /\ RegistryIsTruthful)
  <1>1. RegistrySpec => []RegistryInv
    BY RegistryStart, RegistryStep, PTL DEF RegistrySpec
  <1> QED BY <1>1, RegistryInvTells, PTL

-----------------------------------------------------------------------------
(* What extensions contribute. *)

(* A row of a hook or of a handler can be placed: all that its order looks   *)
(* at are numbers.                                                           *)
Ranked(r) ==
    /\ r.ext \in Nat /\ r.at \in Nat /\ r.row.priority \in Nat
    /\ NameRank[r.row.name] \in Nat

(* Of two rows one goes first, and never one of the lower priority.          *)
LEMMA PrecedesIsAnOrder ==
    ASSUME NEW a, NEW b, NEW c, Ranked(a), Ranked(b), Ranked(c)
    PROVE  /\ ~Precedes(a, a)
           /\ Precedes(a, b) /\ Precedes(b, c) => Precedes(a, c)
           /\ Precedes(a, b) \/ Precedes(b, a) \/ (a.ext = b.ext /\ a.at = b.at)
           /\ Precedes(a, b) => a.row.priority >= b.row.priority
  <1> DEFINE na == NameRank[a.row.name]  nb == NameRank[b.row.name]
             nc == NameRank[c.row.name]
             pa == a.row.priority  pb == b.row.priority  pc == c.row.priority
  <1>1. /\ a.ext \in Nat /\ a.at \in Nat /\ pa \in Nat /\ na \in Nat
        /\ b.ext \in Nat /\ b.at \in Nat /\ pb \in Nat /\ nb \in Nat
        /\ c.ext \in Nat /\ c.at \in Nat /\ pc \in Nat /\ nc \in Nat
    BY DEF Ranked
  <1>2. ~Precedes(a, a)
    BY <1>1 DEF Precedes, GoesBefore
  <1>3. Precedes(a, b) <=>
          \/ pa > pb
          \/ pa = pb /\ a.ext < b.ext
          \/ pa = pb /\ a.ext = b.ext /\ na < nb
          \/ pa = pb /\ a.ext = b.ext /\ na = nb /\ a.at < b.at
    BY <1>1 DEF Precedes, GoesBefore
  <1>4. Precedes(b, a) <=>
          \/ pb > pa
          \/ pb = pa /\ b.ext < a.ext
          \/ pb = pa /\ b.ext = a.ext /\ nb < na
          \/ pb = pa /\ b.ext = a.ext /\ nb = na /\ b.at < a.at
    BY <1>1 DEF Precedes, GoesBefore
  <1>5. Precedes(b, c) <=>
          \/ pb > pc
          \/ pb = pc /\ b.ext < c.ext
          \/ pb = pc /\ b.ext = c.ext /\ nb < nc
          \/ pb = pc /\ b.ext = c.ext /\ nb = nc /\ b.at < c.at
    BY <1>1 DEF Precedes, GoesBefore
  <1>6. Precedes(a, c) <=>
          \/ pa > pc
          \/ pa = pc /\ a.ext < c.ext
          \/ pa = pc /\ a.ext = c.ext /\ na < nc
          \/ pa = pc /\ a.ext = c.ext /\ na = nc /\ a.at < c.at
    BY <1>1 DEF Precedes, GoesBefore
  <1> QED BY <1>1, <1>2, <1>3, <1>4, <1>5, <1>6

(* Of finitely many rows, each at a place of its own, the sort makes a list   *)
(* in which the priorities go down: the places are counted from those that   *)
(* go before, which are different for any two rows, so every place is taken.  *)
LEMMA SortGoesDown ==
    ASSUME NEW S, IsFiniteSet(S), \A r \in S : Ranked(r),
           \A a, b \in S : a.ext = b.ext /\ a.at = b.at => a = b
    PROVE  \A i, j \in DOMAIN SortedRows(S) :
              i < j => SortedRows(S)[i].row.priority >= SortedRows(S)[j].row.priority
  <1> DEFINE Ahead(r) == {q \in S : Precedes(q, r)}
             Place == [r \in S |-> Cardinality(Ahead(r))]
             n == Cardinality(S)
             Places == 0..(n - 1)
  <1>1. n \in Nat
    BY FS_CardinalityType
  <1>2. ASSUME NEW r \in S
        PROVE  IsFiniteSet(Ahead(r)) /\ Place[r] \in Places
    <2>1. Ahead(r) \in SUBSET S
      OBVIOUS
    <2>2. r \notin Ahead(r)
      BY PrecedesIsAnOrder
    <2>3. Ahead(r) # S
      BY <2>2
    <2> HIDE DEF Ahead
    <2>4. /\ IsFiniteSet(Ahead(r)) /\ Cardinality(Ahead(r)) <= Cardinality(S)
          /\ Cardinality(S) # Cardinality(Ahead(r))
      BY <2>1, <2>3, FS_Subset
    <2>5. Cardinality(Ahead(r)) \in Nat
      BY <2>4, FS_CardinalityType
    <2> QED BY <1>1, <2>4, <2>5
  <1>3. ASSUME NEW a \in S, NEW b \in S, Precedes(a, b)
        PROVE  Place[a] < Place[b]
    <2>1. Ahead(a) \in SUBSET Ahead(b)
      BY <1>3, PrecedesIsAnOrder
    <2>2. a \in Ahead(b) /\ a \notin Ahead(a)
      BY <1>3, PrecedesIsAnOrder
    <2>3. IsFiniteSet(Ahead(b)) /\ IsFiniteSet(Ahead(a))
      BY <1>2
    <2>4. Place[a] = Cardinality(Ahead(a)) /\ Place[b] = Cardinality(Ahead(b))
      OBVIOUS
    <2> HIDE DEF Ahead, Place
    <2>5. /\ Cardinality(Ahead(a)) <= Cardinality(Ahead(b))
          /\ Cardinality(Ahead(b)) # Cardinality(Ahead(a))
      BY <2>1, <2>2, <2>3, FS_Subset
    <2>6. Cardinality(Ahead(a)) \in Nat /\ Cardinality(Ahead(b)) \in Nat
      BY <2>3, FS_CardinalityType
    <2> QED BY <2>4, <2>5, <2>6
  <1> DEFINE R(k) == CHOOSE r \in S : Cardinality(Ahead(r)) = k - 1
  <1>4. \A r \in S : Place[r] = Cardinality(Ahead(r))
    OBVIOUS
  <1>5. SortedRows(S) = [k \in 1..n |-> R(k)]
    BY DEF SortedRows
  <1>6. DOMAIN Place = S
    OBVIOUS
  <1> HIDE DEF Ahead
  <1>7. Place \in [S -> Places]
    BY <1>2
  <1> HIDE DEF Place
  <1>8. \A a, b \in S : Place[a] = Place[b] => a = b
    <2> SUFFICES ASSUME NEW a \in S, NEW b \in S, Place[a] = Place[b]
                 PROVE  a = b
      OBVIOUS
    <2>1. Place[a] \in Int /\ Place[b] \in Int
      BY <1>1, <1>7
    <2>2. ~(Place[a] < Place[b]) /\ ~(Place[b] < Place[a])
      BY <2>1
    <2>3. ~Precedes(a, b) /\ ~Precedes(b, a)
      BY <1>3, <2>2
    <2> QED BY <2>3, PrecedesIsAnOrder
  <1>9. Place \in Injection(S, Places)
    BY <1>7, <1>8, <1>6 DEF Injection, IsInjective
  <1>10. IsFiniteSet(Places) /\ Cardinality(Places) = n
    BY <1>1, FS_Interval
  <1>11. Place \in Surjection(S, Places)
    <2> HIDE DEF Places
    <2> QED BY <1>9, <1>10, FS_Injection
  <1>12. ASSUME NEW k \in 1..n
         PROVE  R(k) \in S /\ Place[R(k)] = k - 1
    <2>1. k - 1 \in Places
      BY <1>1
    <2>2. PICK r \in S : Place[r] = k - 1
      BY <1>11, <2>1 DEF Surjection
    <2>3. \E q \in S : Cardinality(Ahead(q)) = k - 1
      BY <1>4, <2>2
    <2>4. R(k) \in S /\ Cardinality(Ahead(R(k))) = k - 1
      BY <2>3
    <2> HIDE DEF R
    <2> QED BY <1>4, <2>4
  <1> HIDE DEF R
  <1> SUFFICES ASSUME NEW i \in 1..n, NEW j \in 1..n, i < j
               PROVE  R(i).row.priority >= R(j).row.priority
    BY <1>5
  <1>13. Place[R(i)] = i - 1 /\ Place[R(j)] = j - 1 /\ R(i) \in S /\ R(j) \in S
    BY <1>12
  <1>14. ~Precedes(R(j), R(i))
    BY <1>13, <1>3
  <1>15. R(i) # R(j)
    BY <1>13
  <1>16. Precedes(R(i), R(j))
    BY <1>13, <1>14, <1>15, PrecedesIsAnOrder
  <1> QED BY <1>13, <1>16, PrecedesIsAnOrder

(* What finitely many extensions contribute is finitely many rows, and no two *)
(* of them come from one place.                                              *)
LEMMA ContributedIsFinite ==
    ASSUME NEW of, \A x \in Extensions : \E n \in Nat : DOMAIN of[x] = 1..n
    PROVE  /\ IsFiniteSet(Contributed(of))
           /\ \A r \in Contributed(of) : \E x \in Extensions : \E j \in DOMAIN of[x] :
                 r.ext \in Nat /\ r.at = j /\ r.at \in Nat /\ r.row = of[x][j]
           /\ \A a, b \in Contributed(of) : a.ext = b.ext /\ a.at = b.at => a = b
  <1> DEFINE Rows(i) == {[ext |-> i, at |-> j, row |-> of[ExtOrder[i]][j]] :
                           j \in DOMAIN of[ExtOrder[i]]}
             n == Len(ExtOrder)
             All == {Rows(i) : i \in 1..n}
  <1>1. n \in Nat /\ DOMAIN ExtOrder = 1..n
    BY ContributionsAssumption
  <1>2. ASSUME NEW i \in 1..n
        PROVE  ExtOrder[i] \in Extensions
    BY <1>1 DEF Extensions, Range
  <1>3. ASSUME NEW i \in 1..n
        PROVE  IsFiniteSet(Rows(i))
    <2>1. PICK m \in Nat : DOMAIN of[ExtOrder[i]] = 1..m
      BY <1>2, <1>3
    <2> DEFINE f == [j \in 1..m |-> [ext |-> i, at |-> j, row |-> of[ExtOrder[i]][j]]]
    <2>2. f \in Surjection(1..m, Rows(i))
      BY <2>1 DEF Surjection
    <2>3. IsFiniteSet(1..m)
      BY FS_Interval
    <2> HIDE DEF f, Rows
    <2> QED BY <2>2, <2>3, FS_Surjection
  <1>4. Contributed(of) = UNION All
    BY <1>1 DEF Contributed
  <1>5. IsFiniteSet(All)
    <2> HIDE DEF Rows
    <2> DEFINE f == [i \in 1..n |-> Rows(i)]
    <2>1. f \in Surjection(1..n, All)
      BY DEF Surjection
    <2>2. IsFiniteSet(1..n)
      BY <1>1, FS_Interval
    <2> HIDE DEF f, All
    <2> QED BY <2>1, <2>2, FS_Surjection
  <1>6. IsFiniteSet(UNION All)
    <2>1. \A T \in All : IsFiniteSet(T)
      BY <1>3
    <2> HIDE DEF All
    <2> QED BY <1>5, <2>1, FS_UNION
  <1>7. ASSUME NEW r \in Contributed(of)
        PROVE  \E i \in 1..n : \E j \in DOMAIN of[ExtOrder[i]] :
                  r = [ext |-> i, at |-> j, row |-> of[ExtOrder[i]][j]]
    BY <1>4, <1>7
  <1>8. ASSUME NEW r \in Contributed(of)
        PROVE  \E x \in Extensions : \E j \in DOMAIN of[x] :
                 r.ext \in Nat /\ r.at = j /\ r.at \in Nat /\ r.row = of[x][j]
    <2>1. PICK i \in 1..n : \E j \in DOMAIN of[ExtOrder[i]] :
                  r = [ext |-> i, at |-> j, row |-> of[ExtOrder[i]][j]]
      BY <1>7, <1>8
    <2>2. PICK j \in DOMAIN of[ExtOrder[i]] :
                  r = [ext |-> i, at |-> j, row |-> of[ExtOrder[i]][j]]
      BY <2>1
    <2>3. ExtOrder[i] \in Extensions
      BY <1>2
    <2>4. PICK m \in Nat : DOMAIN of[ExtOrder[i]] = 1..m
      BY <2>3
    <2>5. j \in Nat /\ i \in Nat
      BY <2>4, <1>1
    <2>6. r.ext = i /\ r.at = j /\ r.row = of[ExtOrder[i]][j]
      BY <2>2
    <2> QED BY <2>3, <2>5, <2>6
  <1>9. ASSUME NEW a \in Contributed(of), NEW b \in Contributed(of),
               a.ext = b.ext, a.at = b.at
        PROVE  a = b
    <2>1. PICK i \in 1..n : \E j \in DOMAIN of[ExtOrder[i]] :
                  a = [ext |-> i, at |-> j, row |-> of[ExtOrder[i]][j]]
      BY <1>7, <1>9
    <2>2. PICK j \in DOMAIN of[ExtOrder[i]] :
                  a = [ext |-> i, at |-> j, row |-> of[ExtOrder[i]][j]]
      BY <2>1
    <2>3. PICK k \in 1..n : \E l \in DOMAIN of[ExtOrder[k]] :
                  b = [ext |-> k, at |-> l, row |-> of[ExtOrder[k]][l]]
      BY <1>7, <1>9
    <2>4. PICK l \in DOMAIN of[ExtOrder[k]] :
                  b = [ext |-> k, at |-> l, row |-> of[ExtOrder[k]][l]]
      BY <2>3
    <2>5. i = k /\ j = l
      BY <1>9, <2>2, <2>4
    <2> QED BY <2>2, <2>4, <2>5
  <1> QED BY <1>4, <1>6, <1>8, <1>9

(* What every step keeps: the types, and that whatever is stored, or about to *)
(* be, has a value for each required setting, unless they were declared anew. *)
IsComplete(values) ==
    \A k \in SettingKeys :
       fields[k].required => values[k] # NoValue \/ fields[k].default # NoValue

ContribInv ==
    /\ ContribTypeOK
    /\ ~redeclared => \A v \in settingPuts \cup {settingFile} : v # NoValues => IsComplete(v)

LEMMA ContribBegins == ContribInit => ContribInv
  <1> SUFFICES ASSUME ContribInit PROVE ContribInv
    OBVIOUS
  <1>1. manifests \in [Extensions -> Manifests]
    BY DEF ContribInit, Manifests, EmptyManifest
  <1>2. fields \in [SettingKeys -> Fields \cup {Undeclared}]
    BY DEF ContribInit
  <1>3. settingFile = NoValues /\ NoValues \in [SettingKeys -> Values \cup {NoValue}]
    BY DEF ContribInit, NoValues
  <1>4. putCount \in 0..MaxPuts
    BY ContributionsAssumption DEF ContribInit
  <1> QED BY <1>1, <1>2, <1>3, <1>4 DEF ContribInit, ContribInv, ContribTypeOK

LEMMA DeclareKeeps == ContribInv /\ Declare => ContribInv'
  <1> SUFFICES ASSUME ContribInv, Declare PROVE ContribInv'
    OBVIOUS
  <1>1. manifests \in [Extensions -> Manifests]
    BY DEF ContribInv, ContribTypeOK
  <1>2. PICK x \in Extensions :
          \/ \E o \in OperationSpecs :
                manifests' = [manifests EXCEPT ![x].operations = Append(@, o)]
          \/ \E v \in EventSpecs : manifests' = [manifests EXCEPT ![x].events = Append(@, v)]
          \/ \E h \in HandlerSpecs : manifests' = [manifests EXCEPT ![x].handlers = Append(@, h)]
    BY DEF Declare
  <1>3. /\ manifests[x] \in Manifests
        /\ manifests[x].operations \in Seq(OperationSpecs)
        /\ manifests[x].events \in Seq(EventSpecs)
        /\ manifests[x].handlers \in Seq(HandlerSpecs)
    BY <1>1 DEF Manifests
  <1>4. manifests' \in [Extensions -> Manifests]
    <2>1. CASE \E o \in OperationSpecs :
                  manifests' = [manifests EXCEPT ![x].operations = Append(@, o)]
      <3>1. PICK o \in OperationSpecs :
                  manifests' = [manifests EXCEPT ![x].operations = Append(@, o)]
        BY <2>1
      <3>2. Append(manifests[x].operations, o) \in Seq(OperationSpecs)
        BY <1>3
      <3>3. [manifests[x] EXCEPT !.operations = Append(@, o)] \in Manifests
        BY <1>3, <3>2 DEF Manifests
      <3> QED BY <1>1, <3>1, <3>3
    <2>2. CASE \E v \in EventSpecs :
                  manifests' = [manifests EXCEPT ![x].events = Append(@, v)]
      <3>1. PICK v \in EventSpecs :
                  manifests' = [manifests EXCEPT ![x].events = Append(@, v)]
        BY <2>2
      <3>2. Append(manifests[x].events, v) \in Seq(EventSpecs)
        BY <1>3
      <3>3. [manifests[x] EXCEPT !.events = Append(@, v)] \in Manifests
        BY <1>3, <3>2 DEF Manifests
      <3> QED BY <1>1, <3>1, <3>3
    <2>3. CASE \E h \in HandlerSpecs :
                  manifests' = [manifests EXCEPT ![x].handlers = Append(@, h)]
      <3>1. PICK h \in HandlerSpecs :
                  manifests' = [manifests EXCEPT ![x].handlers = Append(@, h)]
        BY <2>3
      <3>2. Append(manifests[x].handlers, h) \in Seq(HandlerSpecs)
        BY <1>3
      <3>3. [manifests[x] EXCEPT !.handlers = Append(@, h)] \in Manifests
        BY <1>3, <3>2 DEF Manifests
      <3> QED BY <1>1, <3>1, <3>3
    <2> QED BY <1>2, <2>1, <2>2, <2>3
  <1>5. UNCHANGED <<fields, settingFile, settingPuts, putCount, redeclared>>
    BY DEF Declare
  <1> QED BY <1>4, <1>5 DEF ContribInv, ContribTypeOK, IsComplete

LEMMA DeclareSettingKeeps == ContribInv /\ DeclareSetting => ContribInv'
  <1> SUFFICES ASSUME ContribInv, DeclareSetting PROVE ContribInv'
    OBVIOUS
  <1>1. fields' \in [SettingKeys -> Fields \cup {Undeclared}]
    BY DEF ContribInv, ContribTypeOK, DeclareSetting
  <1>2. putCount' \in 0..MaxPuts
    BY ContributionsAssumption DEF ContribInv, ContribTypeOK, DeclareSetting
  <1>3. redeclared' = (settingFile # NoValues \/ settingPuts # {})
    BY DEF DeclareSetting
  <1>4. redeclared' \in BOOLEAN
    BY <1>3
  <1>5. ~redeclared' => settingFile = NoValues /\ settingPuts = {}
    BY <1>3
  <1>6. UNCHANGED <<manifests, settingFile, settingPuts>>
    BY DEF DeclareSetting
  <1>7. NoValues' = NoValues
    BY DEF NoValues
  <1> QED BY <1>1, <1>2, <1>4, <1>5, <1>6, <1>7 DEF ContribInv, ContribTypeOK

LEMMA PutSettingsKeeps == ContribInv /\ PutSettings => ContribInv'
  <1> SUFFICES ASSUME ContribInv, PutSettings PROVE ContribInv'
    OBVIOUS
  <1>1. PICK payload \in [SettingKeys -> Values \cup {NoValue}] :
           /\ payload # NoValues /\ Validate(fields, payload)
           /\ settingPuts' = settingPuts \cup {Merge(settingFile, payload)}
    BY DEF PutSettings
  <1>2. UNCHANGED <<manifests, fields, settingFile, redeclared>> /\ ~redeclared
    BY DEF PutSettings
  <1>3. putCount' \in 0..MaxPuts
    BY ContributionsAssumption DEF ContribInv, ContribTypeOK, PutSettings
  <1> DEFINE merged == Merge(settingFile, payload)
  <1>4. merged \in [SettingKeys -> Values \cup {NoValue}]
    BY DEF ContribInv, ContribTypeOK, Merge
  <1>5. IsComplete(merged)
    BY <1>1 DEF IsComplete, Merge, Validate
  <1>6. settingPuts' = settingPuts \cup {merged}
    BY <1>1
  <1> HIDE DEF merged
  <1>7. ContribTypeOK'
    BY <1>2, <1>3, <1>4, <1>6 DEF ContribInv, ContribTypeOK
  <1>8. \A v \in settingPuts' \cup {settingFile'} : v # NoValues => IsComplete(v)
    BY <1>2, <1>5, <1>6 DEF ContribInv
  <1>9. \A v : IsComplete(v) => IsComplete(v)'
    BY <1>2 DEF IsComplete
  <1> QED BY <1>7, <1>8, <1>9 DEF ContribInv, NoValues

LEMMA WriteSettingFileKeeps == ContribInv /\ WriteSettingFile => ContribInv'
  BY DEF ContribInv, ContribTypeOK, WriteSettingFile, IsComplete, NoValues

LEMMA ContribStep == ContribInv /\ [ContribNext]_contribVars => ContribInv'
  <1> SUFFICES ASSUME ContribInv, [ContribNext]_contribVars PROVE ContribInv'
    OBVIOUS
  <1>1. CASE UNCHANGED contribVars
    BY <1>1 DEF contribVars, ContribInv, ContribTypeOK, IsComplete, NoValues
  <1>2. CASE ContribNext
    BY <1>2, DeclareKeeps, DeclareSettingKeeps, PutSettingsKeeps, WriteSettingFileKeeps
       DEF ContribNext
  <1> QED BY <1>1, <1>2

(* What that tells. *)
LEMMA HooksAndHandlersAreRanked ==
    ASSUME ContribTypeOK
    PROVE  /\ IsFiniteSet(Contributed(AllHooks)) /\ IsFiniteSet(Contributed(AllHandlers))
           /\ \A r \in Contributed(AllHooks) \cup Contributed(AllHandlers) : Ranked(r)
           /\ \A a, b \in Contributed(AllHooks) : a.ext = b.ext /\ a.at = b.at => a = b
           /\ \A a, b \in Contributed(AllHandlers) : a.ext = b.ext /\ a.at = b.at => a = b
  <1>1. ASSUME NEW x \in Extensions
        PROVE  /\ manifests[x].events \in Seq(EventSpecs)
               /\ manifests[x].handlers \in Seq(HandlerSpecs)
    BY DEF ContribTypeOK, Manifests
  <1>2. ASSUME NEW x \in Extensions
        PROVE  /\ \E n \in Nat : DOMAIN AllHooks[x] = 1..n
               /\ \A j \in DOMAIN AllHooks[x] :
                     AllHooks[x][j].priority \in Nat /\ NameRank[AllHooks[x][j].name] \in Nat
    <2>1. AllHooks[x] = DeriveHooks(manifests[x])
      BY DEF AllHooks
    <2>2. DOMAIN AllHooks[x] = DOMAIN manifests[x].events
      BY <2>1 DEF DeriveHooks
    <2>3. DOMAIN manifests[x].events = 1..Len(manifests[x].events)
          /\ Len(manifests[x].events) \in Nat
      BY <1>1
    <2>4. ASSUME NEW j \in DOMAIN AllHooks[x]
          PROVE  AllHooks[x][j].priority \in Nat /\ NameRank[AllHooks[x][j].name] \in Nat
      <3>1. manifests[x].events[j] \in EventSpecs
        BY <1>1, <2>2, <2>4
      <3>2. /\ AllHooks[x][j].priority = manifests[x].events[j].priority
            /\ AllHooks[x][j].name = manifests[x].events[j].operation
        BY <2>1, <2>2, <2>4 DEF DeriveHooks
      <3> QED BY <3>1, <3>2, ContributionsAssumption DEF EventSpecs
    <2> QED BY <2>2, <2>3, <2>4
  <1>3. ASSUME NEW x \in Extensions
        PROVE  /\ \E n \in Nat : DOMAIN AllHandlers[x] = 1..n
               /\ \A j \in DOMAIN AllHandlers[x] :
                     AllHandlers[x][j].priority \in Nat /\ NameRank[AllHandlers[x][j].name] \in Nat
    <2>1. AllHandlers[x] = manifests[x].handlers
      BY DEF AllHandlers
    <2>2. DOMAIN manifests[x].handlers = 1..Len(manifests[x].handlers)
          /\ Len(manifests[x].handlers) \in Nat
      BY <1>1
    <2>3. ASSUME NEW j \in DOMAIN AllHandlers[x]
          PROVE  AllHandlers[x][j].priority \in Nat /\ NameRank[AllHandlers[x][j].name] \in Nat
      <3>1. manifests[x].handlers[j] \in HandlerSpecs
        BY <1>1, <2>1, <2>3
      <3> QED BY <2>1, <3>1, ContributionsAssumption DEF HandlerSpecs
    <2> QED BY <2>1, <2>2, <2>3
  <1> HIDE DEF AllHooks, AllHandlers
  <1>4. /\ IsFiniteSet(Contributed(AllHooks))
        /\ \A a, b \in Contributed(AllHooks) : a.ext = b.ext /\ a.at = b.at => a = b
        /\ \A r \in Contributed(AllHooks) : Ranked(r)
    BY <1>2, ContributedIsFinite DEF Ranked
  <1>5. /\ IsFiniteSet(Contributed(AllHandlers))
        /\ \A a, b \in Contributed(AllHandlers) : a.ext = b.ext /\ a.at = b.at => a = b
        /\ \A r \in Contributed(AllHandlers) : Ranked(r)
    BY <1>3, ContributedIsFinite DEF Ranked
  <1> QED BY <1>4, <1>5

LEMMA ContribInvTells == ContribInv => ContribTypeOK /\ ContributionsAreLawful
  <1> SUFFICES ASSUME ContribInv PROVE ContributionsAreLawful
    BY DEF ContribInv
  <1>1. ContributionsAreAuthorized
    <2> SUFFICES ASSUME NEW x \in Extensions
                 PROVE  LET m == manifests[x] IN
                        /\ \A n \in Range(DeriveActions(m)) \cup Range(DeriveScheduleActions(m)) :
                              IsMethodAuthorized(m, n)
                        /\ \A i \in DOMAIN m.events : IsMethodAuthorized(m, m.events[i].operation)
      BY DEF ContributionsAreAuthorized
    <2> DEFINE m == manifests[x]
    <2>1. \A i \in DOMAIN m.events : DeriveHooks(m)[i].name = m.events[i].operation
      BY DEF DeriveHooks
    <2> HIDE DEF m
    <2>2. \A i \in DOMAIN m.events : IsMethodAuthorized(m, m.events[i].operation)
      BY <2>1 DEF IsMethodAuthorized, MethodPrefixes
    <2>3. \A n \in Range(DeriveActions(m)) \cup Range(DeriveScheduleActions(m)) :
             IsMethodAuthorized(m, n)
      BY DEF IsMethodAuthorized, MethodPrefixes
    <2> QED BY <2>2, <2>3 DEF m
  <1>2. HandlersAreOrdered
    <2> DEFINE Goes(rows) ==
          \A i, j \in DOMAIN rows : i < j => rows[i].row.priority >= rows[j].row.priority
    <2>1. /\ IsFiniteSet(Contributed(AllHooks)) /\ IsFiniteSet(Contributed(AllHandlers))
          /\ \A r \in Contributed(AllHooks) \cup Contributed(AllHandlers) : Ranked(r)
          /\ \A a, b \in Contributed(AllHooks) : a.ext = b.ext /\ a.at = b.at => a = b
          /\ \A a, b \in Contributed(AllHandlers) : a.ext = b.ext /\ a.at = b.at => a = b
      BY HooksAndHandlersAreRanked DEF ContribInv
    <2>2. ASSUME NEW S \in SUBSET Contributed(AllHooks)
          PROVE  Goes(SortedRows(S))
      <3>1. IsFiniteSet(S)
        BY <2>1, <2>2, FS_Subset
      <3> QED BY <2>1, <2>2, <3>1, SortGoesDown
    <2>3. ASSUME NEW S \in SUBSET Contributed(AllHandlers)
          PROVE  Goes(SortedRows(S))
      <3>1. IsFiniteSet(S)
        BY <2>1, <2>3, FS_Subset
      <3> QED BY <2>1, <2>3, <3>1, SortGoesDown
    <2>4. Goes(HooksForEvent("event"))
      <3>1. {r \in Contributed(AllHooks) : r.row.event = "event"} \in SUBSET Contributed(AllHooks)
        OBVIOUS
      <3> QED BY <2>2, <3>1 DEF HooksForEvent
    <2>5. ASSUME NEW stage \in HookStages, NEW slot \in {"any", "slot"}
          PROVE  Goes(PipelineHandlersFor("event", stage, slot))
      <3>1. {r \in Contributed(AllHandlers) :
                  /\ r.row.on = "event" /\ r.row.stage = stage
                  /\ slot # "any" => r.row.slot = slot} \in SUBSET Contributed(AllHandlers)
        OBVIOUS
      <3> QED BY <2>3, <3>1 DEF PipelineHandlersFor
    <2> QED BY <2>4, <2>5 DEF HandlersAreOrdered
  <1>3. RequiredSettingsAreSet
    <2> SUFFICES ASSUME ~redeclared, settingFile # NoValues, NEW k \in SettingKeys,
                        fields[k].required
                 PROVE  Effective(fields, settingFile)[k] # NoValue
      BY DEF RequiredSettingsAreSet
    <2>1. IsComplete(settingFile)
      BY DEF ContribInv
    <2>2. fields[k] \in Fields
      <3>1. fields[k] \in Fields \cup {Undeclared}
        BY DEF ContribInv, ContribTypeOK
      <3> QED BY <3>1 DEF Undeclared
    <2>3. fields[k].type # "none"
      BY <2>2, ContributionsAssumption DEF Fields
    <2> QED BY <2>1, <2>3 DEF IsComplete, Effective
  <1> QED BY <1>1, <1>2, <1>3 DEF ContributionsAreLawful

-----------------------------------------------------------------------------
(* The configuration of an instance. *)

(* The files a request still has to write. *)
Queues == {<<>>, <<"profile", "instance", "server">>, <<"instance", "server">>,
           <<"server">>, <<"profile">>, <<"instance">>, <<"space">>}

ConfFiles(n) == [is : {"missing", "torn", "whole"}, init : BOOLEAN, mark : 0..n, version : 0..n]
Desks(n) == [op : Ops, files : Queues, open : BOOLEAN, next : ConfFiles(n), call : 0..n,
             fresh : BOOLEAN]

ConfTypes ==
    /\ confCalls \in CallNumbers /\ boots \in 0..MaxBoots /\ setups \in Nat /\ up \in BOOLEAN
    /\ confFiles \in [ConfNames -> ConfFiles(confCalls)]
    /\ startup \in [init : BOOLEAN, mark : 0..confCalls]
    /\ desk \in [Clerks -> Desks(confCalls)]
    /\ versions \in [Preferences -> SUBSET ((0..confCalls) \X (0..confCalls))]
    /\ disrupted \subseteq ConfNames

(* What a request is about. *)
DeskIsSound(d) ==
    /\ d.op = "none" => d = FreeDesk
    /\ d.op # "none" => d.files # <<>> /\ d.next.is = "whole"
    /\ d.op = "setup" =>
          /\ d.files \in {<<"profile", "instance", "server">>, <<"instance", "server">>, <<"server">>}
          /\ d.next.init /\ d.next.version = 1
    /\ d.op = "profile" => d.files = <<"profile">>
    /\ d.op = "preference" => d.files \in {<<"instance">>, <<"space">>}
    /\ d.op = "config" => d.files = <<"server">>

DesksAreSound ==
    /\ \A a \in Clerks : DeskIsSound(desk[a])
    /\ \A a \in Clerks : desk[a].open => confFiles[Head(desk[a].files)].is # "missing"
    /\ ~up => boots < MaxBoots /\ \A a \in Clerks : desk[a] = FreeDesk

(* Every setup under way or done is a request. *)
SettingUp == {a \in Clerks : desk[a].op = "setup"}
SetupsAreCalls == setups + Cardinality(SettingUp) <= confCalls

(* A file that nothing disrupted is at one request, and is torn while it is  *)
(* being written only. *)
About(a, f) == f \in ToSet(desk[a].files)
ConfWriting(a, f) == desk[a].open /\ Head(desk[a].files) = f
FilesAreOneRequests ==
    \A f \in ConfNames \ disrupted :
       /\ \A a, b \in Clerks : About(a, f) /\ About(b, f) => a = b
       /\ confFiles[f].is = "torn" <=> \E a \in Clerks : ConfWriting(a, f)

(* Whatever counts as initialized has a profile and preferences. *)
Has(f) == confFiles[f].is # "missing"
InitializedIsFounded ==
    /\ \/ confFiles["server"].is = "whole" /\ confFiles["server"].init
       \/ startup.init
       \/ \E a \in Clerks : desk[a].op = "config" /\ desk[a].next.init
       => Has("profile") /\ Has("instance")
    /\ \A a \in Clerks : desk[a].op = "setup" =>
          /\ Head(desk[a].files) \in {"instance", "server"} => Has("profile")
          /\ Head(desk[a].files) = "server" => Has("instance")

(* Once set up, the configuration and whoever sends it back say so. *)
SetupStays ==
    "server" \notin disrupted /\ setups > 0 =>
       /\ setups = 1 /\ Has("server")
       /\ confFiles["server"].is = "whole" => confFiles["server"].init
       /\ \A a \in Clerks : /\ desk[a].op # "setup"
                            /\ desk[a].op = "config" => desk[a].next.init

(* The version of a preference is the last one it was saved with. *)
VersionsAscend ==
    \A p \in Preferences \ disrupted :
       /\ confFiles[p].is = "missing" => versions[p] = {}
       /\ confFiles[p].is = "whole" => \A v \in versions[p] : v[1] <= confFiles[p].version
       /\ \A a \in Clerks : desk[a].op = "preference" /\ About(a, p) =>
             \A v \in versions[p] : v[1] < desk[a].next.version
       /\ \A v, w \in versions[p] : v[1] = w[1] => v = w

ConfInv ==
    /\ ConfTypes
    /\ DesksAreSound
    /\ SetupsAreCalls
    /\ FilesAreOneRequests
    /\ InitializedIsFounded
    /\ SetupStays
    /\ VersionsAscend

LEMMA QueueIs ==
    ASSUME NEW q \in Queues \ {<<>>}
    PROVE  /\ Head(q) \in ToSet(q) /\ ToSet(q) \subseteq ConfNames /\ q \in Seq(ConfNames)
           /\ Len(q) = 1 => ToSet(q) = {Head(q)}
           /\ Len(q) # 1 =>
                 /\ q \in {<<"profile", "instance", "server">>, <<"instance", "server">>}
                 /\ Tail(q) \in Queues \ {<<>>} /\ ToSet(Tail(q)) = ToSet(q) \ {Head(q)}
  <1>1. CASE q = <<"profile", "instance", "server">>
    <2>1. /\ Head(q) = "profile" /\ Tail(q) = <<"instance", "server">> /\ Len(q) = 3
          /\ ToSet(q) = {"profile", "instance", "server"} /\ q \in Seq(ConfNames)
      BY <1>1 DEF ToSet, ConfNames, Preferences
    <2>2. ToSet(<<"instance", "server">>) = {"instance", "server"}
      BY DEF ToSet
    <2> QED BY <1>1, <2>1, <2>2 DEF Queues, ConfNames, Preferences
  <1>2. CASE q = <<"instance", "server">>
    <2>1. /\ Head(q) = "instance" /\ Tail(q) = <<"server">> /\ Len(q) = 2
          /\ ToSet(q) = {"instance", "server"} /\ q \in Seq(ConfNames)
      BY <1>2 DEF ToSet, ConfNames, Preferences
    <2>2. ToSet(<<"server">>) = {"server"}
      BY DEF ToSet
    <2> QED BY <1>2, <2>1, <2>2 DEF Queues, ConfNames, Preferences
  <1>3. ASSUME NEW f \in {"server", "profile", "instance", "space"}, q = <<f>>
        PROVE  Head(q) = f /\ Len(q) = 1 /\ ToSet(q) = {f} /\ f \in ConfNames /\ q \in Seq(ConfNames)
    BY <1>3 DEF ToSet, ConfNames, Preferences
  <1> QED BY <1>1, <1>2, <1>3 DEF Queues

(* What a request that is about something is about. *)
LEMMA DeskFacts ==
    ASSUME NEW n \in Nat, NEW d \in Desks(n), DeskIsSound(d)
    PROVE  /\ d.op = "none" => ~d.open /\ ToSet(d.files) = {}
           /\ d.op # "none" => d.files \in Queues \ {<<>>} /\ Head(d.files) \in ToSet(d.files)
           /\ d.open => d.op # "none"
           /\ d.op \in {"setup", "config"} => "server" \in ToSet(d.files)
           /\ d.op \in {"setup", "preference"} \/ d.op = "none" \/ Head(d.files) \notin Preferences
           /\ d.op = "setup" => Head(d.files) \in {"profile", "instance", "server"}
                                /\ (Len(d.files) = 1 <=> Head(d.files) = "server")
           /\ d.op \in {"config", "setup"} \/ d.op = "none" \/ Head(d.files) # "server"
           /\ d.op = "preference" => ToSet(d.files) = {Head(d.files)} /\ Len(d.files) = 1
  <1>1. d.op = "none" => d.open = FALSE /\ d.files = <<>>
    BY DEF DeskIsSound, FreeDesk
  <1>2. ToSet(<<>>) = {}
    BY DEF ToSet
  <1>3. d.op # "none" => d.files \in Queues \ {<<>>}
    BY DEF DeskIsSound, Desks
  <1>4. d.op # "none" => Head(d.files) \in ToSet(d.files)
    BY <1>3, QueueIs
  <1>5. d.op = "config" => d.files = <<"server">>
    BY DEF DeskIsSound
  <1>6. d.op = "profile" => d.files = <<"profile">>
    BY DEF DeskIsSound
  <1>7. d.op = "preference" => d.files \in {<<"instance">>, <<"space">>}
    BY DEF DeskIsSound
  <1>8. d.op = "setup" => d.files \in {<<"profile", "instance", "server">>, <<"instance", "server">>,
                                      <<"server">>}
    BY DEF DeskIsSound
  <1>9. \A f : Head(<<f>>) = f /\ Len(<<f>>) = 1 /\ ToSet(<<f>>) = {f}
    BY DEF ToSet
  <1>10. /\ Head(<<"profile", "instance", "server">>) = "profile"
         /\ Head(<<"instance", "server">>) = "instance"
         /\ Len(<<"profile", "instance", "server">>) # 1 /\ Len(<<"instance", "server">>) # 1
         /\ "server" \in ToSet(<<"profile", "instance", "server">>)
         /\ "server" \in ToSet(<<"instance", "server">>)
    BY DEF ToSet
  <1>11. d.op \in Ops
    BY DEF Desks
  <1> QED BY <1>1, <1>2, <1>3, <1>4, <1>5, <1>6, <1>7, <1>8, <1>9, <1>10, <1>11
          DEF Ops, Preferences

LEMMA ConfFacts ==
    ASSUME ConfInv
    PROVE  /\ ConfTypes /\ confCalls \in Nat /\ MaxConfCalls \in Nat /\ setups \in Nat
           /\ \A a \in Clerks : desk[a] \in Desks(confCalls) /\ DeskIsSound(desk[a])
           /\ \A f \in ConfNames : confFiles[f] \in ConfFiles(confCalls)
           /\ confFiles["server"] \in ConfFiles(confCalls) /\ ConfNames \subseteq ConfNames
           /\ LiveServerConfig \in [init : BOOLEAN, mark : 0..confCalls]
  <1>1. ConfTypes /\ confCalls \in Nat /\ MaxConfCalls \in Nat /\ setups \in Nat
    BY ConfAssumption DEF ConfInv, ConfTypes, CallNumbers
  <1>2. confFiles["server"] \in ConfFiles(confCalls)
    BY DEF ConfInv, ConfTypes, ConfNames
  <1>3. LiveServerConfig \in [init : BOOLEAN, mark : 0..confCalls]
    BY <1>1, <1>2 DEF LiveServerConfig, ConfTypes, ConfFiles
  <1> QED BY <1>1, <1>2, <1>3 DEF ConfInv, ConfTypes, DesksAreSound

LEMMA MoreCalls ==
    ASSUME NEW n \in Nat
    PROVE  /\ ConfFiles(n) \subseteq ConfFiles(n + 1) /\ Desks(n) \subseteq Desks(n + 1)
           /\ [init : BOOLEAN, mark : 0..n] \subseteq [init : BOOLEAN, mark : 0..(n + 1)]
           /\ (0..n) \X (0..n) \subseteq (0..(n + 1)) \X (0..(n + 1))
  <1>1. 0..n \subseteq 0..(n + 1)
    OBVIOUS
  <1>2. ConfFiles(n) \subseteq ConfFiles(n + 1)
    BY <1>1 DEF ConfFiles
  <1> QED BY <1>1, <1>2 DEF Desks

(* Who writes a file is about it. *)
LEMMA WritingIsAbout ==
    ASSUME ConfInv, NEW a \in Clerks, NEW f, ConfWriting(a, f)
    PROVE  About(a, f)
  BY ConfFacts, DeskFacts DEF ConfWriting, About

(* A configuration that is there for a request alone says what is in it. *)
LEMMA AloneReadsTheFile ==
    ASSUME ConfInv, NEW a \in Clerks, desk[a].op = "none", NEW fs, "server" \in fs,
           "server" \notin Disrupted(a, fs), setups > 0
    PROVE  LiveServerConfig.init
  <1>1. "server" \notin disrupted /\ \A b \in Clerks \ {a} : ~About(b, "server")
    BY DEF Disrupted, About
  <1>2. ~About(a, "server")
    BY ConfFacts, DeskFacts DEF About
  <1>3. ~\E b \in Clerks : ConfWriting(b, "server")
    BY <1>1, <1>2, WritingIsAbout
  <1>4. confFiles["server"].is # "torn"
    BY <1>1, <1>3 DEF ConfInv, FilesAreOneRequests, ConfNames
  <1>5. confFiles["server"].is # "missing" /\ (confFiles["server"].is = "whole" => confFiles["server"].init)
    BY <1>1 DEF ConfInv, SetupStays, Has
  <1>6. confFiles["server"].is = "whole"
    BY <1>4, <1>5, ConfFacts DEF ConfFiles
  <1> QED BY <1>5, <1>6 DEF LiveServerConfig

LEMMA ArrivesKeeps ==
    ASSUME ConfInv, NEW a \in Clerks, NEW op \in Ops \ {"none"}, NEW files \in Queues \ {<<>>},
           NEW next \in ConfFiles(confCalls + 1), Arrives(a, op, files, next),
           NEW d, d = [op |-> op, files |-> files, open |-> FALSE, next |-> next,
                       call |-> confCalls + 1, fresh |-> TRUE],
           DeskIsSound(d), op = "setup" => Head(files) = "profile",
           op = "config" /\ next.init => Has("profile") /\ Has("instance"),
           "server" \notin disrupted' /\ setups > 0 => op # "setup" /\ (op = "config" => next.init),
           \A p \in Preferences \ disrupted' :
              op = "preference" /\ p \in ToSet(files) =>
                 \A v \in versions[p] : v[1] < next.version
    PROVE  ConfInv'
  <1>1. /\ up /\ desk[a].op = "none" /\ confCalls' = confCalls + 1 /\ confCalls < MaxConfCalls
        /\ desk' = [desk EXCEPT ![a] = d] /\ disrupted' = Disrupted(a, ToSet(files))
        /\ UNCHANGED <<confFiles, startup, up, setups, versions, boots>>
    BY DEF Arrives
  <1>2. /\ d \in Desks(confCalls') /\ d.op = op /\ d.files = files /\ ~d.open /\ d.next = next
    BY <1>1, ConfFacts DEF Desks
  <1>3. desk[a] = FreeDesk /\ ~desk[a].open /\ ToSet(desk[a].files) = {}
    <2>1. DeskIsSound(desk[a]) /\ desk[a] \in Desks(confCalls)
      BY ConfFacts
    <2> QED BY <1>1, <2>1, ConfFacts, DeskFacts DEF DeskIsSound
  <1>4. /\ desk' \in [Clerks -> Desks(confCalls')] /\ desk'[a] = d
        /\ \A b \in Clerks : b # a => desk'[b] = desk[b]
    BY <1>1, <1>2, ConfFacts, MoreCalls DEF ConfTypes
  <1>5. /\ disrupted \subseteq disrupted' /\ disrupted' \subseteq ConfNames
        /\ \A f \in ToSet(files) \ disrupted' : \A b \in Clerks \ {a} : ~About(b, f)
    BY <1>1, QueueIs, ConfFacts DEF Disrupted, About, ConfTypes
  <1>6. ConfTypes'
    <2>1. confFiles' \in [ConfNames -> ConfFiles(confCalls')]
      BY <1>1, ConfFacts, MoreCalls DEF ConfTypes
    <2>2. startup' \in [init : BOOLEAN, mark : 0..confCalls']
      BY <1>1, ConfFacts, MoreCalls DEF ConfTypes
    <2>3. versions' \in [Preferences -> SUBSET ((0..confCalls') \X (0..confCalls'))]
      <3>1. versions \in [Preferences -> SUBSET ((0..confCalls) \X (0..confCalls))]
        BY ConfFacts DEF ConfTypes
      <3> HIDE DEF ConfInv
      <3> QED BY <1>1, <3>1, ConfFacts, MoreCalls
    <2>4. confCalls' \in CallNumbers
      BY <1>1, ConfFacts DEF CallNumbers
    <2> QED BY <1>1, <1>4, <1>5, <2>1, <2>2, <2>3, <2>4, ConfFacts DEF ConfTypes
  <1>7. DesksAreSound'
    BY <1>1, <1>2, <1>4 DEF ConfInv, DesksAreSound
  <1>8. SetupsAreCalls'
    <2>1. IsFiniteSet(SettingUp) /\ a \notin SettingUp
      BY <1>1, FS_Subset, ConfAssumption DEF SettingUp
    <2>2. CASE op = "setup"
      <3>1. SettingUp' = SettingUp \cup {a}
        BY <1>2, <1>4, <2>2 DEF SettingUp
      <3>2. Cardinality(SettingUp') = Cardinality(SettingUp) + 1
        BY <2>1, <3>1, FS_AddElement
      <3> QED BY <1>1, <2>1, <3>2, ConfFacts, FS_CardinalityType DEF ConfInv, SetupsAreCalls
    <2>3. CASE op # "setup"
      <3>1. SettingUp' = SettingUp
        BY <1>1, <1>2, <1>4, <2>3 DEF SettingUp
      <3> QED BY <1>1, <2>1, <3>1, ConfFacts, FS_CardinalityType DEF ConfInv, SetupsAreCalls
    <2> QED BY <2>2, <2>3
  <1>9. FilesAreOneRequests'
    <2> SUFFICES ASSUME NEW f \in ConfNames \ disrupted'
                 PROVE  /\ \A b, c \in Clerks : About(b, f)' /\ About(c, f)' => b = c
                        /\ confFiles'[f].is = "torn" <=> \E b \in Clerks : ConfWriting(b, f)'
      BY DEF FilesAreOneRequests
    <2>1. /\ \A b, c \in Clerks : About(b, f) /\ About(c, f) => b = c
          /\ confFiles[f].is = "torn" <=> \E b \in Clerks : ConfWriting(b, f)
      BY <1>5 DEF ConfInv, FilesAreOneRequests
    <2>2. \A b \in Clerks : b # a => (About(b, f)' <=> About(b, f)) /\ (ConfWriting(b, f)' <=> ConfWriting(b, f))
      BY <1>4 DEF About, ConfWriting
    <2>3. ~ConfWriting(a, f) /\ ~ConfWriting(a, f)' /\ (About(a, f)' <=> f \in ToSet(files))
      BY <1>2, <1>3, <1>4 DEF ConfWriting, About
    <2> QED BY <1>1, <1>5, <2>1, <2>2, <2>3
  <1>10. InitializedIsFounded'
    BY <1>1, <1>2, <1>4 DEF ConfInv, InitializedIsFounded, Has
  <1>11. SetupStays'
    BY <1>1, <1>2, <1>4, <1>5 DEF ConfInv, SetupStays, Has
  <1>12. VersionsAscend'
    BY <1>1, <1>2, <1>4, <1>5 DEF ConfInv, VersionsAscend, About
  <1> QED BY <1>6, <1>7, <1>8, <1>9, <1>10, <1>11, <1>12 DEF ConfInv

LEMMA SetupKeeps ==
    ASSUME ConfInv, NEW a \in Clerks, StartSetup(a)
    PROVE  ConfInv'
  <1> DEFINE next == File("whole", TRUE, confCalls + 1, 1)
             d == [op |-> "setup", files |-> SetupFiles, open |-> FALSE, next |-> next,
                   call |-> confCalls + 1, fresh |-> TRUE]
  <1>1. ~LiveServerConfig.init /\ Arrives(a, "setup", SetupFiles, next)
    BY DEF StartSetup
  <1>2. SetupFiles \in Queues \ {<<>>} /\ Head(SetupFiles) = "profile"
        /\ "server" \in ToSet(SetupFiles) /\ SetupFiles = <<"profile", "instance", "server">>
    BY DEF Queues, SetupFiles, ToSet
  <1>3. next \in ConfFiles(confCalls + 1) /\ next.is = "whole" /\ next.init /\ next.version = 1
    BY ConfFacts DEF File, ConfFiles
  <1> HIDE DEF next
  <1>4. d.op = "setup" /\ d.files = SetupFiles /\ d.next = next
    OBVIOUS
  <1> HIDE DEF d
  <1>5. DeskIsSound(d)
    BY <1>2, <1>3, <1>4 DEF DeskIsSound
  <1>6. desk[a].op = "none" /\ disrupted' = Disrupted(a, ToSet(SetupFiles))
    BY <1>1 DEF Arrives
  <1>7. "server" \notin disrupted' => ~(setups > 0)
    BY <1>1, <1>2, <1>6, AloneReadsTheFile
  <1> QED BY <1>1, <1>2, <1>3, <1>5, <1>7, ArrivesKeeps DEF Ops, d

LEMMA ProfileKeeps ==
    ASSUME ConfInv, NEW a \in Clerks, StartProfile(a)
    PROVE  ConfInv'
  <1> DEFINE p == confFiles["profile"]
             next == File("whole", FALSE, IF p.is = "whole" THEN p.mark ELSE confCalls + 1, 0)
             d == [op |-> "profile", files |-> <<"profile">>, open |-> FALSE, next |-> next,
                   call |-> confCalls + 1, fresh |-> TRUE]
  <1>1. Arrives(a, "profile", <<"profile">>, next)
    BY DEF StartProfile
  <1>2. <<"profile">> \in Queues \ {<<>>}
    BY DEF Queues
  <1>3. next \in ConfFiles(confCalls + 1) /\ next.is = "whole"
    BY ConfFacts DEF File, ConfFiles, ConfNames
  <1> HIDE DEF next
  <1>4. d.op = "profile" /\ d.files = <<"profile">> /\ d.next = next
    OBVIOUS
  <1> HIDE DEF d
  <1>5. DeskIsSound(d)
    BY <1>2, <1>3, <1>4 DEF DeskIsSound
  <1> QED BY <1>1, <1>2, <1>3, <1>5, ArrivesKeeps DEF Ops, d

LEMMA ConfigKeeps ==
    ASSUME ConfInv, NEW a \in Clerks, StartConfig(a)
    PROVE  ConfInv'
  <1> DEFINE next == File("whole", LiveServerConfig.init, confCalls + 1, 0)
             d == [op |-> "config", files |-> <<"server">>, open |-> FALSE, next |-> next,
                   call |-> confCalls + 1, fresh |-> TRUE]
  <1>1. Arrives(a, "config", <<"server">>, next)
    BY DEF StartConfig
  <1>2. <<"server">> \in Queues \ {<<>>} /\ "server" \in ToSet(<<"server">>)
    BY DEF Queues, ToSet
  <1>3. next \in ConfFiles(confCalls + 1) /\ next.is = "whole" /\ next.init = LiveServerConfig.init
    BY ConfFacts DEF File, ConfFiles
  <1> HIDE DEF next
  <1>4. d.op = "config" /\ d.files = <<"server">> /\ d.next = next
    OBVIOUS
  <1> HIDE DEF d
  <1>5. DeskIsSound(d)
    BY <1>2, <1>3, <1>4 DEF DeskIsSound
  <1>6. next.init => Has("profile") /\ Has("instance")
    BY <1>3 DEF LiveServerConfig, ConfInv, InitializedIsFounded
  <1>7. desk[a].op = "none" /\ disrupted' = Disrupted(a, ToSet(<<"server">>))
    BY <1>1 DEF Arrives
  <1>8. "server" \notin disrupted' /\ setups > 0 => next.init
    BY <1>2, <1>3, <1>7, AloneReadsTheFile
  <1> QED BY <1>1, <1>2, <1>3, <1>5, <1>6, <1>8, ArrivesKeeps DEF Ops, d

LEMMA PreferenceKeeps ==
    ASSUME ConfInv, NEW a \in Clerks, NEW p \in Preferences, StartPreference(a, p)
    PROVE  ConfInv'
  <1> DEFINE next == File("whole", FALSE, confCalls + 1, NextVersion(confFiles[p]))
             d == [op |-> "preference", files |-> <<p>>, open |-> FALSE, next |-> next,
                   call |-> confCalls + 1, fresh |-> TRUE]
  <1>1. Arrives(a, "preference", <<p>>, next)
    BY DEF StartPreference
  <1>2. <<p>> \in Queues \ {<<>>} /\ ToSet(<<p>>) = {p} /\ p \in ConfNames
    BY DEF Queues, ToSet, Preferences, ConfNames
  <1>3. confFiles[p] \in ConfFiles(confCalls) /\ confFiles[p].version \in 0..confCalls
    BY <1>2, ConfFacts DEF ConfFiles
  <1>4. next \in ConfFiles(confCalls + 1) /\ next.is = "whole" /\ next.version = NextVersion(confFiles[p])
    BY <1>3, ConfFacts DEF File, ConfFiles, NextVersion
  <1> HIDE DEF next
  <1>5. d.op = "preference" /\ d.files = <<p>> /\ d.next = next
    OBVIOUS
  <1> HIDE DEF d
  <1>6. DeskIsSound(d)
    BY <1>2, <1>4, <1>5 DEF DeskIsSound, Preferences
  <1>7. desk[a].op = "none" /\ disrupted' = Disrupted(a, {p})
    BY <1>1, <1>2 DEF Arrives
  <1>8. p \notin disrupted' => \A v \in versions[p] : v[1] < next.version
    <2> SUFFICES ASSUME p \notin disrupted' PROVE \A v \in versions[p] : v[1] < next.version
      OBVIOUS
    <2>1. p \notin disrupted /\ \A b \in Clerks \ {a} : ~About(b, p)
      BY <1>7 DEF Disrupted, About
    <2>2. ~About(a, p)
      BY <1>7, ConfFacts, DeskFacts DEF About
    <2>3. ~\E b \in Clerks : ConfWriting(b, p)
      BY <2>1, <2>2, WritingIsAbout
    <2>4. confFiles[p].is # "torn"
      BY <1>2, <2>1, <2>3 DEF ConfInv, FilesAreOneRequests
    <2>5. CASE confFiles[p].is = "missing"
      BY <2>1, <2>5 DEF ConfInv, VersionsAscend
    <2>6. CASE confFiles[p].is = "whole"
      <3>1. \A v \in versions[p] : v[1] <= confFiles[p].version /\ v[1] \in Nat
        BY <2>1, <2>6 DEF ConfInv, VersionsAscend, ConfTypes
      <3> QED BY <1>3, <1>4, <2>6, <3>1 DEF NextVersion
    <2> QED BY <1>3, <2>4, <2>5, <2>6 DEF ConfFiles
  <1> QED BY <1>1, <1>2, <1>4, <1>6, <1>8, ArrivesKeeps DEF Ops, d

(* A request that stays about the same files, as they are. *)
LEMMA ReadAgainKeeps ==
    ASSUME ConfInv, NEW a \in Clerks, ReadConfigAgain(a)
    PROVE  ConfInv'
  <1> DEFINE d == [desk[a] EXCEPT !.fresh = FALSE, !.next.mark = LiveServerConfig.mark]
             n == [desk[a].next EXCEPT !.mark = LiveServerConfig.mark]
  <1>1. /\ up /\ desk[a].op = "setup" /\ desk' = [desk EXCEPT ![a] = d]
        /\ UNCHANGED <<confFiles, startup, up, confCalls, setups, versions, disrupted, boots>>
    <2>1. desk' = [desk EXCEPT ![a].fresh = FALSE, ![a].next.mark = LiveServerConfig.mark]
      BY DEF ReadConfigAgain
    <2>2. desk \in [Clerks -> Desks(confCalls)] /\ desk[a] \in Desks(confCalls)
      BY ConfFacts DEF ConfTypes
    <2>3. desk' = [desk EXCEPT ![a] = d]
      BY <2>1, <2>2 DEF Desks, ConfFiles
    <2> QED BY <2>3 DEF ReadConfigAgain
  <1>2. /\ desk[a] \in Desks(confCalls) /\ desk[a].next \in ConfFiles(confCalls)
        /\ LiveServerConfig.mark \in 0..confCalls
    BY ConfFacts DEF Desks
  <1>3. /\ n \in ConfFiles(confCalls) /\ n.is = desk[a].next.is /\ n.init = desk[a].next.init
        /\ n.version = desk[a].next.version
    BY <1>2 DEF ConfFiles
  <1>4. d = [desk[a] EXCEPT !.fresh = FALSE, !.next = n]
    BY <1>2 DEF Desks, ConfFiles
  <1> HIDE DEF d, n
  <1>5. /\ d \in Desks(confCalls) /\ d.op = desk[a].op /\ d.files = desk[a].files
        /\ d.open = desk[a].open /\ d.next = n
    BY <1>2, <1>3, <1>4 DEF Desks
  <1>6. /\ desk' \in [Clerks -> Desks(confCalls)] /\ desk'[a] = d
        /\ \A b \in Clerks : b # a => desk'[b] = desk[b]
    BY <1>1, <1>5, ConfFacts DEF ConfTypes
  <1>7. ConfTypes'
    BY <1>1, <1>6, ConfFacts DEF ConfTypes
  <1>8. DeskIsSound(d)
    <2>1. DeskIsSound(desk[a])
      BY ConfFacts
    <2> QED BY <1>1, <1>3, <1>5, <2>1 DEF DeskIsSound
  <1>9. DesksAreSound'
    BY <1>1, <1>5, <1>6, <1>8 DEF ConfInv, DesksAreSound
  <1>10. SettingUp' = SettingUp
    BY <1>1, <1>5, <1>6 DEF SettingUp
  <1>11. SetupsAreCalls'
    BY <1>1, <1>10 DEF ConfInv, SetupsAreCalls
  <1>12. \A b \in Clerks : \A f : (About(b, f)' <=> About(b, f)) /\ (ConfWriting(b, f)' <=> ConfWriting(b, f))
    BY <1>5, <1>6 DEF About, ConfWriting
  <1>13. FilesAreOneRequests'
    BY <1>1, <1>12 DEF ConfInv, FilesAreOneRequests
  <1>14. InitializedIsFounded'
    BY <1>1, <1>3, <1>5, <1>6 DEF ConfInv, InitializedIsFounded, Has
  <1>15. SetupStays'
    BY <1>1, <1>3, <1>5, <1>6 DEF ConfInv, SetupStays, Has
  <1>16. VersionsAscend'
    BY <1>1, <1>3, <1>5, <1>6, <1>12 DEF ConfInv, VersionsAscend
  <1> QED BY <1>7, <1>9, <1>11, <1>13, <1>14, <1>15, <1>16 DEF ConfInv

LEMMA TornIs == \A n \in Nat : Torn \in ConfFiles(n) /\ Torn.is = "torn"
  BY DEF Torn, File, ConfFiles

LEMMA TruncateKeeps ==
    ASSUME ConfInv, NEW a \in Clerks, Truncate(a)
    PROVE  ConfInv'
  <1> DEFINE d == [desk[a] EXCEPT !.open = TRUE]
             g == Head(desk[a].files)
  <1>1. /\ up /\ desk[a].op # "none" /\ ~desk[a].open
        /\ confFiles' = [confFiles EXCEPT ![g] = Torn]
        /\ desk' = [desk EXCEPT ![a] = d]
        /\ UNCHANGED <<startup, up, confCalls, setups, versions, disrupted, boots>>
    BY DEF Truncate
  <1>2. desk[a] \in Desks(confCalls) /\ DeskIsSound(desk[a])
    BY ConfFacts
  <1>3. /\ d \in Desks(confCalls) /\ d.op = desk[a].op /\ d.files = desk[a].files
        /\ d.open = TRUE /\ d.next = desk[a].next
    BY <1>2 DEF Desks
  <1>4. g \in ConfNames /\ About(a, g)
    BY <1>1, <1>2, ConfFacts, DeskFacts, QueueIs DEF About
  <1> HIDE DEF d, g
  <1>5. /\ desk' \in [Clerks -> Desks(confCalls)] /\ desk'[a] = d
        /\ \A b \in Clerks : b # a => desk'[b] = desk[b]
    BY <1>1, <1>3, ConfFacts DEF ConfTypes
  <1>6. /\ confFiles' \in [ConfNames -> ConfFiles(confCalls)] /\ confFiles'[g].is = "torn"
        /\ \A f \in ConfNames : f # g => confFiles'[f] = confFiles[f]
        /\ \A f \in ConfNames : Has(f) => Has(f)'
    BY <1>1, <1>4, ConfFacts, TornIs DEF ConfTypes, Has
  <1>7. ConfTypes'
    BY <1>1, <1>5, <1>6, ConfFacts DEF ConfTypes
  <1>8. DeskIsSound(d)
    BY <1>1, <1>2, <1>3 DEF DeskIsSound
  <1>9. DesksAreSound'
    <2>1. ASSUME NEW b \in Clerks, desk'[b].open
          PROVE  confFiles'[Head(desk'[b].files)].is # "missing"
      <3>1. CASE b = a
        BY <1>3, <1>5, <1>6, <3>1 DEF g
      <3>2. CASE b # a
        <4>1. desk[b].open /\ desk'[b] = desk[b] /\ Has(Head(desk[b].files))
          BY <1>5, <2>1, <3>2 DEF ConfInv, DesksAreSound, Has
        <4>2. desk[b].files \in Queues \ {<<>>}
          BY <4>1, ConfFacts, DeskFacts
        <4>3. Head(desk[b].files) \in ConfNames
          BY <4>2, QueueIs
        <4> QED BY <1>6, <4>1, <4>3 DEF Has
      <3> QED BY <3>1, <3>2
    <2> QED BY <1>1, <1>5, <1>8, <2>1 DEF ConfInv, DesksAreSound
  <1>10. SettingUp' = SettingUp
    BY <1>3, <1>5 DEF SettingUp
  <1>11. SetupsAreCalls'
    BY <1>1, <1>10 DEF ConfInv, SetupsAreCalls
  <1>12. /\ \A b \in Clerks : \A f : About(b, f)' <=> About(b, f)
         /\ \A b \in Clerks : \A f : b # a => (ConfWriting(b, f)' <=> ConfWriting(b, f))
         /\ \A f : ConfWriting(a, f)' <=> f = g
         /\ \A f : ~ConfWriting(a, f)
    BY <1>1, <1>3, <1>5 DEF About, ConfWriting, g
  <1>13. FilesAreOneRequests'
    BY <1>1, <1>6, <1>12 DEF ConfInv, FilesAreOneRequests
  <1>14. InitializedIsFounded'
    <2>1. "server" \in ConfNames /\ "profile" \in ConfNames /\ "instance" \in ConfNames
      BY DEF ConfNames, Preferences
    <2>2. confFiles'["server"].is = "whole" => confFiles'["server"] = confFiles["server"]
      BY <1>6, <2>1
    <2> QED BY <1>1, <1>3, <1>5, <1>6, <2>1, <2>2 DEF ConfInv, InitializedIsFounded
  <1>15. SetupStays'
    <2>1. "server" \in ConfNames
      BY DEF ConfNames
    <2>2. confFiles'["server"].is = "whole" => confFiles'["server"] = confFiles["server"]
      BY <1>6, <2>1
    <2> QED BY <1>1, <1>3, <1>5, <1>6, <2>1, <2>2 DEF ConfInv, SetupStays
  <1>16. VersionsAscend'
    <2>1. \A p \in Preferences : p \in ConfNames
      BY DEF ConfNames
    <2> QED BY <1>1, <1>3, <1>5, <1>6, <1>12, <2>1 DEF ConfInv, VersionsAscend
  <1> QED BY <1>7, <1>9, <1>11, <1>13, <1>14, <1>15, <1>16 DEF ConfInv

LEMMA AfterFileIs ==
    ASSUME NEW n \in Nat, NEW d \in Desks(n), DeskIsSound(d), d.op # "none"
    PROVE  /\ AfterFile(d) \in Desks(n) /\ DeskIsSound(AfterFile(d)) /\ ~AfterFile(d).open
           /\ ToSet(AfterFile(d).files) = ToSet(d.files) \ {Head(d.files)}
           /\ Len(d.files) = 1 => AfterFile(d).op = "none" /\ AfterFile(d) = FreeDesk
           /\ Len(d.files) # 1 => /\ AfterFile(d).op = "setup" /\ d.op = "setup"
                                  /\ AfterFile(d).next = d.next
           /\ AfterFile(d).op = "setup" =>
                 \/ Head(d.files) = "profile" /\ Head(AfterFile(d).files) = "instance"
                 \/ Head(d.files) = "instance" /\ Head(AfterFile(d).files) = "server"
  <1>1. d.files \in Queues \ {<<>>}
    BY DEF DeskIsSound, Desks
  <1>2. CASE Len(d.files) = 1
    <2>1. AfterFile(d) = FreeDesk
      BY <1>2 DEF AfterFile
    <2>2. /\ FreeDesk \in Desks(n) /\ FreeDesk.op = "none" /\ ~FreeDesk.open /\ FreeDesk.files = <<>>
      BY DEF FreeDesk, Desks, Ops, Queues, NoFile, File, ConfFiles
    <2>3. ToSet(d.files) = {Head(d.files)} /\ ToSet(<<>>) = {}
      BY <1>1, <1>2, QueueIs DEF ToSet
    <2> QED BY <1>2, <2>1, <2>2, <2>3 DEF DeskIsSound
  <1>3. CASE Len(d.files) # 1
    <2>1. /\ d.files \in {<<"profile", "instance", "server">>, <<"instance", "server">>}
          /\ Tail(d.files) \in Queues \ {<<>>}
          /\ ToSet(Tail(d.files)) = ToSet(d.files) \ {Head(d.files)}
      BY <1>1, <1>3, QueueIs
    <2>2. d.op = "setup"
      <3>1. \A f : <<f>> # <<"profile", "instance", "server">> /\ <<f>> # <<"instance", "server">>
        OBVIOUS
      <3> QED BY <2>1, <3>1 DEF DeskIsSound, Desks, Ops
    <2> DEFINE e == [d EXCEPT !.files = Tail(@), !.open = FALSE]
    <2>3. AfterFile(d) = e
      BY <1>3 DEF AfterFile
    <2>4. /\ e \in Desks(n) /\ e.op = "setup" /\ e.files = Tail(d.files) /\ ~e.open /\ e.next = d.next
      BY <2>1, <2>2 DEF Desks
    <2> HIDE DEF e
    <2>5. \/ /\ d.files = <<"profile", "instance", "server">>
             /\ Tail(d.files) = <<"instance", "server">> /\ Head(d.files) = "profile"
             /\ Head(Tail(d.files)) = "instance"
          \/ /\ d.files = <<"instance", "server">>
             /\ Tail(d.files) = <<"server">> /\ Head(d.files) = "instance"
             /\ Head(Tail(d.files)) = "server"
      <3>1. /\ Tail(<<"profile", "instance", "server">>) = <<"instance", "server">>
            /\ Head(<<"profile", "instance", "server">>) = "profile"
            /\ Head(<<"instance", "server">>) = "instance"
            /\ Tail(<<"instance", "server">>) = <<"server">> /\ Head(<<"server">>) = "server"
        OBVIOUS
      <3> QED BY <2>1, <3>1
    <2>6. DeskIsSound(e)
      BY <2>1, <2>2, <2>4, <2>5 DEF DeskIsSound
    <2> QED BY <1>3, <2>1, <2>2, <2>3, <2>4, <2>5, <2>6
  <1> QED BY <1>2, <1>3

Text(x, g, c) ==
    IF g = "profile" THEN [x EXCEPT !.init = FALSE, !.version = 0]
    ELSE IF g = "server" THEN [x EXCEPT !.version = 0]
    ELSE [x EXCEPT !.init = FALSE, !.mark = c]

LEMMA TextIs ==
    ASSUME NEW n \in Nat, NEW x \in ConfFiles(n), NEW g, NEW c \in 0..n
    PROVE  /\ Text(x, g, c) \in ConfFiles(n) /\ Text(x, g, c).is = x.is
           /\ g = "server" => Text(x, g, c).init = x.init
           /\ g \in Preferences => Text(x, g, c).version = x.version
  <1>1. CASE g = "profile"
    <2> DEFINE p == [x EXCEPT !.init = FALSE, !.version = 0]
    <2>1. p \in ConfFiles(n) /\ p.is = x.is
      <3> DEFINE y == [x EXCEPT !.init = FALSE]
                 z == [y EXCEPT !.version = 0]
      <3>1. y \in ConfFiles(n) /\ y.is = x.is
        BY DEF ConfFiles
      <3>2. p = z
        OBVIOUS
      <3> HIDE DEF y, p
      <3>3. z \in ConfFiles(n) /\ z.is = y.is
        BY <3>1 DEF ConfFiles
      <3> HIDE DEF z
      <3> QED BY <3>1, <3>2, <3>3
    <2> HIDE DEF p
    <2>2. Text(x, g, c) = p
      BY <1>1 DEF Text, p
    <2> QED BY <1>1, <2>1, <2>2 DEF ConfFiles, Preferences
  <1>2. CASE g = "server"
    <2> DEFINE s == [x EXCEPT !.version = 0]
    <2>1. s \in ConfFiles(n) /\ s.is = x.is /\ s.init = x.init
      BY DEF ConfFiles
    <2> HIDE DEF s
    <2>2. Text(x, g, c) = s
      BY <1>2 DEF Text, s
    <2> QED BY <1>2, <2>1, <2>2 DEF ConfFiles, Preferences
  <1>3. CASE g \notin {"profile", "server"}
    <2> DEFINE u == [x EXCEPT !.init = FALSE, !.mark = c]
    <2>1. u \in ConfFiles(n) /\ u.is = x.is /\ u.version = x.version
      BY DEF ConfFiles
    <2> HIDE DEF u
    <2>2. Text(x, g, c) = u
      BY <1>3 DEF Text, u
    <2> QED BY <1>3, <2>1, <2>2 DEF ConfFiles, Preferences
  <1> QED BY <1>1, <1>2, <1>3

LEMMA WriteOutKeeps ==
    ASSUME ConfInv, NEW a \in Clerks, WriteOut(a)
    PROVE  ConfInv'
  <1> DEFINE d == desk[a]
             g == Head(d.files)
             e == AfterFile(d)
             text == Text(d.next, g, d.call)
  <1>1. /\ up /\ d.open
        /\ \/ confFiles' = [confFiles EXCEPT ![g] = text]
           \/ confFiles[g].is = "whole" /\ confFiles' = [confFiles EXCEPT ![g] = Torn]
        /\ desk' = [desk EXCEPT ![a] = e]
        /\ setups' = IF d.op = "setup" /\ Len(d.files) = 1 THEN setups + 1 ELSE setups
        /\ versions' = IF g \in Preferences
                       THEN [versions EXCEPT ![g] =
                                {<<d.next.version, d.call>>}
                                    \cup IF d.op = "setup" THEN {} ELSE @]
                       ELSE versions
        /\ UNCHANGED <<startup, up, confCalls, disrupted, boots>>
    BY DEF WriteOut, Text
  <1>2. d \in Desks(confCalls) /\ DeskIsSound(d) /\ confCalls \in Nat
    BY ConfFacts
  <1>3. /\ d.op # "none" /\ d.files \in Queues \ {<<>>} /\ g \in ToSet(d.files) /\ g \in ConfNames
        /\ d.next \in ConfFiles(confCalls) /\ d.next.is = "whole" /\ d.call \in 0..confCalls
        /\ d.next.version \in 0..confCalls
    <2>1. d.op # "none" /\ d.files \in Queues \ {<<>>} /\ g \in ToSet(d.files)
      BY <1>1, <1>2, DeskFacts
    <2>2. g \in ConfNames
      BY <2>1, QueueIs
    <2>3. d.next \in ConfFiles(confCalls) /\ d.next.is = "whole" /\ d.call \in 0..confCalls
      BY <1>2, <2>1 DEF Desks, DeskIsSound
    <2> QED BY <2>1, <2>2, <2>3 DEF ConfFiles
  <1>4. /\ d.op \in {"setup", "config"} => "server" \in ToSet(d.files)
        /\ d.op = "setup" => /\ g \in {"profile", "instance", "server"}
                             /\ (Len(d.files) = 1 <=> g = "server")
                             /\ d.next.init /\ d.next.version = 1
        /\ d.op \in {"setup", "preference"} \/ g \notin Preferences
        /\ d.op \in {"setup", "config"} \/ g # "server"
        /\ d.op = "preference" => ToSet(d.files) = {g}
    BY <1>2, <1>3, DeskFacts DEF DeskIsSound
  <1>5. /\ text \in ConfFiles(confCalls) /\ text.is = "whole"
        /\ g = "server" => text.init = d.next.init
        /\ g \in Preferences => text.version = d.next.version
    <2> DEFINE x == d.next
               i == d.call
    <2>1. x \in ConfFiles(confCalls) /\ i \in 0..confCalls /\ x.is = "whole"
      BY <1>3
    <2> QED BY <1>2, <2>1, TextIs DEF Preferences
  <1>6. /\ e \in Desks(confCalls) /\ DeskIsSound(e) /\ ~e.open
        /\ ToSet(e.files) = ToSet(d.files) \ {g}
        /\ Len(d.files) = 1 => e.op = "none"
        /\ Len(d.files) # 1 => e.op = "setup" /\ d.op = "setup" /\ e.next = d.next
        /\ e.op = "setup" => \/ g = "profile" /\ Head(e.files) = "instance"
                             \/ g = "instance" /\ Head(e.files) = "server"
    BY <1>2, <1>3, AfterFileIs
  <1> HIDE DEF e, text
  <1>7. PICK c \in ConfFiles(confCalls) :
           /\ confFiles' = [confFiles EXCEPT ![g] = c]
           /\ c = text \/ (c.is = "torn" /\ confFiles[g].is = "whole")
    <2>1. CASE confFiles' = [confFiles EXCEPT ![g] = text]
      BY <1>5, <2>1
    <2>2. CASE confFiles[g].is = "whole" /\ confFiles' = [confFiles EXCEPT ![g] = Torn]
      BY <1>2, <2>2, TornIs
    <2> QED BY <1>1, <2>1, <2>2
  <1>8. /\ desk' \in [Clerks -> Desks(confCalls)] /\ desk'[a] = e
        /\ \A b \in Clerks : b # a => desk'[b] = desk[b]
    BY <1>1, <1>6, ConfFacts DEF ConfTypes
  <1>9. /\ confFiles' \in [ConfNames -> ConfFiles(confCalls)] /\ confFiles'[g] = c
        /\ \A f \in ConfNames : f # g => confFiles'[f] = confFiles[f]
        /\ c.is # "missing"
        /\ \A f \in ConfNames : Has(f) => Has(f)'
    BY <1>3, <1>5, <1>7, ConfFacts DEF ConfTypes, Has
  <1>10. setups' \in Nat /\ versions' \in [Preferences -> SUBSET ((0..confCalls) \X (0..confCalls))]
    <2>1. setups' \in Nat
      BY <1>1, ConfFacts
    <2>2. versions \in [Preferences -> SUBSET ((0..confCalls) \X (0..confCalls))]
      BY ConfFacts DEF ConfTypes
    <2> QED BY <1>1, <1>3, <2>1, <2>2
  <1>11. ConfTypes'
    BY <1>1, <1>8, <1>9, <1>10, ConfFacts DEF ConfTypes
  <1>12. /\ \A b \in Clerks : \A f : b # a => (About(b, f)' <=> About(b, f)) /\ (ConfWriting(b, f)' <=> ConfWriting(b, f))
         /\ \A f : About(a, f)' <=> About(a, f) /\ f # g
         /\ \A f : ~ConfWriting(a, f)' /\ (ConfWriting(a, f) <=> f = g)
         /\ About(a, g)
    BY <1>1, <1>3, <1>6, <1>8 DEF About, ConfWriting
  <1>13. DesksAreSound'
    <2>1. ASSUME NEW b \in Clerks, desk'[b].open
          PROVE  confFiles'[Head(desk'[b].files)].is # "missing"
      <3>1. b # a /\ desk'[b] = desk[b] /\ desk[b].open /\ Has(Head(desk[b].files))
        BY <1>6, <1>8, <2>1 DEF ConfInv, DesksAreSound, Has
      <3>2. desk[b].files \in Queues \ {<<>>}
        BY <3>1, ConfFacts, DeskFacts
      <3>3. Head(desk[b].files) \in ConfNames
        BY <3>2, QueueIs
      <3> QED BY <1>9, <3>1, <3>3 DEF Has
    <2> QED BY <1>1, <1>6, <1>8, <2>1 DEF ConfInv, DesksAreSound
  <1>14. SetupsAreCalls'
    <2>1. IsFiniteSet(SettingUp)
      BY FS_Subset, ConfAssumption DEF SettingUp
    <2>2. CASE d.op = "setup" /\ Len(d.files) = 1
      <3>1. SettingUp' = SettingUp \ {a} /\ a \in SettingUp
        BY <1>6, <1>8, <2>2 DEF SettingUp
      <3>2. Cardinality(SettingUp') = Cardinality(SettingUp) - 1
        BY <2>1, <3>1, FS_RemoveElement
      <3> QED BY <1>1, <2>1, <2>2, <3>2, ConfFacts, FS_CardinalityType DEF ConfInv, SetupsAreCalls
    <2>3. CASE ~(d.op = "setup" /\ Len(d.files) = 1)
      <3>1. SettingUp' = SettingUp
        BY <1>6, <1>8, <2>3 DEF SettingUp
      <3> QED BY <1>1, <2>3, <3>1 DEF ConfInv, SetupsAreCalls
    <2> QED BY <2>2, <2>3
  <1>15. ASSUME NEW f \in ConfNames \ disrupted, f = g
         PROVE  /\ confFiles'[f] = text /\ \A b \in Clerks : b # a => ~About(b, f) /\ ~ConfWriting(b, f)
    <2>1. confFiles[g].is = "torn"
      BY <1>12, <1>15 DEF ConfInv, FilesAreOneRequests
    <2>2. \A b \in Clerks : b # a => ~About(b, f)
      BY <1>12, <1>15 DEF ConfInv, FilesAreOneRequests
    <2> QED BY <1>7, <1>9, <1>15, <2>1, <2>2, WritingIsAbout
  <1>16. FilesAreOneRequests'
    <2> SUFFICES ASSUME NEW f \in ConfNames \ disrupted
                 PROVE  /\ \A b, i \in Clerks : About(b, f)' /\ About(i, f)' => b = i
                        /\ confFiles'[f].is = "torn" <=> \E b \in Clerks : ConfWriting(b, f)'
      BY <1>1 DEF FilesAreOneRequests
    <2>1. /\ \A b, i \in Clerks : About(b, f) /\ About(i, f) => b = i
          /\ confFiles[f].is = "torn" <=> \E b \in Clerks : ConfWriting(b, f)
      BY DEF ConfInv, FilesAreOneRequests
    <2>2. CASE f = g
      BY <1>5, <1>12, <1>15, <2>1, <2>2
    <2>3. CASE f # g
      BY <1>9, <1>12, <2>1, <2>3
    <2> QED BY <2>2, <2>3
  <1>17. InitializedIsFounded'
    <2>1. "server" \in ConfNames /\ "profile" \in ConfNames /\ "instance" \in ConfNames
      BY DEF ConfNames, Preferences
    <2>2. confFiles'["server"].is = "whole" /\ confFiles'["server"].init =>
             Has("profile") /\ Has("instance")
      <3>1. CASE g = "server"
        BY <1>4, <1>5, <1>7, <1>9, <3>1 DEF ConfInv, InitializedIsFounded
      <3>2. CASE g # "server"
        BY <1>9, <2>1, <3>2 DEF ConfInv, InitializedIsFounded
      <3> QED BY <3>1, <3>2
    <2>3. ASSUME NEW b \in Clerks, desk'[b].op = "config" /\ desk'[b].next.init
          PROVE  Has("profile") /\ Has("instance")
      BY <1>6, <1>8, <2>3 DEF ConfInv, InitializedIsFounded
    <2>4. ASSUME NEW b \in Clerks, desk'[b].op = "setup"
          PROVE  /\ Head(desk'[b].files) \in {"instance", "server"} => Has("profile")'
                 /\ Head(desk'[b].files) = "server" => Has("instance")'
      <3>1. CASE b # a
        BY <1>8, <1>9, <2>1, <2>4, <3>1 DEF ConfInv, InitializedIsFounded
      <3>2. CASE b = a
        <4>1. confFiles'[g].is # "missing"
          BY <1>9
        <4>2. d.op = "setup" /\ (g = "instance" => Has("profile")')
          BY <1>6, <1>8, <1>9, <2>1, <2>4, <3>2 DEF ConfInv, InitializedIsFounded
        <4> QED BY <1>6, <1>8, <2>4, <3>2, <4>1, <4>2 DEF Has
      <3> QED BY <3>1, <3>2
    <2> QED BY <1>1, <1>9, <2>1, <2>2, <2>3, <2>4 DEF ConfInv, InitializedIsFounded
  <1>18. SetupStays'
    <2> SUFFICES ASSUME "server" \notin disrupted, setups' > 0
                 PROVE  /\ setups' = 1 /\ Has("server")'
                        /\ confFiles'["server"].is = "whole" => confFiles'["server"].init
                        /\ \A b \in Clerks : /\ desk'[b].op # "setup"
                                             /\ desk'[b].op = "config" => desk'[b].next.init
      BY <1>1 DEF SetupStays
    <2>1. "server" \in ConfNames
      BY DEF ConfNames
    <2>2. setups > 0 => /\ setups = 1 /\ Has("server")
                        /\ confFiles["server"].is = "whole" => confFiles["server"].init
                        /\ \A b \in Clerks : /\ desk[b].op # "setup"
                                             /\ desk[b].op = "config" => desk[b].next.init
      BY DEF ConfInv, SetupStays
    <2>3. CASE g = "server"
      <3>1. confFiles'["server"] = text /\ \A b \in Clerks : b # a => ~About(b, "server")
        BY <1>15, <2>1, <2>3
      <3>2. \A b \in Clerks : b # a => desk'[b].op \notin {"setup", "config"}
        BY <1>8, <3>1, ConfFacts, DeskFacts DEF About
      <3>3. e.op = "none"
        BY <1>6, <2>3
      <3>4. CASE d.op = "setup"
        <4>1. ~(setups > 0) /\ setups' = setups + 1
          BY <1>1, <1>4, <2>2, <2>3, <3>4
        <4>2. setups' = 1
          BY <4>1, ConfFacts
        <4> QED BY <1>4, <1>5, <1>8, <1>9, <2>3, <3>1, <3>2, <3>3, <3>4, <4>2 DEF Has
      <3>5. CASE d.op = "config"
        <4>1. setups' = setups
          BY <1>1, <3>5
        <4> QED BY <1>5, <1>8, <1>9, <2>2, <2>3, <3>1, <3>2, <3>3, <3>5, <4>1 DEF Has
      <3> QED BY <1>4, <2>3, <3>4, <3>5
    <2>4. CASE g # "server"
      <3>1. setups' = setups
        BY <1>1, <1>4, <2>4
      <3>2. /\ setups = 1 /\ Has("server")
            /\ confFiles["server"].is = "whole" => confFiles["server"].init
            /\ \A b \in Clerks : /\ desk[b].op # "setup"
                                 /\ desk[b].op = "config" => desk[b].next.init
        BY <2>2, <3>1
      <3>3. e.op = "none"
        BY <1>6, <3>2
      <3> QED BY <1>8, <1>9, <2>1, <2>4, <3>1, <3>2, <3>3
    <2> QED BY <2>3, <2>4
  <1>19. VersionsAscend'
    <2> SUFFICES ASSUME NEW p \in Preferences \ disrupted
                 PROVE  /\ confFiles'[p].is = "missing" => versions'[p] = {}
                        /\ confFiles'[p].is = "whole" =>
                              \A v \in versions'[p] : v[1] <= confFiles'[p].version
                        /\ \A b \in Clerks : desk'[b].op = "preference" /\ About(b, p)' =>
                              \A v \in versions'[p] : v[1] < desk'[b].next.version
                        /\ \A v, w \in versions'[p] : v[1] = w[1] => v = w
      BY <1>1 DEF VersionsAscend
    <2>1. p \in ConfNames /\ p \in Preferences
      BY DEF ConfNames
    <2>2. /\ confFiles[p].is = "missing" => versions[p] = {}
          /\ confFiles[p].is = "whole" => \A v \in versions[p] : v[1] <= confFiles[p].version
          /\ \A b \in Clerks : desk[b].op = "preference" /\ About(b, p) =>
                \A v \in versions[p] : v[1] < desk[b].next.version
          /\ \A v, w \in versions[p] : v[1] = w[1] => v = w
      BY DEF ConfInv, VersionsAscend
    <2>3. CASE p # g
      <3>1. versions'[p] = versions[p]
        BY <1>1, <2>1, <2>3, ConfFacts DEF ConfTypes
      <3>2. \A b \in Clerks : desk'[b].op = "preference" => b # a /\ desk'[b] = desk[b]
        BY <1>6, <1>8
      <3> QED BY <1>9, <1>12, <2>1, <2>2, <2>3, <3>1, <3>2
    <2>4. CASE p = g
      <3>1. /\ confFiles'[p] = text /\ text.is = "whole" /\ text.version = d.next.version
            /\ \A b \in Clerks : b # a => ~About(b, p)
        BY <1>5, <1>15, <2>1, <2>4
      <3>2. \A b \in Clerks : ~About(b, p)'
        BY <1>12, <2>4, <3>1
      <3> DEFINE new == <<d.next.version, d.call>>
                 kept == IF d.op = "setup" THEN {} ELSE versions[p]
      <3>3. versions'[p] = {new} \cup kept
        BY <1>1, <2>1, <2>4, ConfFacts DEF ConfTypes
      <3>4. \A v \in kept : v \in (0..confCalls) \X (0..confCalls) /\ v[1] < d.next.version
        <4>1. CASE d.op = "setup"
          BY <4>1
        <4>2. CASE d.op = "preference"
          <5>1. \A v \in versions[p] : v[1] < d.next.version
            BY <1>12, <2>2, <2>4, <4>2
          <5>2. versions[p] \subseteq (0..confCalls) \X (0..confCalls)
            BY <2>1, ConfFacts DEF ConfTypes
          <5> QED BY <4>2, <5>1, <5>2
        <4> QED BY <1>4, <2>1, <2>4, <4>1, <4>2
      <3>5. kept \subseteq versions[p] /\ new[1] = d.next.version
        OBVIOUS
      <3> HIDE DEF new, kept
      <3>6. \A v \in versions'[p] : v = new \/ (v \in kept /\ v[1] < new[1] /\ v[1] \in Nat)
        <4> SUFFICES ASSUME NEW v \in kept PROVE v[1] < new[1] /\ v[1] \in Nat
          BY <3>3, <3>5
        <4>1. v \in (0..confCalls) \X (0..confCalls) /\ v[1] < d.next.version
          BY <3>4
        <4>2. v[1] \in Nat
          BY <4>1
        <4> QED BY <3>5, <4>1, <4>2
      <3>7. new[1] \in Nat
        BY <1>3, <3>5
      <3>8. \A v \in versions'[p] : v[1] <= new[1]
        BY <3>6, <3>7
      <3>9. \A v, w \in versions'[p] : v[1] = w[1] => v = w
        BY <2>2, <3>5, <3>6, <3>7
      <3> QED BY <3>1, <3>2, <3>5, <3>8, <3>9
    <2> QED BY <2>3, <2>4
  <1> QED BY <1>11, <1>13, <1>14, <1>16, <1>17, <1>18, <1>19 DEF ConfInv

LEMMA FreeDeskIs ==
    /\ \A n \in Nat : FreeDesk \in Desks(n)
    /\ FreeDesk.op = "none" /\ ~FreeDesk.open /\ DeskIsSound(FreeDesk) /\ ToSet(FreeDesk.files) = {}
  <1>1. /\ \A n \in Nat : FreeDesk \in Desks(n)
        /\ FreeDesk.op = "none" /\ ~FreeDesk.open /\ FreeDesk.files = <<>>
    BY DEF FreeDesk, Desks, Ops, Queues, NoFile, File, ConfFiles
  <1> QED BY <1>1 DEF DeskIsSound, ToSet

LEMMA DiesKeeps ==
    ASSUME ConfInv, ServerDies
    PROVE  ConfInv'
  <1>1. /\ ~up' /\ desk' = [b \in Clerks |-> FreeDesk]
        /\ disrupted' = disrupted \cup {Head(desk[b].files) : b \in {i \in Clerks : desk[i].open}}
        /\ UNCHANGED <<confFiles, startup, confCalls, setups, versions, boots>>
    BY DEF ServerDies
  <1>2. disrupted' \subseteq ConfNames /\ disrupted \subseteq disrupted'
    <2>1. ASSUME NEW b \in Clerks, desk[b].open PROVE Head(desk[b].files) \in ConfNames
      <3>1. desk[b].files \in Queues \ {<<>>}
        BY <2>1, ConfFacts, DeskFacts
      <3> QED BY <3>1, QueueIs
    <2> QED BY <1>1, <2>1, ConfFacts DEF ConfTypes
  <1>3. ConfTypes'
    BY <1>1, <1>2, FreeDeskIs, ConfFacts DEF ConfTypes, ServerDies
  <1>4. DesksAreSound'
    BY <1>1, FreeDeskIs DEF DesksAreSound, ServerDies
  <1>5. SetupsAreCalls'
    <2>1. SettingUp' = {} /\ Cardinality({}) = 0
      BY <1>1, FreeDeskIs, FS_EmptySet DEF SettingUp
    <2>2. IsFiniteSet(SettingUp)
      BY FS_Subset, ConfAssumption DEF SettingUp
    <2> QED BY <1>1, <2>1, <2>2, ConfFacts, FS_CardinalityType DEF ConfInv, SetupsAreCalls
  <1>6. FilesAreOneRequests'
    <2>1. \A b \in Clerks : \A f : ~About(b, f)' /\ ~ConfWriting(b, f)'
      BY <1>1, FreeDeskIs DEF About, ConfWriting
    <2>2. ASSUME NEW f \in ConfNames \ disrupted' PROVE confFiles[f].is # "torn"
      <3>1. ~\E b \in Clerks : ConfWriting(b, f)
        BY <1>1, <2>2 DEF ConfWriting
      <3> QED BY <1>2, <2>2, <3>1 DEF ConfInv, FilesAreOneRequests
    <2> QED BY <1>1, <2>1, <2>2 DEF FilesAreOneRequests
  <1>7. InitializedIsFounded' /\ SetupStays' /\ VersionsAscend'
    BY <1>1, <1>2, FreeDeskIs
    DEF ConfInv, InitializedIsFounded, SetupStays, VersionsAscend, Has, About
  <1> QED BY <1>3, <1>4, <1>5, <1>6, <1>7 DEF ConfInv

LEMMA BootKeeps ==
    ASSUME ConfInv, Boot
    PROVE  ConfInv'
  <1>1. /\ ~up /\ up' = TRUE /\ boots' = boots + 1 /\ startup' = LiveServerConfig
        /\ UNCHANGED <<confFiles, desk, confCalls, setups, versions, disrupted>>
    BY DEF Boot
  <1>2. boots < MaxBoots /\ boots \in Nat /\ MaxBoots \in Nat /\ \A a \in Clerks : desk[a] = FreeDesk
    BY <1>1, ConfFacts, ConfAssumption DEF ConfInv, DesksAreSound, ConfTypes
  <1>3. ConfTypes'
    <2>1. boots' \in 0..MaxBoots
      BY <1>1, <1>2
    <2> QED BY <1>1, <2>1, ConfFacts DEF ConfTypes
  <1>4. DesksAreSound'
    BY <1>1, <1>2 DEF ConfInv, DesksAreSound
  <1>5. SetupsAreCalls' /\ SetupStays'
    BY <1>1 DEF ConfInv, SetupsAreCalls, SettingUp, SetupStays, Has
  <1>6. FilesAreOneRequests' /\ VersionsAscend'
    BY <1>1 DEF ConfInv, FilesAreOneRequests, About, ConfWriting, VersionsAscend
  <1>7. startup'.init => startup.init \/ (confFiles["server"].is = "whole" /\ confFiles["server"].init)
    <2>1. CASE confFiles["server"].is = "whole"
      BY <1>1, <2>1 DEF LiveServerConfig
    <2>2. CASE confFiles["server"].is = "missing"
      BY <1>1, <2>2 DEF LiveServerConfig
    <2>4. confFiles["server"].is = "torn" => LiveServerConfig = startup
      BY DEF LiveServerConfig
    <2>3. CASE confFiles["server"].is = "torn"
      <3>1. startup' = startup
        BY <1>1, <2>3, <2>4
      <3>2. startup.init \in BOOLEAN
        BY ConfFacts DEF ConfTypes
      <3> QED BY <3>1, <3>2
    <2> QED BY <2>1, <2>2, <2>3, ConfFacts DEF ConfFiles
  <1>8. InitializedIsFounded'
    BY <1>1, <1>7 DEF ConfInv, InitializedIsFounded, Has
  <1> QED BY <1>3, <1>4, <1>5, <1>6, <1>8 DEF ConfInv

LEMMA ConfBegins == ConfInit => ConfInv
  <1> SUFFICES ASSUME ConfInit PROVE ConfInv
    OBVIOUS
  <1>1. /\ confFiles = [f \in ConfNames |-> NoFile] /\ startup = [init |-> FALSE, mark |-> 0]
        /\ up = TRUE /\ desk = [a \in Clerks |-> FreeDesk] /\ confCalls = 0 /\ setups = 0
        /\ boots = 0 /\ versions = [p \in Preferences |-> {}] /\ disrupted = {}
    BY DEF ConfInit
  <1>2. NoFile \in ConfFiles(0) /\ NoFile.is = "missing" /\ Preferences \subseteq ConfNames
    BY DEF NoFile, File, ConfFiles, ConfNames
  <1>3. 0 \in CallNumbers /\ 0 \in 0..MaxBoots
    BY ConfAssumption DEF CallNumbers
  <1>4. ConfTypes
    BY <1>1, <1>2, <1>3, FreeDeskIs DEF ConfTypes
  <1>5. DesksAreSound
    BY <1>1, FreeDeskIs DEF DesksAreSound
  <1>6. SetupsAreCalls
    <2>1. SettingUp = {}
      BY <1>1, FreeDeskIs DEF SettingUp
    <2> QED BY <1>1, <2>1, FS_EmptySet DEF SetupsAreCalls
  <1>7. FilesAreOneRequests
    BY <1>1, <1>2, FreeDeskIs DEF FilesAreOneRequests, About, ConfWriting
  <1>8. InitializedIsFounded
    <2>1. "server" \in ConfNames
      BY DEF ConfNames
    <2> QED BY <1>1, <1>2, <2>1, FreeDeskIs DEF InitializedIsFounded
  <1>9. SetupStays
    BY <1>1 DEF SetupStays
  <1>10. VersionsAscend
    BY <1>1, <1>2, FreeDeskIs DEF VersionsAscend, About
  <1> QED BY <1>4, <1>5, <1>6, <1>7, <1>8, <1>9, <1>10 DEF ConfInv

LEMMA ConfStep == ConfInv /\ [ConfNext]_confVars => ConfInv'
  <1> SUFFICES ASSUME ConfInv, [ConfNext]_confVars PROVE ConfInv'
    OBVIOUS
  <1>1. CASE UNCHANGED confVars
    BY <1>1 DEF confVars, ConfInv, ConfTypes, DesksAreSound, SetupsAreCalls, SettingUp,
       FilesAreOneRequests, About, ConfWriting, InitializedIsFounded, Has, SetupStays, VersionsAscend
  <1>2. ASSUME NEW a \in Clerks,
               \/ StartSetup(a) \/ StartProfile(a) \/ StartConfig(a)
               \/ \E p \in Preferences : StartPreference(a, p)
               \/ ReadConfigAgain(a) \/ Truncate(a) \/ WriteOut(a)
        PROVE  ConfInv'
    BY <1>2, SetupKeeps, ProfileKeeps, ConfigKeeps, PreferenceKeeps, ReadAgainKeeps,
       TruncateKeeps, WriteOutKeeps
  <1> QED BY <1>1, <1>2, DiesKeeps, BootKeeps DEF ConfNext

LEMMA ConfInvTells == ConfInv => ConfTypeOK /\ SetupIsSound
  <1> SUFFICES ASSUME ConfInv PROVE ConfTypeOK /\ SetupIsSound
    OBVIOUS
  <1>1. 0..confCalls \subseteq CallNumbers /\ confCalls \in CallNumbers
    BY ConfFacts DEF ConfTypes, CallNumbers
  <1>2. setups \in CallNumbers
    <2>1. IsFiniteSet(SettingUp)
      BY FS_Subset, ConfAssumption DEF SettingUp
    <2>2. Cardinality(SettingUp) \in Nat
      BY <2>1, FS_CardinalityType
    <2>3. setups + Cardinality(SettingUp) <= confCalls
      BY DEF ConfInv, SetupsAreCalls
    <2> QED BY <1>1, <2>2, <2>3, ConfFacts
  <1>3. confFiles \in [ConfNames -> [is : {"missing", "torn", "whole"}, init : BOOLEAN,
                                     mark : CallNumbers, version : CallNumbers]]
    BY <1>1, ConfFacts DEF ConfTypes, ConfFiles
  <1>4. startup \in [init : BOOLEAN, mark : CallNumbers]
    BY <1>1, ConfFacts DEF ConfTypes
  <1>5. versions \in [Preferences -> SUBSET (CallNumbers \X CallNumbers)]
    <2>1. (0..confCalls) \X (0..confCalls) \subseteq CallNumbers \X CallNumbers
      BY <1>1
    <2>2. versions \in [Preferences -> SUBSET ((0..confCalls) \X (0..confCalls))]
      BY ConfFacts DEF ConfTypes
    <2> QED BY <2>1, <2>2
  <1>6. ASSUME NEW a \in Clerks
        PROVE  /\ desk[a].op \in Ops /\ desk[a].files \in Seq(ConfNames)
               /\ desk[a].open => confFiles[Head(desk[a].files)].is # "missing"
               /\ desk[a].op = "none" => desk[a] = FreeDesk
    <2>1. desk[a].op \in Ops /\ desk[a].files \in Queues
      BY ConfFacts DEF Desks
    <2>2. desk[a].files \in Seq(ConfNames)
      <3>1. CASE desk[a].files = <<>>
        BY <3>1
      <3> QED BY <2>1, <3>1, QueueIs
    <2> QED BY <2>1, <2>2 DEF ConfInv, DesksAreSound, DeskIsSound
  <1>7. ConfTypeOK
    BY <1>1, <1>2, <1>3, <1>4, <1>5, <1>6, ConfFacts DEF ConfTypeOK, ConfTypes
  <1>8. InitializedHasProfile
    BY DEF ConfInv, InitializedIsFounded, InitializedHasProfile, Has
  <1>9. SetupIsFinal
    BY DEF ConfInv, SetupStays, SetupIsFinal
  <1>10. PreferenceVersionsDiffer
    BY DEF ConfInv, VersionsAscend, PreferenceVersionsDiffer
  <1>11. ServerCanStart
    <2> SUFFICES ASSUME ~up, "server" \notin disrupted PROVE CanBoot
      BY DEF ServerCanStart
    <2>1. \A b \in Clerks : ~ConfWriting(b, "server")
      BY FreeDeskIs DEF ConfInv, DesksAreSound, ConfWriting
    <2> QED BY <2>1 DEF ConfInv, FilesAreOneRequests, ConfNames, CanBoot
  <1> QED BY <1>7, <1>8, <1>9, <1>10, <1>11 DEF SetupIsSound

-----------------------------------------------------------------------------
(* The files of agents and endpoints. *)

ResContents == {NoDocument, Cut, MovedDocument} \cup 1..MaxSaves
ResDesks == [op : {"none", "put", "delete"}, id : Resources \cup {NoId}, save : 0..MaxSaves,
             open : BOOLEAN]

ResTypes ==
    /\ resOld \subseteq OldAgentIds
    /\ resFiles \in [Resources -> ResContents]
    /\ resAsked \in [Resources -> ResContents]
    /\ resServer \in [is : {"down", "loading", "writing", "removing", "up"},
                      old : OldAgentIds \cup {NoId}, todo : SUBSET OldAgentIds]
    /\ resDesk \in [Editors -> ResDesks]
    /\ resMixed \subseteq Resources
    /\ resSaves \in 0..MaxSaves /\ resHalts \in 0..MaxHalts

(* A request that is served is about a resource, and the server is up. *)
ResDesksAreSound ==
    \A e \in Editors :
       /\ resDesk[e].op = "none" => resDesk[e] = Unused
       /\ resDesk[e].op # "none" =>
             resServer.is = "up" /\ resDesk[e].id \in Resources /\ resDesk[e].save \in 1..MaxSaves
       /\ resDesk[e].op = "delete" => ~resDesk[e].open

(* What is to be moved is moved before the server is up. *)
MovingIsSound ==
    /\ resServer.is = "down" => resServer.todo = {}
    /\ resServer.is \in {"loading", "writing", "removing"} => resServer.todo = resOld
    /\ resServer.is = "up" => resOld = {} /\ resServer.todo = {}
    /\ resServer.is \in {"writing", "removing"} => resServer.old \in resOld
    /\ resServer.is \notin {"writing", "removing"} => resServer.old = NoId
    /\ resServer.is = "removing" => resFiles[resServer.old] = MovedDocument
    /\ \A id \in resOld : resAsked[id] = MovedDocument

(* A file at which requests did not overlap is at one of them, holds what    *)
(* was asked for until that one truncates it, and is truncated then. *)
FilesHoldWhatWasAsked ==
    /\ \A e, f \in Editors :
          resDesk[e].op # "none" /\ resDesk[f].op # "none" /\ resDesk[e].id = resDesk[f].id
             /\ resDesk[e].id \notin resMixed => e = f
    /\ \A e \in Editors : resDesk[e].open /\ resDesk[e].id \notin resMixed =>
          resFiles[resDesk[e].id] = Cut
    /\ \A id \in Resources \ (resMixed \cup resOld) :
          (\A e \in Editors : resDesk[e].open => resDesk[e].id # id) => resFiles[id] = resAsked[id]

ResInv == ResTypes /\ ResDesksAreSound /\ MovingIsSound /\ FilesHoldWhatWasAsked

LEMMA ResFacts ==
    ASSUME ResInv
    PROVE  /\ ResTypes /\ ResDesksAreSound /\ MovingIsSound /\ FilesHoldWhatWasAsked
           /\ MaxSaves \in Nat /\ MaxHalts \in Nat /\ OldAgentIds \subseteq Resources
           /\ NoId \notin Resources /\ Resources \subseteq Resources
           /\ resServer \in [is : {"down", "loading", "writing", "removing", "up"},
                             old : OldAgentIds \cup {NoId}, todo : SUBSET OldAgentIds]
           /\ \A e \in Editors : /\ resDesk[e] \in ResDesks
                                 /\ resDesk[e].op = "none" => ~resDesk[e].open
                                 /\ resDesk[e].open => resDesk[e].op = "put"
  <1>1. ResTypes /\ ResDesksAreSound /\ MovingIsSound /\ FilesHoldWhatWasAsked
    BY DEF ResInv
  <1>2. OldAgentIds \subseteq Resources /\ NoId \notin Resources /\ MaxSaves \in Nat /\ MaxHalts \in Nat
    BY ResourcesAssumption DEF Resources, NoId
  <1>3. Unused.open = FALSE
    BY DEF Unused
  <1>4. ASSUME NEW e \in Editors
        PROVE  /\ resDesk[e] \in ResDesks
               /\ resDesk[e].op = "none" => ~resDesk[e].open
               /\ resDesk[e].open => resDesk[e].op = "put"
    BY <1>1, <1>3 DEF ResTypes, ResDesksAreSound, ResDesks
  <1> QED BY <1>1, <1>2, <1>4 DEF ResTypes

(* The server moves on while no request is served. *)
LEMMA ServerMovesKeeps ==
    ASSUME ResInv, resServer.is # "up", UNCHANGED <<resDesk, resAsked, resMixed, resSaves, resHalts>>,
           resOld' \subseteq resOld, resFiles' \in [Resources -> ResContents],
           resServer' \in [is : {"down", "loading", "writing", "removing", "up"},
                           old : OldAgentIds \cup {NoId}, todo : SUBSET OldAgentIds],
           MovingIsSound',
           \A id \in Resources \ (resMixed \cup resOld') :
              (id \notin resOld /\ resFiles'[id] = resFiles[id]) \/ resFiles'[id] = resAsked[id]
    PROVE  ResInv'
  <1>1. \A e \in Editors : resDesk[e].op = "none" /\ ~resDesk[e].open
    BY ResFacts DEF ResDesksAreSound, ResDesks
  <1>2. ResTypes'
    BY ResFacts DEF ResTypes
  <1>3. ResDesksAreSound'
    BY <1>1, ResFacts DEF ResDesksAreSound
  <1>4. FilesHoldWhatWasAsked'
    <2>1. \A id \in Resources \ (resMixed \cup resOld) : resFiles[id] = resAsked[id]
      BY <1>1, ResFacts DEF FilesHoldWhatWasAsked
    <2> QED BY <1>1, <2>1 DEF FilesHoldWhatWasAsked
  <1> QED BY <1>2, <1>3, <1>4 DEF ResInv

LEMMA StartLoadingKeeps ==
    ASSUME ResInv, StartLoading
    PROVE  ResInv'
  <1> DEFINE s == [DownServer EXCEPT !.is = "loading", !.todo = resOld]
  <1>1. /\ resServer.is = "down" /\ resServer' = s
        /\ UNCHANGED <<resOld, resFiles, resDesk, resAsked, resMixed, resSaves, resHalts>>
    BY DEF StartLoading
  <1>2. /\ s.is = "loading" /\ s.old = NoId /\ s.todo = resOld
        /\ s \in [is : {"down", "loading", "writing", "removing", "up"},
                  old : OldAgentIds \cup {NoId}, todo : SUBSET OldAgentIds]
    BY ResFacts DEF DownServer, ResTypes
  <1> HIDE DEF s
  <1>3. MovingIsSound'
    BY <1>1, <1>2, ResFacts DEF MovingIsSound
  <1>4. /\ resFiles \in [Resources -> ResContents]
        /\ \A id \in Resources \ (resMixed \cup resOld) : resFiles[id] = resAsked[id]
    BY <1>1, ResFacts DEF ResTypes, FilesHoldWhatWasAsked, ResDesksAreSound
  <1> QED BY <1>1, <1>2, <1>3, <1>4, ServerMovesKeeps

LEMMA OpenMovedKeeps ==
    ASSUME ResInv, NEW i \in OldAgentIds, OpenMoved(i)
    PROVE  ResInv'
  <1> DEFINE s == [resServer EXCEPT !.is = "writing", !.old = i]
  <1>1. /\ resServer.is = "loading" /\ i \in resServer.todo /\ resServer' = s
        /\ resFiles' = [resFiles EXCEPT ![i] = Cut]
        /\ UNCHANGED <<resOld, resDesk, resAsked, resMixed, resSaves, resHalts>>
    BY DEF OpenMoved
  <1>2. /\ s.is = "writing" /\ s.old = i /\ s.todo = resServer.todo
        /\ s \in [is : {"down", "loading", "writing", "removing", "up"},
                  old : OldAgentIds \cup {NoId}, todo : SUBSET OldAgentIds]
    BY ResFacts
  <1> HIDE DEF s
  <1>3. i \in resOld /\ resServer.todo = resOld /\ i \in Resources
    BY <1>1, ResFacts DEF MovingIsSound
  <1>4. MovingIsSound'
    BY <1>1, <1>2, <1>3, ResFacts DEF MovingIsSound
  <1>5. resFiles' \in [Resources -> ResContents] /\ \A id \in Resources : id # i => resFiles'[id] = resFiles[id]
    BY <1>1, ResFacts DEF ResTypes, ResContents
  <1>6. \A id \in Resources \ (resMixed \cup resOld') : id \notin resOld /\ resFiles'[id] = resFiles[id]
    BY <1>1, <1>3, <1>5
  <1> QED BY <1>1, <1>2, <1>4, <1>5, <1>6, ServerMovesKeeps

LEMMA WriteMovedKeeps ==
    ASSUME ResInv, WriteMoved
    PROVE  ResInv'
  <1> DEFINE s == [resServer EXCEPT !.is = "removing"]
             i == resServer.old
  <1>1. /\ resServer.is = "writing" /\ resServer' = s
        /\ resFiles' = [resFiles EXCEPT ![i] = MovedDocument]
        /\ UNCHANGED <<resOld, resDesk, resAsked, resMixed, resSaves, resHalts>>
    BY DEF WriteMoved
  <1>2. /\ s.is = "removing" /\ s.old = i /\ s.todo = resServer.todo
        /\ s \in [is : {"down", "loading", "writing", "removing", "up"},
                  old : OldAgentIds \cup {NoId}, todo : SUBSET OldAgentIds]
    BY ResFacts
  <1>3. i \in resOld /\ resServer.todo = resOld /\ i \in Resources
    BY <1>1, ResFacts DEF MovingIsSound, ResTypes
  <1> HIDE DEF s, i
  <1>5. /\ resFiles' \in [Resources -> ResContents] /\ resFiles'[i] = MovedDocument
        /\ \A id \in Resources : id # i => resFiles'[id] = resFiles[id]
    BY <1>1, <1>3, ResFacts DEF ResTypes, ResContents
  <1>4. MovingIsSound'
    BY <1>1, <1>2, <1>3, <1>5, ResFacts DEF MovingIsSound
  <1>6. \A id \in Resources \ (resMixed \cup resOld') : id \notin resOld /\ resFiles'[id] = resFiles[id]
    BY <1>1, <1>3, <1>5
  <1> QED BY <1>1, <1>2, <1>4, <1>5, <1>6, ServerMovesKeeps

LEMMA RemoveOldKeeps ==
    ASSUME ResInv, RemoveOld
    PROVE  ResInv'
  <1> DEFINE i == resServer.old
             t == resServer.todo \ {i}
             s == [resServer EXCEPT !.is = "loading", !.old = NoId, !.todo = t]
  <1>1. /\ resServer.is = "removing" /\ resServer' = s /\ resOld' = resOld \ {i}
        /\ UNCHANGED <<resFiles, resDesk, resAsked, resMixed, resSaves, resHalts>>
    BY DEF RemoveOld, AfterOld
  <1>2. /\ s.is = "loading" /\ s.old = NoId /\ s.todo = t
        /\ s \in [is : {"down", "loading", "writing", "removing", "up"},
                  old : OldAgentIds \cup {NoId}, todo : SUBSET OldAgentIds]
    BY ResFacts
  <1>3. /\ i \in resOld /\ resServer.todo = resOld /\ i \in Resources
        /\ resFiles[i] = MovedDocument /\ resAsked[i] = MovedDocument
    BY <1>1, ResFacts DEF MovingIsSound, ResTypes
  <1>4. t = resOld'
    BY <1>1, <1>3
  <1> HIDE DEF s, t, i
  <1>5. MovingIsSound'
    BY <1>1, <1>2, <1>4, ResFacts DEF MovingIsSound
  <1>6. resFiles' \in [Resources -> ResContents]
    BY <1>1, ResFacts DEF ResTypes
  <1>7. \A id \in Resources \ (resMixed \cup resOld') :
           (id \notin resOld /\ resFiles'[id] = resFiles[id]) \/ resFiles'[id] = resAsked[id]
    BY <1>1, <1>3
  <1> QED BY <1>1, <1>2, <1>5, <1>6, <1>7, ServerMovesKeeps

LEMMA FinishLoadingKeeps ==
    ASSUME ResInv, FinishLoading
    PROVE  ResInv'
  <1> DEFINE u == [DownServer EXCEPT !.is = "up"]
  <1>1. /\ resServer.is = "loading" /\ resServer.todo = {}
        /\ resServer' = DownServer \/ resServer' = u
        /\ UNCHANGED <<resOld, resFiles, resDesk, resAsked, resMixed, resSaves, resHalts>>
    BY DEF FinishLoading
  <1>2. /\ u.is = "up" /\ u.old = NoId /\ u.todo = {}
        /\ u \in [is : {"down", "loading", "writing", "removing", "up"},
                  old : OldAgentIds \cup {NoId}, todo : SUBSET OldAgentIds]
        /\ DownServer.is = "down" /\ DownServer.old = NoId /\ DownServer.todo = {}
        /\ DownServer \in [is : {"down", "loading", "writing", "removing", "up"},
                           old : OldAgentIds \cup {NoId}, todo : SUBSET OldAgentIds]
    BY DEF DownServer
  <1> HIDE DEF u
  <1>3. MovingIsSound'
    BY <1>1, <1>2, ResFacts DEF MovingIsSound
  <1>4. /\ resFiles \in [Resources -> ResContents]
        /\ \A id \in Resources \ (resMixed \cup resOld) : resFiles[id] = resAsked[id]
    BY <1>1, ResFacts DEF ResTypes, FilesHoldWhatWasAsked, ResDesksAreSound
  <1> QED BY <1>1, <1>2, <1>3, <1>4, ServerMovesKeeps

LEMMA HaltKeeps ==
    ASSUME ResInv, Halt
    PROVE  ResInv'
  <1>1. /\ resServer' = DownServer /\ resDesk' = [e \in Editors |-> Unused]
        /\ resHalts' \in 0..MaxHalts
        /\ resMixed' = resMixed \cup {resDesk[e].id : e \in {f \in Editors : resDesk[f].op # "none"}}
        /\ UNCHANGED <<resOld, resFiles, resAsked, resSaves>>
    BY ResFacts DEF Halt, ResTypes
  <1>2. resMixed \subseteq resMixed' /\ resMixed' \subseteq Resources
    BY <1>1, ResFacts DEF ResTypes, ResDesksAreSound
  <1>3. /\ Unused \in ResDesks /\ Unused.op = "none" /\ ~Unused.open
        /\ DownServer.is = "down" /\ DownServer.old = NoId /\ DownServer.todo = {}
        /\ DownServer \in [is : {"down", "loading", "writing", "removing", "up"},
                           old : OldAgentIds \cup {NoId}, todo : SUBSET OldAgentIds]
    <2>1. 0 \in 0..MaxSaves
      BY ResFacts
    <2> QED BY <2>1 DEF Unused, ResDesks, DownServer
  <1>4. ResTypes'
    BY <1>1, <1>2, <1>3, ResFacts DEF ResTypes
  <1>5. ResDesksAreSound' /\ MovingIsSound'
    BY <1>1, <1>3, ResFacts DEF ResDesksAreSound, MovingIsSound
  <1>6. FilesHoldWhatWasAsked'
    <2>1. \A e \in Editors : resDesk'[e].op = "none" /\ ~resDesk'[e].open
      BY <1>1, <1>3
    <2>2. ASSUME NEW id \in Resources \ (resMixed' \cup resOld')
          PROVE  resFiles'[id] = resAsked'[id]
      <3>1. \A e \in Editors : resDesk[e].open => resDesk[e].id # id
        BY <1>1, <2>2, ResFacts
      <3> QED BY <1>1, <1>2, <2>2, <3>1, ResFacts DEF FilesHoldWhatWasAsked
    <2> QED BY <2>1, <2>2 DEF FilesHoldWhatWasAsked
  <1> QED BY <1>4, <1>5, <1>6 DEF ResInv

LEMMA ResEditKeeps ==
    ASSUME ResInv, NEW a \in Editors, NEW op \in {"put", "delete"}, NEW i \in Resources,
           Edit(a, op, i)
    PROVE  ResInv'
  <1> DEFINE d == [op |-> op, id |-> i, save |-> resSaves + 1, open |-> FALSE]
  <1>1. /\ resServer.is = "up" /\ resDesk[a].op = "none" /\ resSaves < MaxSaves
        /\ resSaves' = resSaves + 1 /\ resDesk' = [resDesk EXCEPT ![a] = d]
        /\ resMixed' = IF \E f \in Editors : resDesk[f].op # "none" /\ resDesk[f].id = i
                       THEN resMixed \cup {i} ELSE resMixed
        /\ UNCHANGED <<resOld, resFiles, resServer, resAsked, resHalts>>
    BY DEF Edit
  <1>2. resSaves + 1 \in 1..MaxSaves
    BY <1>1, ResFacts DEF ResTypes
  <1>3. d \in ResDesks /\ d.op = op /\ d.id = i /\ ~d.open /\ d.save \in 1..MaxSaves
    BY <1>2 DEF ResDesks
  <1> HIDE DEF d
  <1>4. /\ resDesk' \in [Editors -> ResDesks] /\ resDesk'[a] = d
        /\ \A e \in Editors : e # a => resDesk'[e] = resDesk[e]
    BY <1>1, <1>3, ResFacts DEF ResTypes
  <1>5. resMixed \subseteq resMixed' /\ resMixed' \subseteq Resources
    BY <1>1, ResFacts DEF ResTypes
  <1>6. ResTypes'
    BY <1>1, <1>2, <1>4, <1>5, ResFacts DEF ResTypes
  <1>7. ResDesksAreSound' /\ MovingIsSound'
    BY <1>1, <1>3, <1>4, ResFacts DEF ResDesksAreSound, MovingIsSound
  <1>8. FilesHoldWhatWasAsked'
    <2>1. ASSUME NEW e \in Editors, NEW f \in Editors,
                 resDesk'[e].op # "none", resDesk'[f].op # "none", resDesk'[e].id = resDesk'[f].id,
                 resDesk'[e].id \notin resMixed', e # f
          PROVE  FALSE
      <3>1. CASE e # a /\ f # a
        BY <1>4, <1>5, <2>1, <3>1, ResFacts DEF FilesHoldWhatWasAsked
      <3>2. CASE e = a \/ f = a
        BY <1>1, <1>3, <1>4, <2>1, <3>2
      <3> QED BY <3>1, <3>2
    <2>2. \A e \in Editors : (resDesk'[e].open <=> resDesk[e].open)
                             /\ (resDesk[e].open => resDesk'[e] = resDesk[e])
      BY <1>1, <1>3, <1>4, ResFacts
    <2> QED BY <1>1, <1>5, <2>1, <2>2, ResFacts DEF FilesHoldWhatWasAsked
  <1> QED BY <1>6, <1>7, <1>8 DEF ResInv

LEMMA OpenKeeps ==
    ASSUME ResInv, NEW a \in Editors, OpenResource(a)
    PROVE  ResInv'
  <1> DEFINE i == resDesk[a].id
             d == [resDesk[a] EXCEPT !.open = TRUE]
  <1>1. /\ resDesk[a].op = "put" /\ ~resDesk[a].open
        /\ resFiles' = [resFiles EXCEPT ![i] = Cut] /\ resDesk' = [resDesk EXCEPT ![a] = d]
        /\ UNCHANGED <<resOld, resServer, resAsked, resMixed, resSaves, resHalts>>
    BY DEF OpenResource
  <1>2. resDesk[a] \in ResDesks /\ i \in Resources /\ resDesk[a].save \in 1..MaxSaves /\ resServer.is = "up"
    BY <1>1, ResFacts DEF ResDesksAreSound
  <1>3. d \in ResDesks /\ d.op = "put" /\ d.id = i /\ d.open /\ d.save = resDesk[a].save
    BY <1>1, <1>2 DEF ResDesks
  <1>4. i = resDesk[a].id
    OBVIOUS
  <1> HIDE DEF d, i
  <1>5. /\ resDesk' \in [Editors -> ResDesks] /\ resDesk'[a] = d
        /\ \A e \in Editors : e # a => resDesk'[e] = resDesk[e]
    BY <1>1, <1>3, ResFacts DEF ResTypes
  <1>6. /\ resFiles' \in [Resources -> ResContents] /\ resFiles'[i] = Cut
        /\ \A id \in Resources : id # i => resFiles'[id] = resFiles[id]
    BY <1>1, <1>2, ResFacts DEF ResTypes, ResContents
  <1>7. ResTypes'
    BY <1>1, <1>5, <1>6, ResFacts DEF ResTypes
  <1>8. ResDesksAreSound'
    BY <1>1, <1>2, <1>3, <1>5, ResFacts DEF ResDesksAreSound
  <1>9. MovingIsSound'
    BY <1>1, <1>2, ResFacts DEF MovingIsSound
  <1>10. FilesHoldWhatWasAsked'
    <2>1. ASSUME NEW e \in Editors, NEW f \in Editors,
                 resDesk'[e].op # "none", resDesk'[f].op # "none", resDesk'[e].id = resDesk'[f].id,
                 resDesk'[e].id \notin resMixed
          PROVE  e = f
      <3>1. \A g \in Editors : resDesk'[g].id = resDesk[g].id
                               /\ (resDesk'[g].op # "none" => resDesk[g].op # "none")
        BY <1>1, <1>3, <1>4, <1>5
      <3> QED BY <2>1, <3>1, ResFacts DEF FilesHoldWhatWasAsked
    <2>2. ASSUME NEW e \in Editors, resDesk'[e].open, resDesk'[e].id \notin resMixed
          PROVE  resFiles'[resDesk'[e].id] = Cut
      <3>1. CASE e = a
        BY <1>3, <1>5, <1>6, <3>1
      <3>2. CASE e # a
        <4>1. resDesk[e].open /\ resDesk[e].id \in Resources /\ resFiles[resDesk[e].id] = Cut
          BY <1>5, <2>2, <3>2, ResFacts DEF FilesHoldWhatWasAsked, ResDesksAreSound
        <4> QED BY <1>5, <1>6, <3>2, <4>1
      <3> QED BY <3>1, <3>2
    <2>3. ASSUME NEW id \in Resources \ (resMixed \cup resOld),
                 \A e \in Editors : resDesk'[e].open => resDesk'[e].id # id
          PROVE  resFiles'[id] = resAsked[id]
      <3>1. id # i
        BY <1>3, <1>5, <2>3
      <3>2. \A e \in Editors : resDesk[e].open => resDesk[e].id # id
        BY <1>1, <1>5, <2>3
      <3> QED BY <1>6, <2>3, <3>1, <3>2, ResFacts DEF FilesHoldWhatWasAsked
    <2> QED BY <1>1, <2>1, <2>2, <2>3 DEF FilesHoldWhatWasAsked
  <1> QED BY <1>7, <1>8, <1>9, <1>10 DEF ResInv

(* A request ends, with the file as it asked for. *)
LEMMA RequestEnds ==
    ASSUME ResInv, NEW a \in Editors, resDesk[a].op # "none", NEW i, i = resDesk[a].id,
           NEW new \in ResContents, NEW asked \in ResContents,
           i \notin resMixed => new = asked,
           resFiles' = [resFiles EXCEPT ![i] = new], resAsked' = [resAsked EXCEPT ![i] = asked],
           resDesk' = [resDesk EXCEPT ![a] = Unused],
           UNCHANGED <<resOld, resServer, resMixed, resSaves, resHalts>>
    PROVE  ResInv'
  <1>1. i \in Resources /\ resServer.is = "up" /\ resOld = {}
    BY ResFacts DEF ResDesksAreSound, MovingIsSound
  <1>2. Unused \in ResDesks /\ Unused.op = "none" /\ ~Unused.open
    <2>1. 0 \in 0..MaxSaves
      BY ResFacts
    <2> QED BY <2>1 DEF Unused, ResDesks
  <1>3. /\ resDesk' \in [Editors -> ResDesks] /\ resDesk'[a] = Unused
        /\ \A e \in Editors : e # a => resDesk'[e] = resDesk[e]
    BY <1>2, ResFacts DEF ResTypes
  <1>4. /\ resFiles' \in [Resources -> ResContents] /\ resFiles'[i] = new
        /\ \A id \in Resources : id # i => resFiles'[id] = resFiles[id]
        /\ resAsked' \in [Resources -> ResContents] /\ resAsked'[i] = asked
        /\ \A id \in Resources : id # i => resAsked'[id] = resAsked[id]
    BY <1>1, ResFacts DEF ResTypes
  <1>5. ResTypes'
    BY <1>3, <1>4, ResFacts DEF ResTypes
  <1>6. ResDesksAreSound' /\ MovingIsSound'
    BY <1>1, <1>2, <1>3, ResFacts DEF ResDesksAreSound, MovingIsSound
  <1>7. FilesHoldWhatWasAsked'
    <2>1. ASSUME NEW e \in Editors, NEW f \in Editors,
                 resDesk'[e].op # "none", resDesk'[f].op # "none", resDesk'[e].id = resDesk'[f].id,
                 resDesk'[e].id \notin resMixed
          PROVE  e = f
      BY <1>2, <1>3, <2>1, ResFacts DEF FilesHoldWhatWasAsked
    <2>2. ASSUME NEW e \in Editors, resDesk'[e].open, resDesk'[e].id \notin resMixed
          PROVE  resFiles'[resDesk'[e].id] = Cut
      <3>1. e # a /\ resDesk'[e] = resDesk[e] /\ resDesk[e].op # "none" /\ resDesk[e].id \in Resources
        BY <1>2, <1>3, <2>2, ResFacts DEF ResDesksAreSound
      <3>2. resDesk[e].id # i
        BY <2>2, <3>1, ResFacts DEF FilesHoldWhatWasAsked
      <3> QED BY <1>4, <2>2, <3>1, <3>2, ResFacts DEF FilesHoldWhatWasAsked
    <2>3. ASSUME NEW id \in Resources \ (resMixed \cup resOld),
                 \A e \in Editors : resDesk'[e].open => resDesk'[e].id # id
          PROVE  resFiles'[id] = resAsked'[id]
      <3>1. CASE id = i
        BY <1>4, <2>3, <3>1
      <3>2. CASE id # i
        <4>1. \A e \in Editors : resDesk[e].open => resDesk[e].id # id
          BY <1>3, <2>3, <3>2
        <4> QED BY <1>4, <2>3, <3>2, <4>1, ResFacts DEF FilesHoldWhatWasAsked
      <3> QED BY <3>1, <3>2
    <2> QED BY <2>1, <2>2, <2>3 DEF FilesHoldWhatWasAsked
  <1> QED BY <1>5, <1>6, <1>7 DEF ResInv

LEMMA WriteKeeps ==
    ASSUME ResInv, NEW a \in Editors, WriteResource(a)
    PROVE  ResInv'
  <1> DEFINE i == resDesk[a].id
             s == resDesk[a].save
             n == IF resFiles[i] = NoDocument THEN resFiles[i] ELSE s
  <1>1. /\ resDesk[a].op = "put" /\ resDesk[a].open
        /\ resFiles' = [resFiles EXCEPT ![i] = n] /\ resAsked' = [resAsked EXCEPT ![i] = s]
        /\ resDesk' = [resDesk EXCEPT ![a] = Unused]
        /\ UNCHANGED <<resOld, resServer, resMixed, resSaves, resHalts>>
    BY DEF WriteResource
  <1>2. i \in Resources /\ s \in 1..MaxSaves
    BY <1>1, ResFacts DEF ResDesksAreSound
  <1>3. s \in ResContents /\ n \in ResContents
    BY <1>2 DEF ResContents
  <1>4. i \notin resMixed => n = s
    BY <1>1, ResFacts DEF FilesHoldWhatWasAsked, Cut, NoDocument
  <1> HIDE DEF n, s
  <1> QED BY <1>1, <1>3, <1>4, RequestEnds

LEMMA DeleteKeeps ==
    ASSUME ResInv, NEW a \in Editors, DeleteResource(a)
    PROVE  ResInv'
  <1> DEFINE i == resDesk[a].id
  <1>1. /\ resDesk[a].op = "delete"
        /\ resFiles' = [resFiles EXCEPT ![i] = NoDocument]
        /\ resAsked' = [resAsked EXCEPT ![i] = NoDocument]
        /\ resDesk' = [resDesk EXCEPT ![a] = Unused]
        /\ UNCHANGED <<resOld, resServer, resMixed, resSaves, resHalts>>
    BY DEF DeleteResource
  <1>2. NoDocument \in ResContents
    BY DEF ResContents
  <1> QED BY <1>1, <1>2, RequestEnds

LEMMA ResBegins == ResInit => ResInv
  <1> SUFFICES ASSUME ResInit PROVE ResInv
    OBVIOUS
  <1>1. /\ resOld = OldAgentIds /\ resFiles = [id \in Resources |-> NoDocument]
        /\ resServer = DownServer /\ resDesk = [e \in Editors |-> Unused]
        /\ resAsked = [id \in Resources |-> IF id \in OldAgentIds THEN MovedDocument ELSE NoDocument]
        /\ resMixed = {} /\ resSaves = 0 /\ resHalts = 0
    BY DEF ResInit
  <1>2. /\ 0 \in 0..MaxSaves /\ 0 \in 0..MaxHalts /\ OldAgentIds \subseteq Resources
    BY ResourcesAssumption DEF Resources
  <1>3. /\ Unused \in ResDesks /\ Unused.op = "none" /\ ~Unused.open
        /\ DownServer.is = "down" /\ DownServer.old = NoId /\ DownServer.todo = {}
        /\ DownServer \in [is : {"down", "loading", "writing", "removing", "up"},
                           old : OldAgentIds \cup {NoId}, todo : SUBSET OldAgentIds]
    BY <1>2 DEF Unused, ResDesks, DownServer
  <1>4. ResTypes
    BY <1>1, <1>2, <1>3 DEF ResTypes, ResContents
  <1>5. ResDesksAreSound
    BY <1>1, <1>3 DEF ResDesksAreSound
  <1>6. MovingIsSound
    BY <1>1, <1>2, <1>3 DEF MovingIsSound
  <1>7. FilesHoldWhatWasAsked
    BY <1>1, <1>3 DEF FilesHoldWhatWasAsked
  <1> QED BY <1>4, <1>5, <1>6, <1>7 DEF ResInv

LEMMA ResStep == ResInv /\ [ResNext]_resVars => ResInv'
  <1> SUFFICES ASSUME ResInv, [ResNext]_resVars PROVE ResInv'
    OBVIOUS
  <1>1. CASE UNCHANGED resVars
    BY <1>1 DEF resVars, ResInv, ResTypes, ResDesksAreSound, MovingIsSound, FilesHoldWhatWasAsked
  <1> QED BY <1>1, StartLoadingKeeps, WriteMovedKeeps, RemoveOldKeeps, FinishLoadingKeeps,
             HaltKeeps, OpenMovedKeeps, ResEditKeeps, OpenKeeps, WriteKeeps, DeleteKeeps DEF ResNext

LEMMA ResInvTells == ResInv => ResTypeOK /\ SavedResourcesAreKept /\ MovingLosesNoAgent
  <1> SUFFICES ASSUME ResInv PROVE ResTypeOK /\ SavedResourcesAreKept /\ MovingLosesNoAgent
    OBVIOUS
  <1>1. resServer.is \in {"writing", "removing"} <=> resServer.old # NoId
    BY ResFacts DEF MovingIsSound, ResTypes
  <1>2. resServer.todo \subseteq resOld
    BY ResFacts DEF MovingIsSound
  <1>3. ResTypeOK
    BY <1>1, <1>2, ResFacts DEF ResTypeOK, ResTypes, ResContents, ResDesksAreSound, ResDesks
  <1>4. \A id \in Resources \ (resMixed \cup resOld) :
           (\A e \in Editors : resDesk[e].id # id) => resFiles[id] = resAsked[id]
    BY ResFacts DEF FilesHoldWhatWasAsked
  <1>5. SavedResourcesAreKept
    BY <1>4, ResFacts DEF SavedResourcesAreKept, MovingIsSound
  <1>6. MovingLosesNoAgent
    BY <1>4, ResFacts DEF MovingLosesNoAgent
  <1> QED BY <1>3, <1>5, <1>6

-----------------------------------------------------------------------------
(* The packages of skills and their registry. *)

Registries == [on : [SkillIds -> {"none", "on", "off"}], blocked : SUBSET SkillIds]
FileStates == {"none", "torn", "builtin", "saved"}
Packages   == [PackageFiles -> FileStates]
Askings    == [what : {"none", "on", "off", "deleted"}, block : BOOLEAN]
SaveQueues == {<<"md", "config", "read", "registry">>, <<"config", "read", "registry">>,
               <<"read", "registry">>, <<"registry">>}
DeleteQueues == {<<"package", "registry">>, <<"registry">>}
PkDesks == [op : {"none", "save", "delete"}, id : SkillIds \cup {IdleKeeper.id}, asks : Askings,
            files : {<<>>} \cup SaveQueues \cup DeleteQueues, open : BOOLEAN, seen : Registries]
Commands == [by : {"none", "start", "other"}, step : {"none", "read", "registry", "look", "packages"},
             open : BOOLEAN, left : SUBSET Pieces, at : SkillIds \cup {NoCommand.at}, seen : Registries]

PkTypes ==
    /\ pkRegistry \in Registries /\ pkFiles \in [SkillIds -> Packages]
    /\ pkHost \in {"down", "written", "up"} /\ pkCommand \in Commands
    /\ pkDesk \in [Keepers -> PkDesks] /\ pkAsked \in [SkillIds -> Askings]
    /\ pkMixed \subseteq SkillIds
    /\ pkCalls \in 0..MaxPkCalls /\ pkStarts \in 0..MaxStarts

PkDeskIsSound(d) ==
    /\ d.op = "none" => d = IdleKeeper
    /\ d.op # "none" => d.id \in SkillIds
    /\ d.op = "save" => d.files \in SaveQueues /\ d.asks.what \in {"on", "off"}
                        /\ (d.open => Head(d.files) # "read")
    /\ d.op = "delete" => d.files \in DeleteQueues /\ d.asks.what = "deleted"
                          /\ (d.open => Head(d.files) = "registry")

(* Requests are served while the server runs, and one of a skill at a time   *)
(* unless it is mixed. *)
PkDesksAreSound ==
    /\ \A k \in Keepers : PkDeskIsSound(pkDesk[k]) /\ (pkDesk[k].op # "none" => pkHost = "up")
    /\ \A j, k \in Keepers :
          pkDesk[j].op # "none" /\ pkDesk[k].op # "none" /\ pkDesk[j].id = pkDesk[k].id
             /\ pkDesk[j].id \notin pkMixed => j = k

(* A registry says of a skill what was asked for last. *)
Honours(r, id, a) ==
    /\ a.what \in {"on", "off"} => r.on[id] = a.what
    /\ (a.what = "deleted" /\ id \in BuiltinIds) \/ (a.what \in {"on", "off"} /\ a.block) =>
          id \in r.blocked

(* While a request or the command writes the registry, what was asked for is *)
(* in what it has read, and nowhere else. *)
RegistryHonours ==
    /\ \A j, k \in Keepers : Truncates(j) /\ Truncates(k) /\ j # k => pkMixed = SkillIds
    /\ \A k \in Keepers : Truncates(k) /\ CommandTruncates => pkMixed = SkillIds
    /\ \A id \in SkillIds \ pkMixed :
          /\ \A k \in Keepers : Truncates(k) => Honours(pkDesk[k].seen, id, pkAsked[id])
          /\ CommandTruncates => Honours(pkCommand.seen, id, pkAsked[id])
          /\ ~Truncating => Honours(pkRegistry, id, pkAsked[id])

(* So do the files of a package, and a request that is about it has done     *)
(* what is behind it. *)
Keeps(p, a) ==
    /\ a.what = "deleted" => p = NoPackage
    /\ a.what \in {"on", "off"} /\ a.block => p = Package("saved")
Progress(d, p) ==
    /\ d.op = "save" =>
          /\ Head(d.files) = "md" /\ d.open => p["md"] = "torn"
          /\ Head(d.files) = "config" => p["md"] = "saved" /\ (d.open => p["config"] = "torn")
          /\ Head(d.files) \in {"read", "registry"} => p = Package("saved")
    /\ d.op = "delete" /\ Head(d.files) = "registry" => p = NoPackage
PackagesHonour ==
    \A id \in SkillIds \ pkMixed :
       /\ (\A k \in Keepers : pkDesk[k].op = "none" \/ pkDesk[k].id # id) =>
             Keeps(pkFiles[id], pkAsked[id])
       /\ \A k \in Keepers : pkDesk[k].op # "none" /\ pkDesk[k].id = id =>
             Progress(pkDesk[k], pkFiles[id])

(* No package is written by the command against what was asked for, and the *)
(* requests it overlaps are mixed. *)
Unbound(a) == a.what # "deleted" /\ ~(a.what \in {"on", "off"} /\ a.block)
CommandShape(c) ==
    /\ c.by = "none" => c = NoCommand
    /\ c.step # "packages" => c.left = {}
    /\ c.open => c.step \in {"registry", "packages"}
CommandIsSound ==
    /\ CommandShape(pkCommand) /\ (pkCommand.by = "start" => pkHost = "down")
    /\ pkCommand.by # "none" => \A k \in Keepers : pkDesk[k].op # "none" => pkDesk[k].id \in pkMixed
    /\ \A id \in SkillIds \ pkMixed : \A f : <<id, f>> \in pkCommand.left => Unbound(pkAsked[id])

PkInv == PkTypes /\ PkDesksAreSound /\ RegistryHonours /\ PackagesHonour /\ CommandIsSound

LEMMA SaveQueueIs ==
    ASSUME NEW q \in SaveQueues
    PROVE  /\ Head(q) \in {"md", "config", "read", "registry"} /\ q # <<>>
           /\ Head(q) = "md" => Tail(q) \in SaveQueues /\ Head(Tail(q)) = "config"
           /\ Head(q) = "config" => Tail(q) \in SaveQueues /\ Head(Tail(q)) = "read"
           /\ Head(q) = "read" => Tail(q) \in SaveQueues /\ Head(Tail(q)) = "registry"
  <1>1. CASE q = <<"md", "config", "read", "registry">>
    <2>1. Head(q) = "md" /\ Tail(q) = <<"config", "read", "registry">> /\ q # <<>>
      BY <1>1
    <2>2. Head(<<"config", "read", "registry">>) = "config"
      OBVIOUS
    <2> QED BY <2>1, <2>2 DEF SaveQueues
  <1>2. CASE q = <<"config", "read", "registry">>
    <2>1. Head(q) = "config" /\ Tail(q) = <<"read", "registry">> /\ q # <<>>
      BY <1>2
    <2>2. Head(<<"read", "registry">>) = "read"
      OBVIOUS
    <2> QED BY <2>1, <2>2 DEF SaveQueues
  <1>3. CASE q = <<"read", "registry">>
    <2>1. Head(q) = "read" /\ Tail(q) = <<"registry">> /\ q # <<>>
      BY <1>3
    <2>2. Head(<<"registry">>) = "registry"
      OBVIOUS
    <2> QED BY <2>1, <2>2 DEF SaveQueues
  <1>4. CASE q = <<"registry">>
    <2>1. Head(q) = "registry" /\ q # <<>>
      BY <1>4
    <2> QED BY <2>1
  <1> QED BY <1>1, <1>2, <1>3, <1>4 DEF SaveQueues

LEMMA DeleteQueueIs ==
    ASSUME NEW q \in DeleteQueues
    PROVE  /\ Head(q) \in {"package", "registry"} /\ q # <<>>
           /\ Head(q) = "package" => Tail(q) \in DeleteQueues /\ Head(Tail(q)) = "registry"
  <1>1. CASE q = <<"package", "registry">>
    <2>1. Head(q) = "package" /\ Tail(q) = <<"registry">> /\ q # <<>>
      BY <1>1
    <2>2. Head(<<"registry">>) = "registry"
      OBVIOUS
    <2> QED BY <2>1, <2>2 DEF DeleteQueues
  <1>2. CASE q = <<"registry">>
    <2>1. Head(q) = "registry" /\ q # <<>>
      BY <1>2
    <2> QED BY <2>1
  <1> QED BY <1>1, <1>2 DEF DeleteQueues

LEMMA IdleKeeperIs ==
    /\ IdleKeeper \in PkDesks /\ IdleKeeper.op = "none" /\ ~IdleKeeper.open
    /\ PkDeskIsSound(IdleKeeper)
    /\ EmptyRegistry \in Registries /\ Unasked \in Askings /\ Unasked.what = "none"
    /\ NoPackage \in Packages
  <1>1. EmptyRegistry \in Registries /\ Unasked \in Askings /\ Unasked.what = "none"
    BY DEF EmptyRegistry, Registries, Unasked, Askings
  <1>2. NoPackage \in Packages
    BY DEF NoPackage, Packages, FileStates
  <1> DEFINE d == IdleKeeper
  <1>3. /\ d.op = "none" /\ d.asks = Unasked /\ d.files = <<>> /\ d.open = FALSE /\ d.seen = EmptyRegistry
    BY DEF IdleKeeper
  <1>4. IdleKeeper \in PkDesks
    <2> DEFINE i == CHOOSE id \in SkillIds : TRUE
    <2>1. IdleKeeper = [op |-> "none", id |-> i, asks |-> Unasked, files |-> <<>>, open |-> FALSE,
                        seen |-> EmptyRegistry]
      BY DEF IdleKeeper
    <2>2. i = IdleKeeper.id
      BY <2>1
    <2> HIDE DEF i
    <2> QED BY <1>1, <2>1, <2>2 DEF PkDesks
  <1> QED BY <1>1, <1>2, <1>3, <1>4 DEF PkDeskIsSound

LEMMA PkFacts ==
    ASSUME PkInv
    PROVE  /\ PkTypes /\ PkDesksAreSound /\ RegistryHonours /\ PackagesHonour /\ CommandIsSound
           /\ BuiltinIds \subseteq SkillIds /\ MaxPkCalls \in Nat /\ MaxStarts \in Nat
           /\ \A k \in Keepers : /\ pkDesk[k] \in PkDesks /\ PkDeskIsSound(pkDesk[k])
                                 /\ Truncates(k) => pkDesk[k].op # "none"
  <1>1. PkTypes /\ PkDesksAreSound /\ RegistryHonours /\ PackagesHonour /\ CommandIsSound
    BY DEF PkInv
  <1>2. BuiltinIds \subseteq SkillIds /\ MaxPkCalls \in Nat /\ MaxStarts \in Nat
    BY PackagesAssumption
  <1>3. ASSUME NEW k \in Keepers
        PROVE  /\ pkDesk[k] \in PkDesks /\ PkDeskIsSound(pkDesk[k])
               /\ Truncates(k) => pkDesk[k].op # "none"
    BY <1>1, IdleKeeperIs DEF PkTypes, PkDesksAreSound, PkDeskIsSound, Truncates
  <1> QED BY <1>1, <1>2, <1>3

LEMMA NoCommandIs ==
    /\ NoCommand \in Commands /\ NoCommand.by = "none" /\ ~NoCommand.open /\ NoCommand.left = {}
    /\ CommandShape(NoCommand)
  <1> DEFINE i == CHOOSE id \in SkillIds : TRUE
  <1>1. NoCommand = [by |-> "none", step |-> "none", open |-> FALSE, seen |-> EmptyRegistry,
                     left |-> {}, at |-> i]
    BY DEF NoCommand
  <1>2. i = NoCommand.at
    BY <1>1
  <1> HIDE DEF i
  <1>3. NoCommand \in Commands
    BY <1>1, <1>2, IdleKeeperIs DEF Commands
  <1>4. CommandShape(NoCommand)
    BY <1>1 DEF CommandShape
  <1> QED BY <1>1, <1>3, <1>4

(* Requests and the server leave the command sound: what was asked for       *)
(* changes of skills in hand only. *)
LEMMA CommandStays ==
    ASSUME PkInv, pkCommand' = pkCommand, pkCommand.by = "start" => pkHost' = "down",
           pkMixed \subseteq pkMixed',
           \A k \in Keepers : pkDesk'[k].op # "none" =>
              \/ pkDesk[k].op # "none" /\ pkDesk'[k].id = pkDesk[k].id
              \/ pkCommand.by # "none" => pkDesk'[k].id \in pkMixed',
           \A id \in SkillIds : pkAsked'[id] = pkAsked[id]
              \/ \E k \in Keepers : pkDesk[k].op # "none" /\ pkDesk[k].id = id
    PROVE  CommandIsSound'
  <1>1. CommandIsSound
    BY PkFacts
  <1>2. CASE pkCommand.by = "none"
    <2>1. pkCommand.left = {}
      BY <1>1, <1>2, NoCommandIs DEF CommandIsSound, CommandShape
    <2> QED BY <1>1, <1>2, <2>1 DEF CommandIsSound, CommandShape
  <1>3. CASE pkCommand.by # "none"
    <2>1. ASSUME NEW id \in SkillIds \ pkMixed', NEW f, <<id, f>> \in pkCommand.left
          PROVE  Unbound(pkAsked'[id])
      <3>1. pkAsked'[id] = pkAsked[id]
        BY <1>1, <1>3, <2>1 DEF CommandIsSound
      <3>2. Unbound(pkAsked[id])
        BY <1>1, <2>1 DEF CommandIsSound
      <3> QED BY <3>1, <3>2 DEF Unbound
    <2>2. \A k \in Keepers : pkDesk'[k].op # "none" => pkDesk'[k].id \in pkMixed'
      BY <1>1, <1>3 DEF CommandIsSound
    <2> QED BY <1>1, <1>3, <2>1, <2>2 DEF CommandIsSound, CommandShape
  <1> QED BY <1>2, <1>3

(* A step of one request that does not touch the registry. *)
LEMMA KeeperMoves ==
    ASSUME PkInv, NEW k \in Keepers, NEW d, d = pkDesk[k], d.op # "none", ~Truncates(k),
           NEW e \in PkDesks, PkDeskIsSound(e), pkDesk' = [pkDesk EXCEPT ![k] = e],
           \/ e = IdleKeeper /\ pkAsked'[d.id] = Unasked
           \/ e.op = d.op /\ e.id = d.id /\ ~(e.open /\ Head(e.files) = "registry")
              /\ pkAsked'[d.id] = pkAsked[d.id]
              /\ (d.id \notin pkMixed => Progress(e, pkFiles'[d.id])),
           pkFiles' \in [SkillIds -> Packages], pkAsked' \in [SkillIds -> Askings],
           \A id \in SkillIds : id # d.id => pkFiles'[id] = pkFiles[id] /\ pkAsked'[id] = pkAsked[id],
           UNCHANGED <<pkRegistry, pkHost, pkCommand, pkMixed, pkCalls, pkStarts>>
    PROVE  PkInv'
  <1>1. /\ pkDesk' \in [Keepers -> PkDesks] /\ pkDesk'[k] = e
        /\ \A j \in Keepers : j # k => pkDesk'[j] = pkDesk[j]
    BY PkFacts DEF PkTypes
  <1>2. d.id \in SkillIds /\ pkHost = "up"
    BY PkFacts DEF PkDeskIsSound, PkDesksAreSound
  <1>3. e.op # "none" => e.op = d.op /\ e.id = d.id /\ pkAsked'[d.id] = pkAsked[d.id]
                         /\ (d.id \notin pkMixed => Progress(e, pkFiles'[d.id]))
    BY IdleKeeperIs
  <1>4. e.op = "none" => pkAsked'[d.id] = Unasked
    BY IdleKeeperIs
  <1>5. ~Truncates(k)' /\ \A j \in Keepers : j # k => (Truncates(j)' <=> Truncates(j))
    BY <1>1, IdleKeeperIs DEF Truncates
  <1>10. /\ CommandTruncates' <=> CommandTruncates
         /\ Truncating' <=> Truncating
    BY <1>5 DEF Truncating, CommandTruncates
  <1>6. PkTypes'
    BY <1>1, PkFacts DEF PkTypes
  <1>7. PkDesksAreSound'
    BY <1>1, <1>2, <1>3, PkFacts DEF PkDesksAreSound
  <1>8. RegistryHonours'
    <2>1. /\ \A i, j \in Keepers : Truncates(i)' /\ Truncates(j)' /\ i # j => pkMixed = SkillIds
          /\ \A j \in Keepers : Truncates(j)' /\ CommandTruncates' => pkMixed = SkillIds
      BY <1>5, <1>10, PkFacts DEF RegistryHonours
    <2>2. ASSUME NEW id \in SkillIds \ pkMixed
          PROVE  /\ \A j \in Keepers : Truncates(j)' => Honours(pkDesk'[j].seen, id, pkAsked'[id])
                 /\ CommandTruncates' => Honours(pkCommand.seen, id, pkAsked'[id])
                 /\ ~Truncating' => Honours(pkRegistry, id, pkAsked'[id])
      <3>1. pkAsked'[id] = pkAsked[id] \/ pkAsked'[id] = Unasked
        BY <1>3, <1>4
      <3>2. \A r : Honours(r, id, Unasked)
        BY IdleKeeperIs DEF Honours
      <3>3. /\ \A j \in Keepers : Truncates(j) => Honours(pkDesk[j].seen, id, pkAsked[id])
            /\ CommandTruncates => Honours(pkCommand.seen, id, pkAsked[id])
            /\ ~Truncating => Honours(pkRegistry, id, pkAsked[id])
        BY <2>2, PkFacts DEF RegistryHonours
      <3> QED BY <1>1, <1>5, <1>10, <3>1, <3>2, <3>3
    <2> QED BY <2>1, <2>2 DEF RegistryHonours
  <1>9. PackagesHonour'
    <2> SUFFICES ASSUME NEW id \in SkillIds \ pkMixed
                 PROVE  /\ (\A j \in Keepers : pkDesk'[j].op = "none" \/ pkDesk'[j].id # id) =>
                              Keeps(pkFiles'[id], pkAsked'[id])
                        /\ \A j \in Keepers : pkDesk'[j].op # "none" /\ pkDesk'[j].id = id =>
                              Progress(pkDesk'[j], pkFiles'[id])
      BY DEF PackagesHonour
    <2>1. /\ (\A j \in Keepers : pkDesk[j].op = "none" \/ pkDesk[j].id # id) =>
                Keeps(pkFiles[id], pkAsked[id])
          /\ \A j \in Keepers : pkDesk[j].op # "none" /\ pkDesk[j].id = id =>
                Progress(pkDesk[j], pkFiles[id])
      BY PkFacts DEF PackagesHonour
    <2>2. CASE id # d.id
      BY <1>1, <1>3, <2>1, <2>2
    <2>3. CASE id = d.id
      <3>1. \A j \in Keepers : j # k => pkDesk'[j].op = "none" \/ pkDesk'[j].id # id
        BY <1>1, <2>3, PkFacts DEF PkDesksAreSound
      <3>2. CASE e.op = "none"
        <4>1. Keeps(pkFiles'[id], pkAsked'[id])
          BY <1>4, <2>3, <3>2, IdleKeeperIs DEF Keeps
        <4> QED BY <1>1, <3>1, <3>2, <4>1
      <3>3. CASE e.op # "none"
        BY <1>1, <1>3, <2>3, <3>1, <3>3
      <3> QED BY <3>2, <3>3
    <2> QED BY <2>2, <2>3
  <1>11. CommandIsSound'
    <2>1. /\ pkCommand' = pkCommand /\ pkHost' = pkHost /\ pkMixed' = pkMixed
          /\ pkCommand.by = "start" => pkHost' = "down"
      BY PkFacts DEF CommandIsSound
    <2>2. \A j \in Keepers : pkDesk'[j].op # "none" =>
             pkDesk[j].op # "none" /\ pkDesk'[j].id = pkDesk[j].id
      BY <1>1, <1>3
    <2>3. \A id \in SkillIds : pkAsked'[id] = pkAsked[id]
             \/ \E j \in Keepers : pkDesk[j].op # "none" /\ pkDesk[j].id = id
      BY <1>2
    <2> QED BY <2>1, <2>2, <2>3, CommandStays
  <1> QED BY <1>6, <1>7, <1>8, <1>9, <1>11 DEF PkInv

LEMMA RemovePackageKeeps ==
    ASSUME PkInv, NEW k \in Keepers, RemovePackage(k)
    PROVE  PkInv'
  <1> DEFINE d == pkDesk[k]
             e == [d EXCEPT !.files = Tail(@)]
  <1>1. /\ d.op = "delete" /\ Head(d.files) = "package"
        /\ pkFiles' = [pkFiles EXCEPT ![d.id] = NoPackage]
        /\ pkDesk' = [pkDesk EXCEPT ![k] = e]
        /\ UNCHANGED <<pkRegistry, pkHost, pkCommand, pkAsked, pkMixed, pkCalls, pkStarts>>
    BY DEF RemovePackage
  <1>2. d \in PkDesks /\ d.id \in SkillIds /\ d.files \in DeleteQueues /\ ~d.open /\ d.asks.what = "deleted"
    BY <1>1, PkFacts DEF PkDeskIsSound
  <1>3. Tail(d.files) \in DeleteQueues /\ Head(Tail(d.files)) = "registry"
    BY <1>1, <1>2, DeleteQueueIs
  <1>4. /\ e \in PkDesks /\ e.op = d.op /\ e.id = d.id /\ ~e.open /\ e.files = Tail(d.files)
        /\ e.asks = d.asks
    BY <1>2, <1>3 DEF PkDesks
  <1>5. d = pkDesk[k] /\ ~Truncates(k)
    BY <1>2 DEF Truncates
  <1> HIDE DEF d, e
  <1>6. PkDeskIsSound(e)
    BY <1>1, <1>2, <1>3, <1>4 DEF PkDeskIsSound
  <1>7. /\ pkFiles' \in [SkillIds -> Packages] /\ pkFiles'[d.id] = NoPackage
        /\ \A id \in SkillIds : id # d.id => pkFiles'[id] = pkFiles[id]
    BY <1>1, <1>2, IdleKeeperIs, PkFacts DEF PkTypes
  <1>8. Progress(e, pkFiles'[d.id])
    BY <1>1, <1>4, <1>7 DEF Progress
  <1>9. pkAsked' \in [SkillIds -> Askings] /\ pkAsked' = pkAsked
    BY <1>1, PkFacts DEF PkTypes
  <1> QED BY <1>1, <1>4, <1>5, <1>6, <1>7, <1>8, <1>9, KeeperMoves

(* A file of a package changes. *)
LEMMA FileChanges ==
    ASSUME PkInv, NEW i \in SkillIds, NEW f \in PackageFiles,
           NEW v \in FileStates, pkFiles' = [pkFiles EXCEPT ![i][f] = v]
    PROVE  /\ pkFiles' \in [SkillIds -> Packages] /\ pkFiles'[i][f] = v
           /\ \A g \in PackageFiles : g # f => pkFiles'[i][g] = pkFiles[i][g]
           /\ \A id \in SkillIds : id # i => pkFiles'[id] = pkFiles[id]
  <1> DEFINE p == [pkFiles[i] EXCEPT ![f] = v]
  <1>1. pkFiles' = [pkFiles EXCEPT ![i] = p] /\ pkFiles[i] \in Packages /\ pkFiles \in [SkillIds -> Packages]
    BY PkFacts DEF PkTypes
  <1>2. p \in Packages /\ p[f] = v /\ \A g \in PackageFiles : g # f => p[g] = pkFiles[i][g]
    BY <1>1 DEF Packages
  <1> HIDE DEF p
  <1> QED BY <1>1, <1>2

LEMMA OpenFileKeeps ==
    ASSUME PkInv, NEW k \in Keepers, OpenFile(k)
    PROVE  PkInv'
  <1> DEFINE d == pkDesk[k]
             f == Head(d.files)
             e == [d EXCEPT !.open = TRUE]
  <1>1. /\ d.op = "save" /\ f \in PackageFiles /\ ~d.open
        /\ \/ /\ pkFiles' = [pkFiles EXCEPT ![d.id][f] = "torn"]
              /\ pkDesk' = [pkDesk EXCEPT ![k] = e] /\ pkAsked' = pkAsked
           \/ /\ pkDesk' = [pkDesk EXCEPT ![k] = IdleKeeper]
              /\ pkAsked' = [pkAsked EXCEPT ![d.id] = Unasked] /\ pkFiles' = pkFiles
        /\ UNCHANGED <<pkRegistry, pkHost, pkCommand, pkMixed, pkCalls, pkStarts>>
    BY DEF OpenFile, SavingFails
  <1>2. d \in PkDesks /\ d.id \in SkillIds /\ d.files \in SaveQueues /\ d.asks.what \in {"on", "off"}
    BY <1>1, PkFacts DEF PkDeskIsSound
  <1>3. f \in {"md", "config"}
    BY <1>1 DEF PackageFiles
  <1>4. /\ e \in PkDesks /\ e.op = d.op /\ e.id = d.id /\ e.open /\ e.files = d.files
        /\ e.asks = d.asks
    BY <1>2 DEF PkDesks
  <1>5. d = pkDesk[k] /\ ~Truncates(k) /\ f = Head(d.files)
    BY <1>1 DEF Truncates
  <1> HIDE DEF d, e, f
  <1>6. PkDeskIsSound(e)
    BY <1>1, <1>2, <1>3, <1>4, <1>5 DEF PkDeskIsSound
  <1>7. CASE pkDesk' = [pkDesk EXCEPT ![k] = e] /\ pkAsked' = pkAsked
             /\ pkFiles' = [pkFiles EXCEPT ![d.id][f] = "torn"]
    <2>5. "torn" \in FileStates
      BY DEF FileStates
    <2>1. /\ pkFiles' \in [SkillIds -> Packages] /\ pkFiles'[d.id][f] = "torn"
          /\ \A g \in PackageFiles : g # f => pkFiles'[d.id][g] = pkFiles[d.id][g]
          /\ \A id \in SkillIds : id # d.id => pkFiles'[id] = pkFiles[id]
      BY <1>1, <1>2, <1>7, <2>5, FileChanges
    <2>2. pkAsked' \in [SkillIds -> Askings]
      BY <1>7, PkFacts DEF PkTypes
    <2>3. d.id \notin pkMixed => Progress(e, pkFiles'[d.id])
      <3>1. d.id \notin pkMixed => Progress(d, pkFiles[d.id])
        BY <1>1, <1>2, <1>5, PkFacts DEF PackagesHonour
      <3> QED BY <1>1, <1>3, <1>4, <1>5, <2>1, <3>1 DEF Progress, PackageFiles
    <2>4. ~(e.open /\ Head(e.files) = "registry")
      BY <1>3, <1>4, <1>5
    <2> QED BY <1>1, <1>4, <1>5, <1>6, <1>7, <2>1, <2>2, <2>3, <2>4, KeeperMoves
  <1>8. CASE pkDesk' = [pkDesk EXCEPT ![k] = IdleKeeper] /\ pkFiles' = pkFiles
             /\ pkAsked' = [pkAsked EXCEPT ![d.id] = Unasked]
    <2>1. /\ pkAsked' \in [SkillIds -> Askings] /\ pkAsked'[d.id] = Unasked
          /\ \A id \in SkillIds : id # d.id => pkAsked'[id] = pkAsked[id]
      BY <1>2, <1>8, IdleKeeperIs, PkFacts DEF PkTypes
    <2>2. pkFiles' \in [SkillIds -> Packages]
      BY <1>8, PkFacts DEF PkTypes
    <2> QED BY <1>1, <1>5, <1>8, <2>1, <2>2, IdleKeeperIs, KeeperMoves
  <1> QED BY <1>1, <1>7, <1>8

LEMMA PkWriteFileKeeps ==
    ASSUME PkInv, NEW k \in Keepers, WriteFile(k)
    PROVE  PkInv'
  <1> DEFINE d == pkDesk[k]
             f == Head(d.files)
             new == IF pkFiles[d.id][f] = "none" THEN "none" ELSE "saved"
             e == [d EXCEPT !.open = FALSE, !.files = Tail(@)]
  <1>1. /\ d.op = "save" /\ f \in PackageFiles /\ d.open
        /\ pkFiles' = [pkFiles EXCEPT ![d.id][f] = new]
        /\ pkDesk' = [pkDesk EXCEPT ![k] = e]
        /\ UNCHANGED <<pkRegistry, pkHost, pkCommand, pkAsked, pkMixed, pkCalls, pkStarts>>
    BY DEF WriteFile
  <1>2. d \in PkDesks /\ d.id \in SkillIds /\ d.files \in SaveQueues /\ d.asks.what \in {"on", "off"}
    BY <1>1, PkFacts DEF PkDeskIsSound
  <1>3. /\ f \in {"md", "config"} /\ Tail(d.files) \in SaveQueues
        /\ f = "md" => Head(Tail(d.files)) = "config"
        /\ f = "config" => Head(Tail(d.files)) = "read"
    BY <1>1, <1>2, SaveQueueIs DEF PackageFiles
  <1>4. /\ e \in PkDesks /\ e.op = d.op /\ e.id = d.id /\ ~e.open /\ e.files = Tail(d.files)
        /\ e.asks = d.asks
    BY <1>2, <1>3 DEF PkDesks
  <1>5. /\ d = pkDesk[k] /\ ~Truncates(k) /\ f = Head(d.files) /\ new \in FileStates
        /\ pkFiles[d.id][f] # "none" => new = "saved"
    BY <1>3 DEF Truncates, FileStates
  <1> HIDE DEF d, e, f, new
  <1>6. PkDeskIsSound(e)
    BY <1>1, <1>2, <1>3, <1>4, <1>5 DEF PkDeskIsSound
  <1>7. /\ pkFiles' \in [SkillIds -> Packages] /\ pkFiles'[d.id][f] = new
        /\ \A g \in PackageFiles : g # f => pkFiles'[d.id][g] = pkFiles[d.id][g]
        /\ \A id \in SkillIds : id # d.id => pkFiles'[id] = pkFiles[id]
    <2>1. d.id \in SkillIds /\ f \in PackageFiles /\ new \in FileStates
      BY <1>1, <1>2, <1>5
    <2>2. pkFiles' = [pkFiles EXCEPT ![d.id][f] = new]
      BY <1>1
    <2> QED BY <2>1, <2>2, FileChanges
  <1>8. d.id \notin pkMixed => Progress(e, pkFiles'[d.id])
    <2> SUFFICES ASSUME d.id \notin pkMixed PROVE Progress(e, pkFiles'[d.id])
      OBVIOUS
    <2>1. Progress(d, pkFiles[d.id])
      BY <1>1, <1>2, <1>5, PkFacts DEF PackagesHonour
    <2>2. CASE f = "md"
      <3>1. pkFiles'[d.id]["md"] = "saved"
        BY <1>1, <1>5, <1>7, <2>1, <2>2 DEF Progress
      <3> QED BY <1>1, <1>3, <1>4, <2>2, <3>1 DEF Progress
    <2>3. CASE f = "config"
      <3>1. pkFiles'[d.id]["md"] = "saved" /\ pkFiles'[d.id]["config"] = "saved"
        BY <1>1, <1>5, <1>7, <2>1, <2>3 DEF Progress, PackageFiles
      <3>2. pkFiles'[d.id] = Package("saved")
        <4>1. pkFiles'[d.id] \in Packages
          BY <1>2, <1>7
        <4> QED BY <3>1, <4>1 DEF Packages, Package, PackageFiles
      <3> QED BY <1>1, <1>3, <1>4, <2>3, <3>1, <3>2 DEF Progress
    <2> QED BY <1>3, <2>2, <2>3
  <1>9. pkAsked' \in [SkillIds -> Askings] /\ pkAsked' = pkAsked
    BY <1>1, PkFacts DEF PkTypes
  <1>10. ~(e.open /\ Head(e.files) = "registry")
    BY <1>4
  <1> QED BY <1>1, <1>4, <1>5, <1>6, <1>7, <1>8, <1>9, <1>10, KeeperMoves

LEMMA ReadRegistryKeeps ==
    ASSUME PkInv, NEW k \in Keepers, ReadRegistry(k)
    PROVE  PkInv'
  <1> DEFINE d == pkDesk[k]
             e == [d EXCEPT !.seen = pkRegistry, !.files = Tail(@)]
  <1>1. /\ d.op = "save" /\ Head(d.files) = "read"
        /\ pkDesk' = [pkDesk EXCEPT ![k] = e]
        /\ UNCHANGED <<pkRegistry, pkFiles, pkHost, pkCommand, pkAsked, pkMixed, pkCalls, pkStarts>>
    BY DEF ReadRegistry
  <1>2. /\ d \in PkDesks /\ d.id \in SkillIds /\ d.files \in SaveQueues /\ d.asks.what \in {"on", "off"}
        /\ ~d.open
    BY <1>1, PkFacts DEF PkDeskIsSound, PkDesks
  <1>3. Tail(d.files) \in SaveQueues /\ Head(Tail(d.files)) = "registry"
    BY <1>1, <1>2, SaveQueueIs
  <1>4. /\ e \in PkDesks /\ e.op = d.op /\ e.id = d.id /\ ~e.open /\ e.files = Tail(d.files)
        /\ e.asks = d.asks
    <2>1. pkRegistry \in Registries
      BY PkFacts DEF PkTypes
    <2> QED BY <1>2, <1>3, <2>1 DEF PkDesks
  <1>5. d = pkDesk[k] /\ ~Truncates(k)
    BY <1>2 DEF Truncates
  <1> HIDE DEF d, e
  <1>6. PkDeskIsSound(e)
    BY <1>1, <1>2, <1>3, <1>4 DEF PkDeskIsSound
  <1>7. d.id \notin pkMixed => Progress(e, pkFiles'[d.id])
    <2>1. d.id \notin pkMixed => Progress(d, pkFiles[d.id])
      BY <1>1, <1>2, <1>5, PkFacts DEF PackagesHonour
    <2> QED BY <1>1, <1>3, <1>4, <2>1 DEF Progress
  <1>8. pkAsked' \in [SkillIds -> Askings] /\ pkFiles' \in [SkillIds -> Packages]
    BY <1>1, PkFacts DEF PkTypes
  <1> QED BY <1>1, <1>4, <1>5, <1>6, <1>7, <1>8, KeeperMoves

LEMMA OpenRegistryKeeps ==
    ASSUME PkInv, NEW k \in Keepers, OpenRegistry(k)
    PROVE  PkInv'
  <1> DEFINE d == pkDesk[k]
             e == [d EXCEPT !.open = TRUE]
  <1>1. /\ d.op # "none" /\ Head(d.files) = "registry" /\ ~d.open
        /\ pkRegistry' = EmptyRegistry
        /\ pkDesk' = [pkDesk EXCEPT ![k] = e]
        /\ pkMixed' = IF pkRegistry # d.seen \/ Truncating THEN SkillIds ELSE pkMixed
        /\ UNCHANGED <<pkFiles, pkHost, pkCommand, pkAsked, pkCalls, pkStarts>>
    BY DEF OpenRegistry
  <1>2. d \in PkDesks /\ PkDeskIsSound(d) /\ d.id \in SkillIds /\ pkHost = "up"
    BY <1>1, PkFacts DEF PkDeskIsSound, PkDesksAreSound
  <1>3. /\ e \in PkDesks /\ e.op = d.op /\ e.id = d.id /\ e.open /\ e.files = d.files
        /\ e.asks = d.asks /\ e.seen = d.seen
    BY <1>2 DEF PkDesks
  <1>4. d = pkDesk[k] /\ ~Truncates(k)
    BY <1>1 DEF Truncates
  <1> HIDE DEF d, e
  <1>5. PkDeskIsSound(e)
    BY <1>1, <1>2, <1>3 DEF PkDeskIsSound
  <1>6. /\ pkDesk' \in [Keepers -> PkDesks] /\ pkDesk'[k] = e
        /\ \A j \in Keepers : j # k => pkDesk'[j] = pkDesk[j]
    BY <1>1, <1>3, PkFacts DEF PkTypes
  <1>7. Truncates(k)' /\ \A j \in Keepers : j # k => (Truncates(j)' <=> Truncates(j))
    BY <1>1, <1>3, <1>6 DEF Truncates
  <1>8. pkMixed \subseteq pkMixed' /\ pkMixed' \subseteq SkillIds
    BY <1>1, PkFacts DEF PkTypes
  <1>9. PkTypes'
    BY <1>1, <1>6, <1>8, IdleKeeperIs, PkFacts DEF PkTypes
  <1>10. PkDesksAreSound'
    BY <1>1, <1>2, <1>3, <1>4, <1>5, <1>6, <1>8, PkFacts DEF PkDesksAreSound
  <1>11. RegistryHonours'
    <2>1. CASE pkMixed' = SkillIds
      BY <2>1 DEF RegistryHonours
    <2>2. CASE pkMixed' # SkillIds
      <3>1. /\ pkMixed' = pkMixed /\ pkRegistry = d.seen /\ ~Truncating /\ ~CommandTruncates
            /\ \A j \in Keepers : ~Truncates(j)
        BY <1>1, <2>2 DEF Truncating
      <3>2. \A j \in Keepers : Truncates(j)' <=> j = k
        BY <1>7, <3>1
      <3>3. \A id \in SkillIds \ pkMixed : Honours(e.seen, id, pkAsked[id])
        BY <1>3, <3>1, PkFacts DEF RegistryHonours
      <3>4. ~CommandTruncates' /\ Truncating'
        BY <1>1, <1>7, <3>1 DEF CommandTruncates, Truncating
      <3> QED BY <1>1, <1>6, <3>1, <3>2, <3>3, <3>4 DEF RegistryHonours
    <2> QED BY <2>1, <2>2
  <1>12. PackagesHonour'
    <2> SUFFICES ASSUME NEW id \in SkillIds \ pkMixed'
                 PROVE  /\ (\A j \in Keepers : pkDesk'[j].op = "none" \/ pkDesk'[j].id # id) =>
                              Keeps(pkFiles[id], pkAsked[id])
                        /\ \A j \in Keepers : pkDesk'[j].op # "none" /\ pkDesk'[j].id = id =>
                              Progress(pkDesk'[j], pkFiles[id])
      BY <1>1 DEF PackagesHonour
    <2>1. /\ (\A j \in Keepers : pkDesk[j].op = "none" \/ pkDesk[j].id # id) =>
                Keeps(pkFiles[id], pkAsked[id])
          /\ \A j \in Keepers : pkDesk[j].op # "none" /\ pkDesk[j].id = id =>
                Progress(pkDesk[j], pkFiles[id])
      BY <1>8, PkFacts DEF PackagesHonour
    <2>2. \A p : Progress(d, p) => Progress(e, p)
      BY <1>1, <1>3 DEF Progress
    <2> QED BY <1>3, <1>4, <1>6, <2>1, <2>2
  <1>13. CommandIsSound'
    <2>1. pkCommand' = pkCommand /\ (pkCommand.by = "start" => pkHost' = "down")
      BY <1>1, PkFacts DEF CommandIsSound
    <2>2. \A j \in Keepers : pkDesk'[j].op # "none" =>
             pkDesk[j].op # "none" /\ pkDesk'[j].id = pkDesk[j].id
      BY <1>1, <1>3, <1>4, <1>6
    <2> QED BY <1>1, <1>8, <2>1, <2>2, CommandStays
  <1> QED BY <1>9, <1>10, <1>11, <1>12, <1>13 DEF PkInv

(* The registry as a request edits it. *)
LEMMA EditedRegistryIs ==
    ASSUME NEW d \in PkDesks, PkDeskIsSound(d), d.op # "none"
    PROVE  /\ EditedRegistry(d) \in Registries /\ Honours(EditedRegistry(d), d.id, d.asks)
           /\ \A id \in SkillIds : \A a : id # d.id /\ Honours(d.seen, id, a) =>
                 Honours(EditedRegistry(d), id, a)
  <1> DEFINE i == d.id
             s == d.seen
             w == IF d.op = "delete" THEN "none" ELSE d.asks.what
             b == IF d.asks.block \/ (d.op = "delete" /\ i \in BuiltinIds)
                  THEN s.blocked \cup {i} ELSE s.blocked \ {i}
             on == [s.on EXCEPT ![i] = w]
             r == [s EXCEPT !.on = on, !.blocked = b]
  <1>1. EditedRegistry(d) = r
    BY DEF EditedRegistry
  <1>2. /\ i \in SkillIds /\ s \in Registries /\ d.asks \in Askings
        /\ w \in {"none", "on", "off"} /\ d.op \in {"save", "delete"}
        /\ d.op = "save" => w = d.asks.what /\ d.asks.what \in {"on", "off"}
        /\ d.op = "delete" => d.asks.what = "deleted"
    BY DEF PkDesks, PkDeskIsSound
  <1>3. /\ b \subseteq SkillIds /\ (d.asks.block \/ (d.op = "delete" /\ i \in BuiltinIds) => i \in b)
        /\ \A id \in SkillIds : id # i => (id \in b <=> id \in s.blocked)
    BY <1>2 DEF Registries
  <1>4. /\ on \in [SkillIds -> {"none", "on", "off"}] /\ on[i] = w
        /\ \A id \in SkillIds : id # i => on[id] = s.on[id]
    <2>1. s.on \in [SkillIds -> {"none", "on", "off"}]
      BY <1>2 DEF Registries
    <2> HIDE DEF w, s
    <2> QED BY <1>2, <2>1
  <1>5. i = d.id /\ s = d.seen
    OBVIOUS
  <1> HIDE DEF i, s, w, b, on
  <1>6. r \in Registries /\ r.on = on /\ r.blocked = b
    BY <1>2, <1>3, <1>4 DEF Registries
  <1> HIDE DEF r
  <1>7. Honours(r, i, d.asks)
    BY <1>2, <1>3, <1>4, <1>6 DEF Honours
  <1>8. ASSUME NEW id \in SkillIds, NEW a, id # i, Honours(s, id, a)
        PROVE  Honours(r, id, a)
    BY <1>3, <1>4, <1>6, <1>8 DEF Honours
  <1> QED BY <1>1, <1>5, <1>6, <1>7, <1>8

LEMMA WriteRegistryKeeps ==
    ASSUME PkInv, NEW k \in Keepers, WriteRegistry(k)
    PROVE  PkInv'
  <1> DEFINE d == pkDesk[k]
             r == EditedRegistry(d)
  <1>1. /\ d.op # "none" /\ Head(d.files) = "registry" /\ d.open /\ pkRegistry' = r
        /\ pkDesk' = [pkDesk EXCEPT ![k] = IdleKeeper]
        /\ pkAsked' = [pkAsked EXCEPT ![d.id] = d.asks]
        /\ UNCHANGED <<pkFiles, pkHost, pkCommand, pkMixed, pkCalls, pkStarts>>
    BY DEF WriteRegistry
  <1>2. /\ d \in PkDesks /\ PkDeskIsSound(d) /\ d.id \in SkillIds /\ d.asks \in Askings
        /\ d.op \in {"save", "delete"}
        /\ d.op = "save" => d.asks.what \in {"on", "off"}
        /\ d.op = "delete" => d.asks.what = "deleted"
    BY <1>1, PkFacts DEF PkDeskIsSound, PkDesks
  <1>3. /\ r \in Registries /\ Honours(r, d.id, d.asks)
        /\ \A id \in SkillIds : \A a : id # d.id /\ Honours(d.seen, id, a) => Honours(r, id, a)
    BY <1>1, <1>2, EditedRegistryIs
  <1>4. d = pkDesk[k] /\ Truncates(k)
    BY <1>1 DEF Truncates
  <1> HIDE DEF d, r
  <1>5. /\ pkDesk' \in [Keepers -> PkDesks] /\ pkDesk'[k] = IdleKeeper
        /\ \A j \in Keepers : j # k => pkDesk'[j] = pkDesk[j]
    BY <1>1, IdleKeeperIs, PkFacts DEF PkTypes
  <1>6. /\ pkAsked' \in [SkillIds -> Askings] /\ pkAsked'[d.id] = d.asks
        /\ \A id \in SkillIds : id # d.id => pkAsked'[id] = pkAsked[id]
    BY <1>1, <1>2, PkFacts DEF PkTypes
  <1>7. ~Truncates(k)' /\ \A j \in Keepers : j # k => (Truncates(j)' <=> Truncates(j))
    BY <1>5, IdleKeeperIs DEF Truncates
  <1>8. PkTypes'
    BY <1>1, <1>3, <1>5, <1>6, PkFacts DEF PkTypes
  <1>9. PkDesksAreSound'
    BY <1>1, <1>5, IdleKeeperIs, PkFacts DEF PkDesksAreSound
  <1>10. RegistryHonours'
    <2>1. CASE pkMixed = SkillIds
      BY <1>1, <2>1 DEF RegistryHonours
    <2>2. CASE pkMixed # SkillIds
      <3>1. (\A j \in Keepers : ~Truncates(j)') /\ ~CommandTruncates'
        BY <1>1, <1>4, <1>7, <2>2, PkFacts DEF RegistryHonours, CommandTruncates
      <3>2. ASSUME NEW id \in SkillIds \ pkMixed
            PROVE  Honours(r, id, pkAsked'[id])
        <4>1. Honours(d.seen, id, pkAsked[id])
          BY <1>4, PkFacts DEF RegistryHonours
        <4> QED BY <1>3, <1>6, <4>1
      <3> QED BY <1>1, <3>1, <3>2 DEF RegistryHonours
    <2> QED BY <2>1, <2>2
  <1>11. PackagesHonour'
    <2> SUFFICES ASSUME NEW id \in SkillIds \ pkMixed
                 PROVE  /\ (\A j \in Keepers : pkDesk'[j].op = "none" \/ pkDesk'[j].id # id) =>
                              Keeps(pkFiles[id], pkAsked'[id])
                        /\ \A j \in Keepers : pkDesk'[j].op # "none" /\ pkDesk'[j].id = id =>
                              Progress(pkDesk'[j], pkFiles[id])
      BY <1>1 DEF PackagesHonour
    <2>1. /\ (\A j \in Keepers : pkDesk[j].op = "none" \/ pkDesk[j].id # id) =>
                Keeps(pkFiles[id], pkAsked[id])
          /\ \A j \in Keepers : pkDesk[j].op # "none" /\ pkDesk[j].id = id =>
                Progress(pkDesk[j], pkFiles[id])
      BY PkFacts DEF PackagesHonour
    <2>2. \A j \in Keepers : pkDesk'[j].op # "none" => j # k /\ pkDesk'[j] = pkDesk[j]
      BY <1>5, IdleKeeperIs
    <2>3. CASE id = d.id
      <3>1. Progress(d, pkFiles[id])
        BY <1>1, <1>4, <2>1, <2>3
      <3>2. Keeps(pkFiles[id], d.asks)
        BY <1>1, <1>2, <3>1 DEF Progress, Keeps
      <3> QED BY <1>6, <2>1, <2>2, <2>3, <3>2
    <2>4. CASE id # d.id
      BY <1>4, <1>5, <1>6, <2>1, <2>2, <2>4
    <2> QED BY <2>3, <2>4
  <1>12. CommandIsSound'
    <2>1. pkCommand' = pkCommand /\ (pkCommand.by = "start" => pkHost' = "down") /\ pkMixed' = pkMixed
      BY <1>1, PkFacts DEF CommandIsSound
    <2>2. \A j \in Keepers : pkDesk'[j].op # "none" =>
             pkDesk[j].op # "none" /\ pkDesk'[j].id = pkDesk[j].id
      BY <1>5, IdleKeeperIs
    <2>3. \A id \in SkillIds : pkAsked'[id] = pkAsked[id]
             \/ \E j \in Keepers : pkDesk[j].op # "none" /\ pkDesk[j].id = id
      BY <1>1, <1>4, <1>6
    <2> QED BY <2>1, <2>2, <2>3, CommandStays
  <1> QED BY <1>8, <1>9, <1>10, <1>11, <1>12 DEF PkInv

LEMMA TakeKeeps ==
    ASSUME PkInv, NEW k \in Keepers, NEW op \in {"save", "delete"}, NEW i \in SkillIds,
           NEW asks \in Askings, NEW files, NEW seen \in Registries, Take(k, op, i, asks, files, seen),
           op = "save" => files = <<"md", "config", "read", "registry">> /\ asks.what \in {"on", "off"},
           op = "delete" => files = <<"package", "registry">> /\ asks.what = "deleted"
    PROVE  PkInv'
  <1> DEFINE e == [IdleKeeper EXCEPT !.op = op, !.id = i, !.asks = asks, !.files = files, !.seen = seen]
  <1>1. /\ pkHost = "up" /\ pkDesk[k].op = "none"
        /\ pkCalls < MaxPkCalls /\ pkCalls' = pkCalls + 1
        /\ pkDesk' = [pkDesk EXCEPT ![k] = e]
        /\ pkMixed' = IF pkCommand.by # "none" \/ i \in InHand THEN pkMixed \cup {i} ELSE pkMixed
        /\ UNCHANGED <<pkRegistry, pkFiles, pkHost, pkCommand, pkAsked, pkStarts>>
    BY DEF Take
  <1>2. files \in SaveQueues \cup DeleteQueues /\ (op = "save" => files \in SaveQueues)
        /\ (op = "delete" => files \in DeleteQueues)
    BY DEF SaveQueues, DeleteQueues
  <1>3. /\ e \in PkDesks /\ e.op = op /\ e.id = i /\ ~e.open /\ e.files = files /\ e.asks = asks
    BY <1>2, IdleKeeperIs DEF PkDesks
  <1> HIDE DEF e
  <1>4. PkDeskIsSound(e)
    BY <1>2, <1>3 DEF PkDeskIsSound
  <1>5. op = "save" => Head(files) = "md"
    OBVIOUS
  <1>6. op = "delete" => Head(files) = "package"
    OBVIOUS
  <1>7. /\ pkDesk' \in [Keepers -> PkDesks] /\ pkDesk'[k] = e
        /\ \A j \in Keepers : j # k => pkDesk'[j] = pkDesk[j]
    BY <1>1, <1>3, PkFacts DEF PkTypes
  <1>8. ~Truncates(k)' /\ ~Truncates(k) /\ \A j \in Keepers : j # k => (Truncates(j)' <=> Truncates(j))
    BY <1>1, <1>3, <1>7, PkFacts DEF Truncates
  <1>9. /\ pkMixed \subseteq pkMixed' /\ pkMixed' \subseteq SkillIds
        /\ i \notin pkMixed' => /\ \A j \in Keepers : pkDesk[j].op = "none" \/ pkDesk[j].id # i
                                /\ pkCommand.by = "none"
    BY <1>1, PkFacts DEF PkTypes, InHand
  <1>10. PkTypes'
    <2>1. pkCalls' \in 0..MaxPkCalls
      BY <1>1, PkFacts DEF PkTypes
    <2> QED BY <1>1, <1>7, <1>9, <2>1, PkFacts DEF PkTypes
  <1>11. PkDesksAreSound'
    BY <1>1, <1>3, <1>4, <1>7, <1>9, PkFacts DEF PkDesksAreSound
  <1>12. RegistryHonours'
    <2>3. (CommandTruncates' <=> CommandTruncates) /\ (Truncating' <=> Truncating)
      BY <1>1, <1>8 DEF CommandTruncates, Truncating
    <2>1. /\ \A j, l \in Keepers : Truncates(j)' /\ Truncates(l)' /\ j # l => pkMixed' = SkillIds
          /\ \A j \in Keepers : Truncates(j)' /\ CommandTruncates' => pkMixed' = SkillIds
      BY <1>8, <1>9, <2>3, PkFacts DEF RegistryHonours
    <2>2. ASSUME NEW id \in SkillIds \ pkMixed'
          PROVE  /\ \A j \in Keepers : Truncates(j)' => Honours(pkDesk'[j].seen, id, pkAsked[id])
                 /\ CommandTruncates' => Honours(pkCommand.seen, id, pkAsked[id])
                 /\ ~Truncating' => Honours(pkRegistry, id, pkAsked[id])
      BY <1>7, <1>8, <1>9, <2>3, PkFacts DEF RegistryHonours
    <2> QED BY <1>1, <2>1, <2>2 DEF RegistryHonours
  <1>13. PackagesHonour'
    <2> SUFFICES ASSUME NEW id \in SkillIds \ pkMixed'
                 PROVE  /\ (\A j \in Keepers : pkDesk'[j].op = "none" \/ pkDesk'[j].id # id) =>
                              Keeps(pkFiles[id], pkAsked[id])
                        /\ \A j \in Keepers : pkDesk'[j].op # "none" /\ pkDesk'[j].id = id =>
                              Progress(pkDesk'[j], pkFiles[id])
      BY <1>1 DEF PackagesHonour
    <2>1. /\ (\A j \in Keepers : pkDesk[j].op = "none" \/ pkDesk[j].id # id) =>
                Keeps(pkFiles[id], pkAsked[id])
          /\ \A j \in Keepers : pkDesk[j].op # "none" /\ pkDesk[j].id = id =>
                Progress(pkDesk[j], pkFiles[id])
      BY <1>9, PkFacts DEF PackagesHonour
    <2>2. \A p : Progress(e, p)
      BY <1>3, <1>5, <1>6 DEF Progress
    <2> QED BY <1>1, <1>7, <2>1, <2>2
  <1>14. CommandIsSound'
    <2>1. pkCommand' = pkCommand /\ (pkCommand.by = "start" => pkHost' = "down")
      BY <1>1, PkFacts DEF CommandIsSound
    <2>2. \A j \in Keepers : pkDesk'[j].op # "none" =>
             \/ pkDesk[j].op # "none" /\ pkDesk'[j].id = pkDesk[j].id
             \/ pkCommand.by # "none" => pkDesk'[j].id \in pkMixed'
      BY <1>3, <1>7, <1>9
    <2> QED BY <1>1, <1>9, <2>1, <2>2, CommandStays
  <1> QED BY <1>10, <1>11, <1>12, <1>13, <1>14 DEF PkInv

LEMMA StartSavingKeeps ==
    ASSUME PkInv, NEW k \in Keepers, NEW id \in SkillIds, NEW flag \in {"on", "off"},
           NEW block \in BOOLEAN, StartSaving(k, id, flag, block)
    PROVE  PkInv'
  <1> DEFINE asks == [what |-> flag, block |-> block]
             files == <<"md", "config", "read", "registry">>
  <1>1. Take(k, "save", id, asks, files, EmptyRegistry)
    BY DEF StartSaving
  <1>2. asks \in Askings /\ asks.what \in {"on", "off"}
    BY DEF Askings
  <1>3. files = <<"md", "config", "read", "registry">>
    OBVIOUS
  <1> HIDE DEF asks, files
  <1> QED BY <1>1, <1>2, <1>3, IdleKeeperIs, TakeKeeps

LEMMA StartDeletingKeeps ==
    ASSUME PkInv, NEW k \in Keepers, NEW id \in SkillIds, StartDeleting(k, id)
    PROVE  PkInv'
  <1> DEFINE asks == [what |-> "deleted", block |-> FALSE]
             files == <<"package", "registry">>
  <1>1. Take(k, "delete", id, asks, files, pkRegistry)
    BY DEF StartDeleting
  <1>2. asks \in Askings /\ asks.what = "deleted"
    BY DEF Askings
  <1>3. files = <<"package", "registry">> /\ pkRegistry \in Registries
    BY PkFacts DEF PkTypes
  <1> HIDE DEF asks, files
  <1> QED BY <1>1, <1>2, <1>3, TakeKeeps

(* The server comes up, fails to or stops: it upsets what requests are about *)
(* and leaves everything else as it was asked for. *)
LEMMA HostMoves ==
    ASSUME PkInv, UNCHANGED <<pkRegistry, pkFiles, pkCommand, pkAsked, pkCalls, pkStarts>>,
           pkHost # "down", pkHost' \in {"down", "written", "up"},
           pkDesk' = [k \in Keepers |-> IdleKeeper],
           pkMixed \subseteq pkMixed', pkMixed' \subseteq SkillIds,
           \A k \in Keepers : pkDesk[k].op # "none" => pkDesk[k].id \in pkMixed',
           pkMixed' # SkillIds => \A k \in Keepers : ~Truncates(k)
    PROVE  PkInv'
  <1>1. pkDesk' \in [Keepers -> PkDesks] /\ \A k \in Keepers : pkDesk'[k] = IdleKeeper
    BY IdleKeeperIs
  <1>2. PkTypes'
    BY <1>1, PkFacts DEF PkTypes
  <1>3. PkDesksAreSound'
    BY <1>1, IdleKeeperIs, PkFacts DEF PkDesksAreSound
  <1>4. /\ \A k \in Keepers : ~Truncates(k)'
        /\ CommandTruncates' <=> CommandTruncates
    BY <1>1, IdleKeeperIs DEF Truncates, CommandTruncates
  <1>5. RegistryHonours'
    <2> SUFFICES ASSUME NEW id \in SkillIds \ pkMixed'
                 PROVE  /\ CommandTruncates => Honours(pkCommand.seen, id, pkAsked[id])
                        /\ ~CommandTruncates => Honours(pkRegistry, id, pkAsked[id])
      BY <1>4 DEF RegistryHonours, Truncating
    <2>1. id \in SkillIds \ pkMixed /\ (\A k \in Keepers : ~Truncates(k)) /\ (Truncating <=> CommandTruncates)
      BY DEF Truncating
    <2> QED BY <2>1, PkFacts DEF RegistryHonours
  <1>6. PackagesHonour'
    <2>1. ASSUME NEW id \in SkillIds \ pkMixed'
          PROVE  Keeps(pkFiles[id], pkAsked[id])
      BY <2>1, PkFacts DEF PackagesHonour
    <2> QED BY <1>1, <2>1, IdleKeeperIs DEF PackagesHonour
  <1>7. CommandIsSound'
    <2>1. pkCommand.by # "start" /\ \A k \in Keepers : pkDesk'[k].op = "none"
      BY <1>1, IdleKeeperIs, PkFacts DEF CommandIsSound
    <2> QED BY <2>1, CommandStays
  <1> QED BY <1>2, <1>3, <1>5, <1>6, <1>7 DEF PkInv

LEMMA BootHostKeeps ==
    ASSUME PkInv, BootHost \/ BootFails
    PROVE  PkInv'
  <1>1. /\ pkHost = "written" /\ pkHost' \in {"down", "up"}
        /\ UNCHANGED <<pkRegistry, pkFiles, pkCommand, pkDesk, pkAsked, pkMixed, pkCalls, pkStarts>>
    BY DEF BootHost, BootFails
  <1>2. /\ \A k \in Keepers : pkDesk[k].op = "none" /\ ~Truncates(k) /\ pkDesk[k] = IdleKeeper
        /\ pkMixed \subseteq SkillIds /\ pkDesk \in [Keepers -> PkDesks]
    BY <1>1, PkFacts DEF PkTypes, PkDesksAreSound, PkDeskIsSound
  <1>3. pkDesk' = [k \in Keepers |-> IdleKeeper]
    BY <1>1, <1>2
  <1> QED BY <1>1, <1>2, <1>3, HostMoves

LEMMA HostStopsKeeps ==
    ASSUME PkInv, HostStops
    PROVE  PkInv'
  <1>1. /\ pkHost = "up" /\ pkHost' = "down" /\ pkDesk' = [k \in Keepers |-> IdleKeeper]
        /\ pkMixed' = IF \E k \in Keepers : Truncates(k) THEN SkillIds ELSE pkMixed \cup InHand
        /\ UNCHANGED <<pkRegistry, pkFiles, pkCommand, pkAsked, pkCalls, pkStarts>>
    BY DEF HostStops
  <1>2. /\ pkMixed \subseteq pkMixed' /\ pkMixed' \subseteq SkillIds
        /\ \A k \in Keepers : pkDesk[k].op # "none" => pkDesk[k].id \in pkMixed'
        /\ pkMixed' # SkillIds => \A k \in Keepers : ~Truncates(k)
    BY <1>1, PkFacts DEF PkTypes, PkDeskIsSound, InHand
  <1> QED BY <1>1, <1>2, HostMoves

(* A step of the command: what it removes or writes was asked for by nobody. *)
LEMMA CommandMoves ==
    ASSUME PkInv, NEW c \in Commands, pkCommand' = c, CommandShape(c),
           c.by = "start" => pkHost' = "down",
           pkRegistry' \in Registries, pkFiles' \in [SkillIds -> Packages],
           pkHost' \in {"down", "written", "up"}, pkHost = "up" => pkHost' = "up",
           pkStarts' \in 0..MaxStarts, UNCHANGED <<pkDesk, pkAsked, pkCalls>>,
           pkMixed \subseteq pkMixed', pkMixed' \subseteq SkillIds,
           \A k \in Keepers : pkDesk[k].op # "none" => pkDesk[k].id \in pkMixed',
           \A id \in SkillIds \ pkMixed' :
              /\ pkFiles'[id] = pkFiles[id] \/ Unbound(pkAsked[id])
              /\ \A f : <<id, f>> \in c.left => Unbound(pkAsked[id]),
           RegistryHonours'
    PROVE  PkInv'
  <1>1. PkTypes'
    BY PkFacts DEF PkTypes
  <1>2. PkDesksAreSound'
    BY PkFacts DEF PkDesksAreSound
  <1>3. PackagesHonour'
    <2>1. ASSUME NEW id \in SkillIds \ pkMixed'
          PROVE  Keeps(pkFiles'[id], pkAsked[id])
      <3>1. Keeps(pkFiles[id], pkAsked[id])
        BY <2>1, PkFacts DEF PackagesHonour
      <3> QED BY <2>1, <3>1 DEF Keeps, Unbound
    <2> QED BY <2>1 DEF PackagesHonour
  <1>4. CommandIsSound'
    BY DEF CommandIsSound
  <1> QED BY <1>1, <1>2, <1>3, <1>4 DEF PkInv

(* While the command does not write the registry, and does not begin to.     *)
LEMMA RegistryStays ==
    ASSUME PkInv, UNCHANGED <<pkRegistry, pkDesk, pkAsked>>, pkMixed \subseteq pkMixed', pkMixed' \subseteq SkillIds,
           ~CommandTruncates, ~CommandTruncates'
    PROVE  RegistryHonours'
  <1>1. (\A k \in Keepers : Truncates(k)' <=> Truncates(k)) /\ (Truncating' <=> Truncating)
    BY DEF Truncates, Truncating
  <1> QED BY <1>1, PkFacts DEF RegistryHonours

(* What every step of the command starts from. *)
LEMMA CommandFacts ==
    ASSUME PkInv
    PROVE  /\ pkCommand \in Commands /\ CommandShape(pkCommand)
           /\ pkCommand.by = "start" => pkHost = "down"
           /\ pkCommand.step # "none" \/ pkCommand.left # {} \/ pkCommand.open => pkCommand.by # "none"
           /\ pkCommand.by # "none" => \A k \in Keepers : pkDesk[k].op # "none" => pkDesk[k].id \in pkMixed
           /\ \A id \in SkillIds \ pkMixed : \A f : <<id, f>> \in pkCommand.left => Unbound(pkAsked[id])
           /\ pkRegistry \in Registries /\ pkFiles \in [SkillIds -> Packages]
           /\ pkHost \in {"down", "written", "up"} /\ pkStarts \in 0..MaxStarts /\ pkMixed \subseteq SkillIds
  BY PkFacts DEF PkTypes, CommandIsSound, CommandShape, NoCommand

LEMMA BeginCommandKeeps ==
    ASSUME PkInv, BeginCommand
    PROVE  PkInv'
  <1> DEFINE by == IF pkHost = "down" THEN "start" ELSE "other"
             c == [NoCommand EXCEPT !.by = by, !.step = "read"]
  <1>1. /\ pkCommand.by = "none" /\ pkStarts < MaxStarts /\ pkStarts' = pkStarts + 1
        /\ pkCommand' = c /\ pkMixed' = pkMixed \cup InHand
        /\ UNCHANGED <<pkRegistry, pkFiles, pkHost, pkDesk, pkAsked, pkCalls>>
    BY DEF BeginCommand
  <1>2. /\ c \in Commands /\ c.by = by /\ c.step = "read" /\ ~c.open /\ c.left = {}
        /\ by \in {"start", "other"} /\ (by = "start" => pkHost = "down")
    BY NoCommandIs DEF Commands
  <1> HIDE DEF c, by
  <1>3. CommandShape(c)
    BY <1>2 DEF CommandShape
  <1>4. /\ pkStarts' \in 0..MaxStarts /\ pkMixed \subseteq pkMixed' /\ pkMixed' \subseteq SkillIds
        /\ \A k \in Keepers : pkDesk[k].op # "none" => pkDesk[k].id \in pkMixed'
    BY <1>1, CommandFacts, PkFacts DEF InHand, PkDeskIsSound
  <1>5. ~CommandTruncates /\ ~CommandTruncates'
    BY <1>1, <1>2, CommandFacts DEF CommandTruncates
  <1>6. RegistryHonours'
    BY <1>1, <1>4, <1>5, RegistryStays
  <1> QED BY <1>1, <1>2, <1>3, <1>4, <1>6, CommandFacts, CommandMoves

LEMMA CommandReadsKeeps ==
    ASSUME PkInv, CommandReads
    PROVE  PkInv'
  <1> DEFINE c == [pkCommand EXCEPT !.seen = pkRegistry, !.step = "registry"]
  <1>1. /\ pkCommand.step = "read" /\ pkCommand' = c
        /\ UNCHANGED <<pkRegistry, pkFiles, pkHost, pkDesk, pkAsked, pkMixed, pkCalls, pkStarts>>
    BY DEF CommandReads
  <1>2. /\ c \in Commands /\ c.by = pkCommand.by /\ c.step = "registry" /\ ~c.open
        /\ c.left = {} /\ pkCommand.by # "none"
    BY <1>1, CommandFacts DEF Commands, CommandShape
  <1> HIDE DEF c
  <1>3. CommandShape(c) /\ ~CommandTruncates /\ ~CommandTruncates'
    BY <1>1, <1>2 DEF CommandShape, CommandTruncates
  <1>4. RegistryHonours'
    BY <1>1, <1>3, CommandFacts, RegistryStays
  <1> QED BY <1>1, <1>2, <1>3, <1>4, CommandFacts, CommandMoves

LEMMA CommandOpensKeeps ==
    ASSUME PkInv, CommandOpens
    PROVE  PkInv'
  <1> DEFINE c == [pkCommand EXCEPT !.open = TRUE]
  <1>1. /\ pkCommand.step = "registry" /\ ~pkCommand.open /\ pkCommand' = c /\ pkRegistry' = EmptyRegistry
        /\ pkMixed' = IF pkRegistry # pkCommand.seen \/ Truncating THEN SkillIds ELSE pkMixed
        /\ UNCHANGED <<pkFiles, pkHost, pkDesk, pkAsked, pkCalls, pkStarts>>
    BY DEF CommandOpens
  <1>2. /\ c \in Commands /\ c.by = pkCommand.by /\ c.step = "registry" /\ c.open
        /\ c.left = {} /\ pkCommand.by # "none" /\ c.seen = pkCommand.seen
    BY <1>1, CommandFacts DEF Commands, CommandShape
  <1> HIDE DEF c
  <1>3. /\ CommandShape(c) /\ pkMixed \subseteq pkMixed' /\ pkMixed' \subseteq SkillIds
        /\ \A k \in Keepers : Truncates(k)' <=> Truncates(k)
    BY <1>1, <1>2, CommandFacts DEF CommandShape, Truncates
  <1>4. RegistryHonours'
    <2>1. CASE pkMixed' = SkillIds
      BY <2>1 DEF RegistryHonours
    <2>2. CASE pkMixed' # SkillIds
      <3>1. /\ pkMixed' = pkMixed /\ pkRegistry = pkCommand.seen /\ ~Truncating
            /\ \A k \in Keepers : ~Truncates(k)
        BY <1>1, <2>2 DEF Truncating
      <3>2. CommandTruncates' /\ Truncating'
        BY <1>1, <1>2 DEF CommandTruncates, Truncating
      <3> QED BY <1>1, <1>2, <1>3, <3>1, <3>2, PkFacts DEF RegistryHonours
    <2> QED BY <2>1, <2>2
  <1> QED BY <1>1, <1>2, <1>3, <1>4, IdleKeeperIs, CommandFacts, CommandMoves

LEMMA SyncedIs ==
    ASSUME NEW r \in Registries
    PROVE  /\ Synced(r) \in Registries
           /\ \A id \in SkillIds : \A a : Honours(r, id, a) => Honours(Synced(r), id, a)
  <1> DEFINE on == [id \in SkillIds |->
                       IF id \in BuiltinIds /\ r.on[id] = "none" THEN "on" ELSE r.on[id]]
             s == [r EXCEPT !.on = on]
  <1>1. Synced(r) = s
    BY DEF Synced
  <1>2. r.on \in [SkillIds -> {"none", "on", "off"}] /\ r.blocked \in SUBSET SkillIds
    BY DEF Registries
  <1>3. /\ on \in [SkillIds -> {"none", "on", "off"}]
        /\ \A id \in SkillIds : r.on[id] # "none" => on[id] = r.on[id]
    BY <1>2
  <1> HIDE DEF on
  <1>4. s \in Registries /\ s.on = on /\ s.blocked = r.blocked
    BY <1>3 DEF Registries
  <1> HIDE DEF s
  <1>5. ASSUME NEW id \in SkillIds, NEW a, Honours(r, id, a)
        PROVE  Honours(s, id, a)
    BY <1>3, <1>4, <1>5 DEF Honours
  <1> QED BY <1>1, <1>4, <1>5

LEMMA CommandWritesKeeps ==
    ASSUME PkInv, CommandWrites
    PROVE  PkInv'
  <1> DEFINE c == [pkCommand EXCEPT !.open = FALSE, !.step = "look"]
  <1>1. /\ CommandTruncates /\ pkCommand' = c /\ pkRegistry' = Synced(pkCommand.seen)
        /\ UNCHANGED <<pkFiles, pkHost, pkDesk, pkAsked, pkMixed, pkCalls, pkStarts>>
    BY DEF CommandWrites
  <1>2. /\ c \in Commands /\ c.by = pkCommand.by /\ c.step = "look" /\ ~c.open
        /\ c.left = {} /\ pkCommand.by # "none"
    BY <1>1, CommandFacts DEF Commands, CommandShape, CommandTruncates
  <1> HIDE DEF c
  <1>3. /\ CommandShape(c) /\ ~CommandTruncates'
        /\ \A k \in Keepers : Truncates(k)' <=> Truncates(k)
    BY <1>1, <1>2 DEF CommandShape, Truncates, CommandTruncates
  <1>4. /\ pkRegistry' \in Registries
        /\ \A id \in SkillIds : \A a : Honours(pkCommand.seen, id, a) => Honours(pkRegistry', id, a)
    <2>1. pkCommand.seen \in Registries
      BY CommandFacts DEF Commands
    <2> QED BY <1>1, <2>1, SyncedIs
  <1>5. RegistryHonours'
    <2>1. CASE pkMixed = SkillIds
      BY <1>1, <2>1 DEF RegistryHonours
    <2>2. CASE pkMixed # SkillIds
      <3>1. \A k \in Keepers : ~Truncates(k)'
        BY <1>1, <1>3, <2>2, PkFacts DEF RegistryHonours
      <3>2. \A id \in SkillIds \ pkMixed : Honours(pkRegistry', id, pkAsked[id])
        BY <1>1, <1>4, PkFacts DEF RegistryHonours
      <3> QED BY <1>1, <1>3, <3>1, <3>2 DEF RegistryHonours
    <2> QED BY <2>1, <2>2
  <1> QED BY <1>1, <1>2, <1>3, <1>4, <1>5, CommandFacts, CommandMoves

LEMMA CommandLooksKeeps ==
    ASSUME PkInv, CommandLooks
    PROVE  PkInv'
  <1> DEFINE left == Unblocked(pkRegistry)
             c == [pkCommand EXCEPT !.step = "packages", !.seen = EmptyRegistry, !.left = left]
  <1>1. /\ pkCommand.step = "look" /\ pkCommand' = c
        /\ pkMixed' = IF Truncating THEN SkillIds ELSE pkMixed
        /\ UNCHANGED <<pkRegistry, pkFiles, pkHost, pkDesk, pkAsked, pkCalls, pkStarts>>
    BY DEF CommandLooks
  <1>2. left \subseteq Pieces /\ \A id, f : <<id, f>> \in left => id \in BuiltinIds \ pkRegistry.blocked
    BY DEF Unblocked, Pieces
  <1> HIDE DEF left
  <1>3. /\ c \in Commands /\ c.by = pkCommand.by /\ c.step = "packages" /\ ~c.open
        /\ c.left = left /\ pkCommand.by # "none"
    BY <1>1, <1>2, IdleKeeperIs, CommandFacts DEF Commands, CommandShape
  <1> HIDE DEF c
  <1>4. CommandShape(c) /\ ~CommandTruncates /\ ~CommandTruncates'
    BY <1>1, <1>3, CommandFacts DEF CommandShape, CommandTruncates
  <1>5. pkMixed \subseteq pkMixed' /\ pkMixed' \subseteq SkillIds
    BY <1>1, CommandFacts
  <1>6. RegistryHonours'
    BY <1>1, <1>4, <1>5, RegistryStays
  <1>7. ASSUME NEW id \in SkillIds \ pkMixed', NEW f, <<id, f>> \in c.left
        PROVE  Unbound(pkAsked[id])
    <2>1. id \in SkillIds \ pkMixed /\ ~Truncating /\ id \in BuiltinIds \ pkRegistry.blocked
      BY <1>1, <1>2, <1>3, <1>7
    <2>2. Honours(pkRegistry, id, pkAsked[id])
      BY <2>1, PkFacts DEF RegistryHonours
    <2> QED BY <2>1, <2>2 DEF Honours, Unbound
  <1> QED BY <1>1, <1>3, <1>4, <1>5, <1>6, <1>7, CommandFacts, CommandMoves

(* A step of the command on the files of one package it may write. *)
LEMMA CommandWorks ==
    ASSUME PkInv, NEW i \in BuiltinIds, NEW g, <<i, g>> \in pkCommand.left,
           NEW c \in Commands, pkCommand' = c, c.by = pkCommand.by, c.step = pkCommand.step,
           c.left \subseteq pkCommand.left,
           pkFiles' \in [SkillIds -> Packages],
           \A id \in SkillIds : id # i => pkFiles'[id] = pkFiles[id],
           UNCHANGED <<pkRegistry, pkHost, pkDesk, pkAsked, pkMixed, pkCalls, pkStarts>>
    PROVE  PkInv'
  <1>1. pkCommand.step = "packages" /\ pkCommand.by # "none" /\ i \in SkillIds
    BY CommandFacts, PkFacts DEF CommandShape
  <1>2. CommandShape(c) /\ ~CommandTruncates /\ ~CommandTruncates'
    BY <1>1 DEF CommandShape, CommandTruncates
  <1>3. RegistryHonours'
    BY <1>2, CommandFacts, RegistryStays
  <1>4. \A id \in SkillIds \ pkMixed :
           /\ pkFiles'[id] = pkFiles[id] \/ Unbound(pkAsked[id])
           /\ \A f : <<id, f>> \in c.left => Unbound(pkAsked[id])
    BY CommandFacts
  <1> QED BY <1>1, <1>2, <1>3, <1>4, CommandFacts, CommandMoves

LEMMA CommandRemovesKeeps ==
    ASSUME PkInv, NEW i \in BuiltinIds, CommandRemoves(i)
    PROVE  PkInv'
  <1> DEFINE left == pkCommand.left \ {<<i, "package">>}
             c == [pkCommand EXCEPT !.left = left]
  <1>1. /\ <<i, "package">> \in pkCommand.left /\ pkFiles' = [pkFiles EXCEPT ![i] = NoPackage]
        /\ pkCommand' = c
        /\ UNCHANGED <<pkRegistry, pkHost, pkDesk, pkAsked, pkMixed, pkCalls, pkStarts>>
    BY DEF CommandRemoves
  <1>2. left \subseteq pkCommand.left
    OBVIOUS
  <1> HIDE DEF left
  <1>3. /\ c \in Commands /\ c.by = pkCommand.by /\ c.step = pkCommand.step /\ c.left = left
    BY <1>2, CommandFacts DEF Commands
  <1> HIDE DEF c
  <1>4. /\ pkFiles' \in [SkillIds -> Packages]
        /\ \A id \in SkillIds : id # i => pkFiles'[id] = pkFiles[id]
    BY <1>1, CommandFacts, IdleKeeperIs
  <1> QED BY <1>1, <1>2, <1>3, <1>4, CommandWorks

LEMMA CommandOpensFileKeeps ==
    ASSUME PkInv, NEW i \in BuiltinIds, NEW f \in PackageFiles, CommandOpensFile(i, f)
    PROVE  PkInv'
  <1> DEFINE c == [pkCommand EXCEPT !.open = TRUE, !.at = i]
  <1>1. /\ <<i, f>> \in pkCommand.left /\ pkFiles' = [pkFiles EXCEPT ![i][f] = "torn"]
        /\ pkCommand' = c
        /\ UNCHANGED <<pkRegistry, pkHost, pkDesk, pkAsked, pkMixed, pkCalls, pkStarts>>
    BY DEF CommandOpensFile, NextToWrite
  <1>2. i \in SkillIds /\ "torn" \in FileStates
    BY PkFacts DEF FileStates
  <1>3. /\ c \in Commands /\ c.by = pkCommand.by /\ c.step = pkCommand.step /\ c.left = pkCommand.left
    BY <1>2, CommandFacts DEF Commands
  <1> HIDE DEF c
  <1>4. /\ pkFiles' \in [SkillIds -> Packages]
        /\ \A id \in SkillIds : id # i => pkFiles'[id] = pkFiles[id]
    BY <1>1, <1>2, FileChanges
  <1> QED BY <1>1, <1>3, <1>4, CommandWorks

LEMMA CommandWritesFileKeeps ==
    ASSUME PkInv, NEW i \in BuiltinIds, NEW f \in PackageFiles, CommandWritesFile(i, f)
    PROVE  PkInv'
  <1> DEFINE left == pkCommand.left \ {<<i, f>>}
             c == [pkCommand EXCEPT !.open = FALSE, !.left = left]
             new == IF pkFiles[i][f] = "none" THEN "none" ELSE "builtin"
  <1>1. /\ <<i, f>> \in pkCommand.left /\ pkFiles' = [pkFiles EXCEPT ![i][f] = new]
        /\ pkCommand' = c
        /\ UNCHANGED <<pkRegistry, pkHost, pkDesk, pkAsked, pkMixed, pkCalls, pkStarts>>
    BY DEF CommandWritesFile, NextToWrite
  <1>2. i \in SkillIds /\ new \in FileStates /\ left \subseteq pkCommand.left
    BY PkFacts DEF FileStates
  <1> HIDE DEF left, new
  <1>3. /\ c \in Commands /\ c.by = pkCommand.by /\ c.step = pkCommand.step /\ c.left = left
    BY <1>2, CommandFacts DEF Commands
  <1> HIDE DEF c
  <1>4. /\ pkFiles' \in [SkillIds -> Packages]
        /\ \A id \in SkillIds : id # i => pkFiles'[id] = pkFiles[id]
    BY <1>1, <1>2, FileChanges
  <1> QED BY <1>1, <1>2, <1>3, <1>4, CommandWorks

LEMMA CommandIsDoneKeeps ==
    ASSUME PkInv, CommandIsDone
    PROVE  PkInv'
  <1>1. /\ pkCommand.step = "packages" /\ pkCommand.left = {} /\ pkCommand' = NoCommand
        /\ pkHost' = IF pkCommand.by = "start" THEN "written" ELSE pkHost
        /\ UNCHANGED <<pkRegistry, pkFiles, pkDesk, pkAsked, pkMixed, pkCalls, pkStarts>>
    BY DEF CommandIsDone
  <1>2. ~CommandTruncates /\ ~CommandTruncates'
    BY <1>1, NoCommandIs DEF CommandTruncates
  <1>3. RegistryHonours'
    BY <1>1, <1>2, CommandFacts, RegistryStays
  <1> QED BY <1>1, <1>3, NoCommandIs, CommandFacts, CommandMoves

LEMMA CommandIsCutKeeps ==
    ASSUME PkInv, CommandIsCut
    PROVE  PkInv'
  <1>1. /\ pkCommand.by # "none" /\ pkCommand' = NoCommand
        /\ pkMixed' = IF CommandTruncates THEN SkillIds ELSE pkMixed
        /\ UNCHANGED <<pkRegistry, pkFiles, pkHost, pkDesk, pkAsked, pkCalls, pkStarts>>
    BY DEF CommandIsCut
  <1>2. pkMixed \subseteq pkMixed' /\ pkMixed' \subseteq SkillIds /\ ~CommandTruncates'
    BY <1>1, NoCommandIs, CommandFacts DEF CommandTruncates
  <1>3. RegistryHonours'
    <2>1. CASE CommandTruncates
      BY <1>1, <2>1 DEF RegistryHonours
    <2>2. CASE ~CommandTruncates
      BY <1>1, <1>2, <2>2, RegistryStays
    <2> QED BY <2>1, <2>2
  <1> QED BY <1>1, <1>2, <1>3, NoCommandIs, CommandFacts, CommandMoves

LEMMA PkBegins == PkInit => PkInv
  <1> SUFFICES ASSUME PkInit PROVE PkInv
    OBVIOUS
  <1>1. /\ pkRegistry = EmptyRegistry /\ pkFiles = [id \in SkillIds |-> NoPackage] /\ pkHost = "down"
        /\ pkDesk = [k \in Keepers |-> IdleKeeper] /\ pkAsked = [id \in SkillIds |-> Unasked]
        /\ pkMixed = {} /\ pkCalls = 0 /\ pkStarts = 0 /\ pkCommand = NoCommand
    BY DEF PkInit
  <1>2. 0 \in 0..MaxPkCalls /\ 0 \in 0..MaxStarts
    BY PackagesAssumption
  <1>3. PkTypes
    BY <1>1, <1>2, IdleKeeperIs, NoCommandIs DEF PkTypes
  <1>4. PkDesksAreSound
    BY <1>1, IdleKeeperIs DEF PkDesksAreSound
  <1>5. RegistryHonours
    <2>1. (\A k \in Keepers : ~Truncates(k)) /\ ~CommandTruncates
      BY <1>1, IdleKeeperIs, NoCommandIs DEF Truncates, CommandTruncates
    <2>2. \A r, id : Honours(r, id, Unasked)
      BY IdleKeeperIs DEF Honours
    <2> QED BY <1>1, <2>1, <2>2 DEF RegistryHonours
  <1>6. PackagesHonour
    <2>1. \A p : Keeps(p, Unasked)
      BY IdleKeeperIs DEF Keeps
    <2> QED BY <1>1, <2>1, IdleKeeperIs DEF PackagesHonour
  <1>7. CommandIsSound
    BY <1>1, NoCommandIs DEF CommandIsSound
  <1> QED BY <1>3, <1>4, <1>5, <1>6, <1>7 DEF PkInv

LEMMA PkStep == PkInv /\ [PkNext]_pkVars => PkInv'
  <1> SUFFICES ASSUME PkInv, [PkNext]_pkVars PROVE PkInv'
    OBVIOUS
  <1>1. CASE UNCHANGED pkVars
    BY <1>1 DEF pkVars, PkInv, PkTypes, PkDesksAreSound, RegistryHonours, PackagesHonour, Truncates, CommandTruncates,
       Truncating, CommandIsSound, CommandShape
  <1>2. ASSUME NEW k \in Keepers,
               \/ \E id \in SkillIds :
                     \/ \E flag \in {"on", "off"}, block \in BOOLEAN : StartSaving(k, id, flag, block)
                     \/ StartDeleting(k, id)
               \/ RemovePackage(k) \/ OpenFile(k) \/ WriteFile(k)
               \/ ReadRegistry(k) \/ OpenRegistry(k) \/ WriteRegistry(k)
        PROVE  PkInv'
    BY <1>2, StartSavingKeeps, StartDeletingKeeps, RemovePackageKeeps, OpenFileKeeps, PkWriteFileKeeps,
       ReadRegistryKeeps, OpenRegistryKeeps, WriteRegistryKeeps
  <1>3. ASSUME NEW id \in BuiltinIds,
               \/ CommandRemoves(id)
               \/ \E f \in PackageFiles : CommandOpensFile(id, f) \/ CommandWritesFile(id, f)
        PROVE  PkInv'
    BY <1>3, CommandRemovesKeeps, CommandOpensFileKeeps, CommandWritesFileKeeps
  <1>4. CASE BeginCommand \/ CommandReads \/ CommandOpens \/ CommandWrites \/ CommandLooks
             \/ CommandIsDone \/ CommandIsCut
    BY <1>4, BeginCommandKeeps, CommandReadsKeeps, CommandOpensKeeps, CommandWritesKeeps,
       CommandLooksKeeps, CommandIsDoneKeeps, CommandIsCutKeeps
  <1>5. CASE BootHost \/ BootFails \/ HostStops
    BY <1>5, BootHostKeeps, HostStopsKeeps
  <1> QED BY <1>1, <1>2, <1>3, <1>4, <1>5 DEF PkNext

LEMMA PkInvTells ==
    PkInv => PackagesTypeOK /\ DeletedSkillsStayAway /\ SavedFlagsAreKept /\ BlockedEditsAreKept
  <1> SUFFICES ASSUME PkInv
               PROVE  PackagesTypeOK /\ DeletedSkillsStayAway /\ SavedFlagsAreKept /\ BlockedEditsAreKept
    OBVIOUS
  <1>1. PackagesTypeOK
    BY PkFacts DEF PackagesTypeOK, PkTypes, Commands, CommandIsSound, CommandShape, Registries, Packages, FileStates, Askings, PkDesksAreSound,
       PkDeskIsSound, PkDesks
  <1>2. \A id \in SkillIds : Settled(id) => Keeps(pkFiles[id], pkAsked[id])
    BY PkFacts DEF Settled, PackagesHonour
  <1>3. \A id \in SkillIds : Settled(id) /\ ~Truncating =>
           Honours(pkRegistry, id, pkAsked[id])
    BY PkFacts DEF Settled, RegistryHonours
  <1>4. DeletedSkillsStayAway /\ BlockedEditsAreKept
    BY <1>2 DEF DeletedSkillsStayAway, BlockedEditsAreKept, Keeps
  <1>5. SavedFlagsAreKept
    BY <1>3 DEF SavedFlagsAreKept, Honours
  <1> QED BY <1>1, <1>4, <1>5

-----------------------------------------------------------------------------
(* A skill at work. *)

SkValues   == [SettingNames -> 0..MaxAssists]
Forms      == [check : BOOLEAN, required : SUBSET SettingNames]
SkVerdicts == [status : Verdicts \cup {"none"},
               from : {"none", "settings", "check", "prepare", "prepared"}, with : SkValues,
               package : Forms]
SkWorks    == [op : {"none", "save", "check", "prepare", "action"},
               step : {"none", "open", "write", "running"}, package : Forms,
               with : SkValues, put : SUBSET SettingNames, verdict : SkVerdicts]

(* A verdict that says ready was made with every setting its package         *)
(* requires, and by a command of the skill if that package has a check.      *)
Earned(verdict) ==
    verdict.status = "ready" =>
        /\ Missing(verdict.package, verdict.with) = {}
        /\ verdict.package.check => verdict.from \in {"check", "prepare"}

(* What the step of a request says of what it carries. *)
WorkIsSound(w) ==
    /\ w.op = "none" => w = Unmanned
    /\ w.op = "save" => w.step \in {"open", "write"}
    /\ w.step = "running" => Missing(w.package, w.with) = {}
    /\ w.op \in {"check", "prepare"} /\ w.step \in {"open", "write"} =>
          Earned(w.verdict) /\ w.verdict.status # "none"

SkTypes ==
    /\ skSettings \in SkValues /\ skSaved \in SkValues
    /\ skVerdict \in SkVerdicts /\ (skVerdict.status = "none" => skVerdict = NoVerdict)
    /\ skWork \in [Assistants -> SkWorks]
    /\ skPackage \in PackageForms /\ skLost \in BOOLEAN /\ skCalls \in 0..MaxAssists

VerdictsAreEarned ==
    /\ Earned(skVerdict)
    /\ \A a \in Assistants : WorkIsSound(skWork[a])

(* A save that is alone has read what was saved last. *)
SavesReadTheSaved ==
    ~skLost =>
       /\ \A a, b \in Assistants : skWork[a].op = "save" /\ skWork[b].op = "save" => a = b
       /\ \A a \in Assistants : skWork[a].op = "save" => skWork[a].with = skSaved
       /\ (\A a \in Assistants : skWork[a].op # "save") => skSettings = skSaved

SkInv == SkTypes /\ VerdictsAreEarned /\ SavesReadTheSaved

LEMMA UnsetIs ==
    /\ Unset \in SkValues /\ NoVerdict \in SkVerdicts /\ NoVerdict.status = "none"
    /\ Unmanned \in SkWorks /\ Unmanned.op = "none" /\ Unmanned.step = "none"
    /\ WorkIsSound(Unmanned) /\ Unmanned.verdict = NoVerdict
  <1>1. Unset \in SkValues
    BY SkillRunsAssumption DEF Unset, SkValues
  <1>2. NoVerdict \in SkVerdicts /\ NoVerdict.status = "none"
    BY <1>1 DEF NoVerdict, SkVerdicts, Verdicts, Bare, Forms
  <1>3. Unmanned \in SkWorks /\ Unmanned.op = "none" /\ Unmanned.step = "none"
        /\ Unmanned.verdict = NoVerdict
    BY <1>1, <1>2 DEF Unmanned, SkWorks, Bare, Forms
  <1> QED BY <1>1, <1>2, <1>3 DEF WorkIsSound

LEMMA ConcludesIs ==
    ASSUME NEW w \in SkWorks, NEW status \in Verdicts, w.op \in {"check", "prepare"},
           NEW from \in {"settings", "check", "prepare", "prepared"},
           status = "ready" =>
              Missing(w.package, w.with) = {} /\ (w.package.check => from \in {"check", "prepare"})
    PROVE  /\ Concludes(w, status, from) \in SkWorks /\ WorkIsSound(Concludes(w, status, from))
           /\ Concludes(w, status, from).op = w.op
           /\ Concludes(w, status, from).package = w.package
  <1> DEFINE v == [status |-> status, from |-> from, with |-> w.with,
                   package |-> w.package]
             c == Concludes(w, status, from)
  <1>1. v \in SkVerdicts /\ v.status = status /\ v.from = from /\ v.with = w.with
        /\ v.package = w.package
    BY DEF SkVerdicts, SkWorks
  <1>2. c = [w EXCEPT !.step = "open", !.verdict = v]
    BY DEF Concludes
  <1> HIDE DEF v, c
  <1>3. /\ c \in SkWorks /\ c.op = w.op /\ c.package = w.package /\ c.with = w.with
        /\ c.step = "open" /\ c.verdict = v
    BY <1>1, <1>2 DEF SkWorks
  <1>4. status # "none"
    BY DEF Verdicts
  <1>5. WorkIsSound(c)
    BY <1>1, <1>3, <1>4 DEF WorkIsSound, Earned
  <1> QED BY <1>3, <1>5 DEF c

LEMMA CheckedIs ==
    ASSUME NEW w \in SkWorks, skSettings \in SkValues
    PROVE  /\ Checked(w) \in SkWorks /\ WorkIsSound(Checked(w))
           /\ Checked(w).op = "check" /\ Checked(w).package = w.package
  <1> DEFINE u == [w EXCEPT !.op = "check", !.with = skSettings]
             r == [u EXCEPT !.step = "running"]
  <1>1. /\ u \in SkWorks /\ u.op = "check" /\ u.package = w.package /\ u.with = skSettings
    BY DEF SkWorks
  <1>2. /\ r \in SkWorks /\ r.op = "check" /\ r.package = w.package /\ r.with = skSettings
        /\ r.step = "running"
    BY DEF SkWorks
  <1>3. Checked(w) = IF Missing(u.package, skSettings) # {}
                     THEN Concludes(u, "missing_config", "settings")
                     ELSE IF ~u.package.check THEN Concludes(u, "ready", "settings") ELSE r
    BY DEF Checked
  <1> HIDE DEF u, r
  <1>4. {"missing_config", "ready"} \subseteq Verdicts
    BY DEF Verdicts
  <1>5. CASE Missing(u.package, skSettings) # {}
    BY <1>1, <1>3, <1>4, <1>5, ConcludesIs
  <1>6. CASE Missing(u.package, skSettings) = {} /\ ~u.package.check
    BY <1>1, <1>3, <1>4, <1>6, ConcludesIs
  <1>7. CASE Missing(u.package, skSettings) = {} /\ u.package.check
    BY <1>1, <1>2, <1>3, <1>7 DEF WorkIsSound
  <1> QED BY <1>5, <1>6, <1>7

(* A request that is not a save goes on. *)
LEMMA WorkGoesOn ==
    ASSUME SkInv, NEW a \in Assistants, NEW w \in SkWorks, WorkIsSound(w),
           skWork' = [skWork EXCEPT ![a] = w], w.op # "save", skWork[a].op # "save",
           UNCHANGED <<skSettings, skPackage, skSaved, skLost>>,
           skVerdict' \in SkVerdicts, skVerdict'.status = "none" => skVerdict' = NoVerdict,
           Earned(skVerdict'), skCalls' \in 0..MaxAssists
    PROVE  SkInv'
  <1>1. /\ skWork' \in [Assistants -> SkWorks] /\ skWork'[a] = w
        /\ \A b \in Assistants : b # a => skWork'[b] = skWork[b]
    BY DEF SkInv, SkTypes
  <1>2. SkTypes'
    BY <1>1 DEF SkInv, SkTypes, SkValues, SkVerdicts, NoVerdict, Unset
  <1>3. \A b \in Assistants : WorkIsSound(skWork'[b])
    BY <1>1 DEF SkInv, VerdictsAreEarned
  <1>4. VerdictsAreEarned'
    BY <1>3 DEF VerdictsAreEarned
  <1>5. SavesReadTheSaved'
    BY <1>1 DEF SkInv, SavesReadTheSaved
  <1> QED BY <1>2, <1>4, <1>5 DEF SkInv

LEMMA SettingsPutKeeps ==
    ASSUME SkInv, NEW a \in Assistants, NEW put \in SUBSET SettingNames, StartSettingsPut(a, put)
    PROVE  SkInv'
  <1> DEFINE sent == [s \in SettingNames |-> IF s \in put THEN skCalls + 1 ELSE 0]
             v == [NoVerdict EXCEPT !.with = sent]
             w == [Unmanned EXCEPT !.op = "save", !.step = "open", !.with = skSettings,
                                   !.put = put, !.verdict.with = sent]
  <1>1. /\ skWork[a].op = "none" /\ skCalls' = skCalls + 1 /\ skCalls < MaxAssists
        /\ skWork' = [skWork EXCEPT ![a] = w]
        /\ UNCHANGED <<skSettings, skVerdict, skPackage, skSaved>>
        /\ skLost' = (skLost \/ \E b \in Assistants : skWork[b].op = "save")
    BY DEF StartSettingsPut, Assist
  <1>2. sent \in SkValues /\ skCalls' \in 0..MaxAssists
    BY <1>1, SkillRunsAssumption DEF SkInv, SkTypes, SkValues
  <1>3. v \in SkVerdicts
    BY <1>2, UnsetIs DEF SkVerdicts
  <1>4. w = [Unmanned EXCEPT !.op = "save", !.step = "open", !.with = skSettings,
                             !.put = put, !.verdict = v]
    BY UnsetIs DEF SkWorks, SkVerdicts
  <1> HIDE DEF v, w
  <1>5. w \in SkWorks /\ w.op = "save" /\ w.step = "open" /\ w.with = skSettings
    BY <1>3, <1>4, UnsetIs DEF SkInv, SkTypes, SkWorks
  <1>6. WorkIsSound(w)
    BY <1>5 DEF WorkIsSound
  <1>7. /\ skWork' \in [Assistants -> SkWorks] /\ skWork'[a] = w
        /\ \A b \in Assistants : b # a => skWork'[b] = skWork[b]
    BY <1>1, <1>5 DEF SkInv, SkTypes
  <1>8. SkTypes'
    BY <1>1, <1>2, <1>7 DEF SkInv, SkTypes
  <1>9. VerdictsAreEarned'
    BY <1>1, <1>5, <1>6, <1>7 DEF SkInv, VerdictsAreEarned
  <1>10. SavesReadTheSaved'
    BY <1>1, <1>5, <1>7 DEF SkInv, SavesReadTheSaved
  <1> QED BY <1>8, <1>9, <1>10 DEF SkInv

LEMMA OpenSettingsKeeps ==
    ASSUME SkInv, NEW a \in Assistants, OpenSettings(a)
    PROVE  SkInv'
  <1> DEFINE w == [skWork[a] EXCEPT !.step = "write"]
  <1>1. /\ skWork[a] \in SkWorks /\ skWork[a].op = "save"
        /\ skWork' = [skWork EXCEPT ![a] = w] /\ skSettings' \in SkValues
        /\ UNCHANGED <<skVerdict, skPackage, skSaved, skLost, skCalls>>
    BY UnsetIs DEF OpenSettings, SkInv, SkTypes
  <1>2. w \in SkWorks /\ w.op = "save" /\ w.step = "write" /\ w.with = skWork[a].with
    BY <1>1 DEF SkWorks
  <1> HIDE DEF w
  <1>3. WorkIsSound(w)
    BY <1>2 DEF WorkIsSound
  <1>4. /\ skWork' \in [Assistants -> SkWorks] /\ skWork'[a] = w
        /\ \A b \in Assistants : b # a => skWork'[b] = skWork[b]
    BY <1>1, <1>2 DEF SkInv, SkTypes
  <1>5. SkTypes'
    BY <1>1, <1>4 DEF SkInv, SkTypes
  <1>6. VerdictsAreEarned'
    BY <1>1, <1>2, <1>3, <1>4 DEF SkInv, VerdictsAreEarned
  <1>7. SavesReadTheSaved'
    BY <1>1, <1>2, <1>4 DEF SkInv, SavesReadTheSaved
  <1> QED BY <1>5, <1>6, <1>7 DEF SkInv

LEMMA WriteSettingsKeeps ==
    ASSUME SkInv, NEW a \in Assistants, WriteSettings(a)
    PROVE  SkInv'
  <1>1. /\ skWork[a] \in SkWorks /\ skWork[a].op = "save"
        /\ skWork' = [skWork EXCEPT ![a] = Unmanned]
        /\ skSettings' = MergedSettings(skWork[a])
        /\ skSaved' = [s \in SettingNames |->
                          IF s \in skWork[a].put THEN skWork[a].verdict.with[s] ELSE skSaved[s]]
        /\ UNCHANGED <<skVerdict, skPackage, skLost, skCalls>>
    BY DEF WriteSettings, SkInv, SkTypes
  <1>2. skWork[a].verdict.with \in SkValues /\ skWork[a].with \in SkValues
    BY <1>1 DEF SkWorks, SkVerdicts
  <1>3. skSettings' \in SkValues /\ skSaved' \in SkValues
    BY <1>1, <1>2 DEF SkInv, SkTypes, SkValues, MergedSettings
  <1>4. /\ skWork' \in [Assistants -> SkWorks] /\ skWork'[a] = Unmanned
        /\ \A b \in Assistants : b # a => skWork'[b] = skWork[b]
    BY <1>1, UnsetIs DEF SkInv, SkTypes
  <1>5. SkTypes'
    BY <1>1, <1>3, <1>4 DEF SkInv, SkTypes
  <1>6. VerdictsAreEarned'
    BY <1>1, <1>4, UnsetIs DEF SkInv, VerdictsAreEarned
  <1>7. skWork[a].with = skSaved => skSettings' = skSaved'
    BY <1>1 DEF MergedSettings
  <1>8. SavesReadTheSaved'
    BY <1>1, <1>4, <1>7, UnsetIs DEF SkInv, SavesReadTheSaved
  <1> QED BY <1>5, <1>6, <1>8 DEF SkInv

LEMMA AssistKeeps ==
    ASSUME SkInv, NEW a \in Assistants, StartCheck(a) \/ StartPrepare(a) \/ StartAction(a)
    PROVE  SkInv'
  <1> DEFINE fresh == [Unmanned EXCEPT !.package = skPackage]
             p == [Unmanned EXCEPT !.op = "prepare", !.package = skPackage, !.with = skSettings]
             r == [p EXCEPT !.step = "running"]
             act == [Unmanned EXCEPT !.op = "action", !.step = "running",
                                       !.package = skPackage, !.with = skSettings]
  <1>1. /\ skWork[a].op = "none" /\ UNCHANGED <<skSettings, skVerdict, skPackage, skSaved, skLost>>
        /\ skCalls < MaxAssists /\ skCalls' = skCalls + 1
    BY DEF StartCheck, StartPrepare, StartAction, Assist
  <1>2. /\ skCalls' \in 0..MaxAssists /\ skSettings \in SkValues /\ skPackage \in Forms
        /\ skVerdict' \in SkVerdicts /\ (skVerdict'.status = "none" => skVerdict' = NoVerdict)
        /\ Earned(skVerdict')
    BY <1>1, SkillRunsAssumption DEF SkInv, SkTypes, VerdictsAreEarned, Forms
  <1>3. fresh \in SkWorks /\ fresh.package = skPackage
    BY <1>2, UnsetIs DEF SkWorks
  <1>4. p \in SkWorks /\ p.op = "prepare" /\ p.package = skPackage /\ p.with = skSettings
    BY <1>2, UnsetIs DEF SkWorks
  <1>5. /\ r \in SkWorks /\ r.op = "prepare" /\ r.package = skPackage /\ r.with = skSettings
        /\ r.step = "running"
    BY <1>4 DEF SkWorks
  <1>6. /\ act \in SkWorks /\ act.op = "action" /\ act.with = skSettings /\ act.step = "running"
        /\ act.package = skPackage
    BY <1>2, UnsetIs DEF SkWorks
  <1>7. \/ skWork' = [skWork EXCEPT ![a] = Checked(fresh)]
        \/ Missing(skPackage, skSettings) # {}
           /\ skWork' = [skWork EXCEPT ![a] = Concludes(p, "missing_config", "settings")]
        \/ Missing(skPackage, skSettings) = {} /\ skWork' = [skWork EXCEPT ![a] = r]
        \/ Missing(skPackage, skSettings) = {} /\ skWork' = [skWork EXCEPT ![a] = act]
    BY DEF StartCheck, StartPrepare, StartAction, Assist
  <1> HIDE DEF fresh, p, r, act
  <1>8. CASE skWork' = [skWork EXCEPT ![a] = Checked(fresh)]
    BY <1>1, <1>2, <1>3, <1>8, CheckedIs, WorkGoesOn
  <1>9. CASE skWork' = [skWork EXCEPT ![a] = Concludes(p, "missing_config", "settings")]
    <2>1. "missing_config" \in Verdicts /\ "missing_config" # "ready"
      BY DEF Verdicts
    <2> QED BY <1>1, <1>2, <1>4, <1>9, <2>1, ConcludesIs, WorkGoesOn
  <1>10. CASE Missing(skPackage, skSettings) = {} /\ skWork' = [skWork EXCEPT ![a] = r]
    <2>1. WorkIsSound(r)
      BY <1>5, <1>10 DEF WorkIsSound
    <2> QED BY <1>1, <1>2, <1>5, <1>10, <2>1, WorkGoesOn
  <1>11. CASE Missing(skPackage, skSettings) = {} /\ skWork' = [skWork EXCEPT ![a] = act]
    <2>1. WorkIsSound(act)
      BY <1>6, <1>11 DEF WorkIsSound
    <2> QED BY <1>1, <1>2, <1>6, <1>11, <2>1, WorkGoesOn
  <1> QED BY <1>7, <1>8, <1>9, <1>10, <1>11

LEMMA CommandEndsKeeps ==
    ASSUME SkInv, NEW a \in Assistants, CommandEnds(a) \/ CommandFails(a)
    PROVE  SkInv'
  <1> DEFINE w == skWork[a]
  <1>1. /\ w \in SkWorks /\ w.step = "running" /\ Missing(w.package, w.with) = {} /\ w.op # "save"
        /\ UNCHANGED <<skSettings, skVerdict, skPackage, skSaved, skLost, skCalls>>
    BY DEF CommandEnds, CommandFails, SkInv, SkTypes, VerdictsAreEarned, WorkIsSound
  <1>2. /\ skSettings \in SkValues /\ skCalls' \in 0..MaxAssists
        /\ skVerdict' \in SkVerdicts /\ (skVerdict'.status = "none" => skVerdict' = NoVerdict)
        /\ Earned(skVerdict')
    BY <1>1 DEF SkInv, SkTypes, VerdictsAreEarned
  <1>3. CASE skWork' = [skWork EXCEPT ![a] = Unmanned]
    BY <1>1, <1>2, <1>3, UnsetIs, WorkGoesOn
  <1>4. ASSUME NEW said \in Verdicts \cup {"none"}, NEW success \in BOOLEAN, w.op = "check",
               skWork' = [skWork EXCEPT ![a] = Concludes(w, Parsed(said, success), "check")]
        PROVE  SkInv'
    <2>1. Parsed(said, success) \in Verdicts
      BY DEF Parsed, Verdicts
    <2> HIDE DEF w
    <2> QED BY <1>1, <1>2, <1>4, <2>1, ConcludesIs, WorkGoesOn DEF w
  <1>5. ASSUME NEW said \in Verdicts \cup {"none"}, NEW success \in BOOLEAN, w.op = "prepare",
               skWork' = [skWork EXCEPT ![a] = AfterPreparing(w, said, success)]
        PROVE  SkInv'
    <2>1. Parsed(said, FALSE) \in Verdicts /\ "ready" \in Verdicts
      BY DEF Parsed, Verdicts
    <2>2. /\ AfterPreparing(w, said, success) \in SkWorks
          /\ WorkIsSound(AfterPreparing(w, said, success))
          /\ AfterPreparing(w, said, success).op \in {"check", "prepare"}
      <3> HIDE DEF w
      <3>1. CASE ~success
        BY <1>1, <1>5, <2>1, <3>1, ConcludesIs DEF AfterPreparing
      <3>2. CASE success /\ w.package.check
        BY <1>1, <1>2, <3>2, CheckedIs DEF AfterPreparing
      <3>3. CASE success /\ ~w.package.check
        BY <1>1, <1>5, <2>1, <3>3, ConcludesIs DEF AfterPreparing
      <3> QED BY <3>1, <3>2, <3>3
    <2> QED BY <1>1, <1>2, <1>5, <2>2, WorkGoesOn
  <1>6. \/ skWork' = [skWork EXCEPT ![a] = Unmanned]
        \/ \E said \in Verdicts \cup {"none"}, success \in BOOLEAN :
              \/ w.op = "check"
                 /\ skWork' = [skWork EXCEPT ![a] = Concludes(w, Parsed(said, success), "check")]
              \/ w.op = "prepare"
                 /\ skWork' = [skWork EXCEPT ![a] = AfterPreparing(w, said, success)]
    BY DEF CommandEnds, CommandFails
  <1> QED BY <1>3, <1>4, <1>5, <1>6

LEMMA StatusKeeps ==
    ASSUME SkInv, NEW a \in Assistants, OpenStatus(a) \/ WriteStatus(a)
    PROVE  SkInv'
  <1> DEFINE w == skWork[a]
             next == [w EXCEPT !.step = "write"]
  <1>1. /\ w \in SkWorks /\ WorkIsSound(w) /\ w.op \in {"check", "prepare"}
        /\ w.step \in {"open", "write"}
        /\ UNCHANGED <<skSettings, skPackage, skSaved, skLost, skCalls>>
        /\ skCalls' \in 0..MaxAssists
    BY DEF OpenStatus, WriteStatus, SkInv, SkTypes, VerdictsAreEarned
  <1>2. w.verdict \in SkVerdicts /\ w.verdict.status # "none" /\ Earned(w.verdict)
    BY <1>1 DEF SkWorks, WorkIsSound
  <1>3. CASE OpenStatus(a)
    <2>1. skVerdict' = NoVerdict /\ skWork' = [skWork EXCEPT ![a] = next]
      BY <1>3 DEF OpenStatus
    <2>2. /\ next \in SkWorks /\ next.op = w.op /\ next.step = "write" /\ next.package = w.package
          /\ next.verdict = w.verdict /\ next.with = w.with
      BY <1>1 DEF SkWorks
    <2>3. Earned(NoVerdict)
      BY UnsetIs DEF Earned
    <2> HIDE DEF next, w
    <2>4. WorkIsSound(next)
      BY <1>1, <1>2, <2>2 DEF WorkIsSound
    <2> QED BY <1>1, <2>1, <2>2, <2>3, <2>4, UnsetIs, WorkGoesOn DEF w
  <1>4. CASE WriteStatus(a)
    <2>1. skVerdict' = w.verdict /\ skWork' = [skWork EXCEPT ![a] = Unmanned]
      BY <1>4 DEF WriteStatus
    <2> HIDE DEF w
    <2> QED BY <1>1, <1>2, <2>1, UnsetIs, WorkGoesOn DEF w
  <1> QED BY <1>3, <1>4

LEMMA SkillChangesKeep ==
    ASSUME SkInv, (\E package \in PackageForms : ChangePackage(package)) \/ SkillServerRestarts
    PROVE  SkInv'
  <1>1. CASE \E package \in PackageForms : ChangePackage(package)
    <2>1. /\ skPackage' \in PackageForms
          /\ UNCHANGED <<skSettings, skVerdict, skWork, skSaved, skLost, skCalls>>
      BY <1>1 DEF ChangePackage
    <2>2. SkTypes'
      BY <2>1 DEF SkInv, SkTypes
    <2>3. VerdictsAreEarned'
      BY <2>1 DEF SkInv, VerdictsAreEarned, Earned
    <2>4. SavesReadTheSaved'
      BY <2>1 DEF SkInv, SavesReadTheSaved
    <2> QED BY <2>2, <2>3, <2>4 DEF SkInv
  <1>2. CASE SkillServerRestarts
    <2>1. /\ skWork' = [b \in Assistants |-> Unmanned]
          /\ skLost' = (skLost \/ \E b \in Assistants : skWork[b].op = "save")
          /\ UNCHANGED <<skSettings, skVerdict, skPackage, skSaved, skCalls>>
      BY <1>2 DEF SkillServerRestarts
    <2>2. SkTypes'
      BY <2>1, UnsetIs DEF SkInv, SkTypes
    <2>3. VerdictsAreEarned'
      BY <2>1, UnsetIs DEF SkInv, VerdictsAreEarned
    <2>4. SavesReadTheSaved'
      BY <2>1, UnsetIs DEF SkInv, SavesReadTheSaved
    <2> QED BY <2>2, <2>3, <2>4 DEF SkInv
  <1> QED BY <1>1, <1>2

LEMMA SkillBegins == SkInit => SkInv
  <1> SUFFICES ASSUME SkInit PROVE SkInv
    OBVIOUS
  <1>1. SkTypes
    <2>0. 0 \in 0..MaxAssists
      BY SkillRunsAssumption
    <2>1. skCalls \in 0..MaxAssists /\ skPackage \in PackageForms /\ skLost \in BOOLEAN
      BY <2>0 DEF SkInit
    <2>2. skWork \in [Assistants -> SkWorks]
      BY UnsetIs DEF SkInit
    <2>3. skSettings \in SkValues /\ skSaved \in SkValues /\ skVerdict \in SkVerdicts
      BY UnsetIs DEF SkInit
    <2> QED BY <2>1, <2>2, <2>3 DEF SkInit, SkTypes
  <1>2. VerdictsAreEarned
    BY UnsetIs DEF SkInit, VerdictsAreEarned, Earned
  <1>3. SavesReadTheSaved
    BY UnsetIs DEF SkInit, SavesReadTheSaved
  <1> QED BY <1>1, <1>2, <1>3 DEF SkInv

LEMMA SkillStep == SkInv /\ [SkNext]_skVars => SkInv'
  <1> SUFFICES ASSUME SkInv, [SkNext]_skVars PROVE SkInv'
    OBVIOUS
  <1>1. CASE UNCHANGED skVars
    BY <1>1 DEF skVars, SkInv, SkTypes, VerdictsAreEarned, SavesReadTheSaved
  <1>2. ASSUME NEW a \in Assistants,
               \/ \E put \in SUBSET SettingNames : StartSettingsPut(a, put)
               \/ OpenSettings(a) \/ WriteSettings(a)
               \/ StartCheck(a) \/ StartPrepare(a) \/ StartAction(a)
               \/ CommandEnds(a) \/ CommandFails(a) \/ OpenStatus(a) \/ WriteStatus(a)
        PROVE  SkInv'
    BY <1>2, SettingsPutKeeps, OpenSettingsKeeps, WriteSettingsKeeps, AssistKeeps,
       CommandEndsKeeps, StatusKeeps
  <1> QED BY <1>1, <1>2, SkillChangesKeep DEF SkNext

LEMMA SkInvTells == SkInv => SkTypeOK /\ ReadyWasVerified /\ SavedSettingsAreKept
  <1> SUFFICES ASSUME SkInv PROVE SkTypeOK /\ ReadyWasVerified /\ SavedSettingsAreKept
    OBVIOUS
  <1>1. SkTypeOK
    <2>1. skVerdict.status \in Verdicts \cup {"none"}
      BY DEF SkInv, SkTypes, SkVerdicts
    <2>2. \A a \in Assistants : skWork[a].op \in {"none", "save", "check", "prepare", "action"}
      BY DEF SkInv, SkTypes, SkWorks
    <2> QED BY <2>1, <2>2 DEF SkInv, SkTypes, SkTypeOK, SkValues, VerdictsAreEarned, WorkIsSound
  <1>2. ReadyWasVerified
    <2>1. ShownStatus = "ready" =>
             IF skVerdict = NoVerdict THEN ~skPackage.check ELSE skVerdict.status = "ready"
      BY DEF ShownStatus
    <2> QED BY <2>1 DEF ReadyWasVerified, SkInv, VerdictsAreEarned, Earned
  <1>3. SavedSettingsAreKept
    BY DEF SavedSettingsAreKept, SkInv, SavesReadTheSaved
  <1> QED BY <1>1, <1>2, <1>3

-----------------------------------------------------------------------------
(* The development supervisor. *)

Apis     == [is : {"none", "some"}, snap : Snaps, process : {"up", "hung", "dead"},
             slow : BOOLEAN]
Phases   == {"health", "drain", "workers", "host", "release", "install", "launch", "watch",
             "ended"}
Whys     == {"none", "initial", "exited", "unhealthy", "rebuild", "refresh", "rollback", "failed"}
DevTasks == [at : Phases, why : Whys, snap : Snaps, prev : Apis, from : Trees,
             parts : SUBSET Parts]

AroundTypes ==
    /\ devTree \in Trees
    /\ devWatching \subseteq Parts /\ devUnseen \subseteq Streams
    /\ devEvents \subseteq devWatching /\ devPending \subseteq devWatching
    /\ devApi \in Apis /\ (devApi.is = "none" => devApi = NoApi)
    /\ devPort \in BOOLEAN
    /\ devBuilt \in [built : Versions, installed : Versions]
    /\ devFailed \subseteq Parts \cup {"launch"}
    /\ devMishaps \in 0..MaxMishaps

DevTypes == AroundTypes /\ devTask \in DevTasks

(* What the phase of a task says of its reason and of the parts it reloads.  *)
TaskIsSound(t) ==
    /\ t.at \in {"health", "drain", "ended"} => t = [RestingSupervisor EXCEPT !.at = t.at]
    /\ t.at = "workers" => t.why \in {"initial", "rebuild", "refresh"}
    /\ t.at = "host" => t.why \in {"initial", "rebuild"}
    /\ t.at = "release" => t.why \in {"rebuild", "refresh", "unhealthy"}
    /\ t.at = "install" => t.why \in {"initial", "rebuild", "refresh"}
    /\ t.at = "launch" => t.why # "none"
    /\ t.at = "watch" => t.why = "initial"
    /\ t.why = "initial" => t.at \in {"workers", "install", "host", "launch", "watch"}
    /\ t.why \in {"none", "exited", "unhealthy"} => t.parts = {}
    /\ t.why \in {"initial", "rebuild", "rollback"} => t.parts = Parts
    /\ t.why = "refresh" => t.parts = {"workers"}
    /\ t.why = "failed" => "workers" \in t.parts

(* The watchers run from the end of the start on. *)
WatchersRun == devTask.why # "initial" /\ devTask.at # "ended" => devWatching = Parts

(* The parts with a change that is still to be seen to. *)
Due == devEvents \cup devPending

(* The snapshot of the API is of the code as it is, unless a change of it is *)
(* due, was not seen or its last reload failed: of the one that runs while no*)
(* reload is about the host, and of the one a task is about to launch.       *)
HostIsCurrent ==
    "host" \notin Due \cup devUnseen =>
       /\ "host" \notin devFailed \cup devTask.parts =>
             /\ devApi.is = "some" => devApi.snap.host = devTree["host"]
             /\ devTask.at \in {"release", "install", "launch"} =>
                   devTask.snap.host = devTree["host"]
       /\ devTask.why \in {"initial", "rebuild"} =>
             /\ devTask.at = "host" => devTask.from["host"] = devTree["host"]
             /\ devTask.at = "launch" => devTask.snap.host = devTree["host"]
             /\ devTask.at = "watch" => devApi.snap.host = devTree["host"]
       /\ devTask.why = "rebuild" /\ devTask.at \in {"release", "install"} =>
             devTask.snap.host = devTree["host"]

(* The packages embedded in it likewise: a change of them is never due.      *)
PackagesAreCurrent ==
    "packages" \notin devUnseen =>
       /\ "host" \notin devFailed \cup devTask.parts =>
             /\ devApi.is = "some" => devApi.snap.packages = devTree["packages"]
             /\ devTask.at \in {"release", "install", "launch"} =>
                   devTask.snap.packages = devTree["packages"]
       /\ devTask.why \in {"initial", "rebuild"} =>
             /\ devTask.at = "host" => devTask.from["packages"] = devTree["packages"]
             /\ devTask.at = "launch" => devTask.snap.packages = devTree["packages"]
             /\ devTask.at = "watch" => devApi.snap.packages = devTree["packages"]
       /\ devTask.why = "rebuild" /\ devTask.at \in {"release", "install"} =>
             devTask.snap.packages = devTree["packages"]

(* The workers likewise, through the build and the installation. *)
WorkersAreCurrent ==
    Due = {} /\ "workers" \notin devUnseen =>
       /\ devTask.at # "ended" /\ "workers" \notin devFailed \cup devTask.parts =>
             devBuilt.installed = devTree["workers"]
       /\ devTask.why \in {"initial", "rebuild", "refresh"} =>
             /\ devTask.at = "workers" => devTask.from["workers"] = devTree["workers"]
             /\ devTask.at \in {"release", "install"} => devBuilt.built = devTree["workers"]
             /\ devTask.at \in {"launch", "watch"} => devBuilt.installed = devTree["workers"]
       /\ devTask.at = "host" =>
             IF devTask.why = "rebuild" THEN devBuilt.built = devTree["workers"]
             ELSE devBuilt.installed = devTree["workers"]

(* Without an API, one is being launched or a launch failed last. *)
ApiIsKept ==
    /\ devApi.is = "none" => \/ "launch" \in devFailed \/ devTask.at \in {"install", "launch", "ended"}
                             \/ devTask.why = "initial"
    /\ devTask.at \in {"release", "install"} /\ devTask.why = "rebuild"
       /\ devTask.prev.is = "none" => "launch" \in devFailed
    /\ devTask.why = "initial" => (devApi.is = "none" <=> devTask.at # "watch")

(* A build has begun with code that was there. *)
BuildsFromThePast ==
    /\ devTask.at = "workers" => devTask.from["workers"] <= devTree["workers"]
    /\ devTask.at = "host" => devTask.from["host"] <= devTree["host"]

DevInv ==
    /\ DevTypes
    /\ TaskIsSound(devTask) /\ WatchersRun
    /\ HostIsCurrent
    /\ PackagesAreCurrent
    /\ WorkersAreCurrent
    /\ ApiIsKept
    /\ OneApiProcess
    /\ BuildsFromThePast

LEMMA RestIs ==
    ASSUME NEW at \in Phases
    PROVE  LET t == [RestingSupervisor EXCEPT !.at = at] IN
           /\ t \in DevTasks /\ t.at = at /\ t.why = "none" /\ t.parts = {} /\ NoApi \in Apis
           /\ at \in {"health", "drain", "ended"} => TaskIsSound(t)
  <1>1. 0 \in Versions
    BY DevAssumption DEF Versions
  <1>2. NoApi \in Apis /\ NoSnap \in Snaps /\ Untouched \in Trees
    BY <1>1 DEF NoApi, Apis, NoSnap, Snaps, Untouched, Trees
  <1>3. LET t == [RestingSupervisor EXCEPT !.at = at] IN
        t \in DevTasks /\ t.at = at /\ t.why = "none" /\ t.parts = {}
    BY <1>1, <1>2 DEF RestingSupervisor, DevTasks, Whys
  <1>4. at \in {"health", "drain", "ended"} => TaskIsSound([RestingSupervisor EXCEPT !.at = at])
    BY <1>3 DEF TaskIsSound
  <1> QED BY <1>2, <1>3, <1>4

LEMMA AfterwardsRests ==
    ASSUME NEW why \in Whys
    PROVE  \E at \in {"health", "drain"} : Afterwards(why) = [RestingSupervisor EXCEPT !.at = at]
  BY DEF Afterwards

LEMMA ReloadsAre ==
    /\ Reloads("rebuild") = Parts /\ Reloads("refresh") = {"workers"}
    /\ \A why \in Whys \ {"rebuild", "refresh"} : Reloads(why) = {}
    /\ Parts = {"host", "workers"}
  BY DEF Reloads, Parts

(* The supervisor comes to rest. *)
LEMMA ComesToRest ==
    ASSUME AroundTypes', NEW at \in {"health", "drain", "ended"},
           devTask' = [RestingSupervisor EXCEPT !.at = at],
           devWatching' = Parts \/ at = "ended",
           "host" \notin Due' \cup devUnseen' \cup devFailed' /\ devApi'.is = "some" =>
              devApi'.snap.host = devTree'["host"],
           "packages" \notin devUnseen' /\ "host" \notin devFailed' /\ devApi'.is = "some" =>
              devApi'.snap.packages = devTree'["packages"],
           Due' = {} /\ "workers" \notin devUnseen' \cup devFailed' =>
              devBuilt'.installed = devTree'["workers"],
           devApi'.is = "none" => "launch" \in devFailed' \/ at = "ended"
    PROVE  DevInv'
  <1>1. /\ devTask' \in DevTasks /\ devTask'.at = at /\ devTask'.why = "none"
        /\ devTask'.parts = {} /\ TaskIsSound(devTask')
    BY RestIs DEF Phases
  <1>2. DevTypes' /\ TaskIsSound(devTask)' /\ WatchersRun'
    BY <1>1 DEF DevTypes, WatchersRun
  <1>3. /\ HostIsCurrent' /\ PackagesAreCurrent' /\ WorkersAreCurrent' /\ ApiIsKept'
        /\ OneApiProcess' /\ BuildsFromThePast'
    BY <1>1 DEF HostIsCurrent, PackagesAreCurrent, WorkersAreCurrent, ApiIsKept, OneApiProcess,
                BuildsFromThePast
  <1> QED BY <1>2, <1>3 DEF DevInv

LEMMA InvFacts ==
    ASSUME DevInv
    PROVE  /\ AroundTypes /\ devTask \in DevTasks /\ TaskIsSound(devTask)
           /\ devTree["host"] \in Versions /\ devTree["workers"] \in Versions
           /\ devTree["packages"] \in Versions /\ devTree \in Trees
           /\ devTask.at \in Phases /\ devTask.why \in Whys /\ devTask.snap \in Snaps
           /\ devTask.prev \in Apis /\ devTask.from \in Trees /\ devTask.parts \subseteq Parts
           /\ devTask.from["host"] \in Versions /\ devTask.from["workers"] \in Versions
           /\ devTask.from["packages"] \in Versions
           /\ devApi \in Apis /\ devApi.snap \in Snaps /\ devApi.is \in {"none", "some"}
           /\ devBuilt.built \in Versions /\ devBuilt.installed \in Versions
           /\ (devApi.is = "none" => devApi = NoApi /\ devApi.process = "dead")
           /\ Versions \subseteq Nat
  BY DevAssumption 
  DEF DevInv, DevTypes, AroundTypes, DevTasks, Apis, Parts, Streams, Trees, NoApi, Versions

LEMMA MishapsAre ==
    ASSUME AroundTypes, Mishap \/ UNCHANGED devMishaps
    PROVE  devMishaps' \in 0..MaxMishaps
  BY DevAssumption DEF Mishap, AroundTypes

LEMMA DevEditKeeps ==
    ASSUME DevInv, NEW kind \in FileKinds, EditFile(kind)
    PROVE  DevInv'
  <1>1. /\ UNCHANGED <<devPending, devWatching, devApi, devPort, devBuilt, devTask, devFailed,
                       devMishaps>>
        /\ devEvents' = devEvents \cup (WatchedBy(kind) \cap devWatching)
        /\ WatchedBy(kind) \subseteq Parts /\ BuiltFrom(kind) \subseteq Streams
        /\ devUnseen' = devUnseen \cup Untold(kind) /\ Untold(kind) \subseteq BuiltFrom(kind)
        /\ WatchedBy(kind) \cap devWatching = {} => Untold(kind) = BuiltFrom(kind)
        /\ "packages" \in BuiltFrom(kind) => "packages" \in Untold(kind)
    BY DEF EditFile, WatchedBy, BuiltFrom, Untold, Parts, Streams
  <1>2. devTree' = [k \in Streams |-> devTree[k] + IF k \in BuiltFrom(kind) THEN 1 ELSE 0]
    BY DEF EditFile
  <1>3. /\ devTree' \in Trees
        /\ \A k \in Streams : devTree[k] <= devTree'[k]
    <2>1. \A k \in Streams : devTree[k] \in Nat /\ devTree[k] <= MaxEdits
      BY DevAssumption DEF DevInv, DevTypes, AroundTypes, Trees, Versions
    <2>2. \A k \in BuiltFrom(kind) : devTree[k] < MaxEdits
      BY DEF EditFile
    <2>3. ASSUME NEW k \in Streams
          PROVE  /\ devTree[k] + (IF k \in BuiltFrom(kind) THEN 1 ELSE 0) \in Versions
                 /\ devTree[k] <= devTree[k] + (IF k \in BuiltFrom(kind) THEN 1 ELSE 0)
      BY <2>1, <2>2, DevAssumption DEF Versions
    <2> QED BY <1>2, <2>3 DEF Trees
  <1>4. /\ "host" \notin Due' \cup devUnseen' =>
              "host" \notin Due \cup devUnseen /\ devTree'["host"] = devTree["host"]
        /\ Due' = {} /\ "workers" \notin devUnseen' =>
              Due = {} /\ "workers" \notin devUnseen /\ devTree'["workers"] = devTree["workers"]
        /\ "packages" \notin devUnseen' =>
              "packages" \notin devUnseen /\ devTree'["packages"] = devTree["packages"]
    <2>1. /\ "host" \in BuiltFrom(kind) => WatchedBy(kind) = {"host"}
          /\ "workers" \in BuiltFrom(kind) => WatchedBy(kind) # {}
      BY DEF BuiltFrom, WatchedBy, FileKinds, Parts
    <2>2. /\ "host" \in Streams /\ "workers" \in Streams /\ "packages" \in Streams
          /\ devTree["host"] \in Nat /\ devTree["workers"] \in Nat /\ devTree["packages"] \in Nat
      BY InvFacts DEF Parts, Streams
    <2>3. "host" \in BuiltFrom(kind) => "host" \in devEvents' \cup devUnseen'
      BY <1>1, <2>1 DEF Parts
    <2>4. "workers" \in BuiltFrom(kind) => devEvents' # {} \/ "workers" \in devUnseen'
      BY <1>1, <2>1
    <2>5. /\ "host" \notin BuiltFrom(kind) => devTree'["host"] = devTree["host"]
          /\ "workers" \notin BuiltFrom(kind) => devTree'["workers"] = devTree["workers"]
          /\ "packages" \notin BuiltFrom(kind) => devTree'["packages"] = devTree["packages"]
      BY <1>2, <2>2
    <2> QED BY <1>1, <2>3, <2>4, <2>5 DEF Due
  <1>5. DevTypes'
    <2>1. devUnseen' \subseteq Streams /\ devEvents' \subseteq devWatching'
      BY <1>1 DEF DevInv, DevTypes, AroundTypes
    <2> QED BY <1>1, <1>3, <2>1 DEF DevInv, DevTypes, AroundTypes
  <1>6. TaskIsSound(devTask)' /\ WatchersRun' /\ ApiIsKept' /\ OneApiProcess'
    BY <1>1 DEF DevInv, TaskIsSound, WatchersRun, ApiIsKept, OneApiProcess
  <1>7. HostIsCurrent' /\ PackagesAreCurrent'
    BY <1>1, <1>4 DEF DevInv, HostIsCurrent, PackagesAreCurrent
  <1>8. WorkersAreCurrent'
    BY <1>1, <1>4 DEF DevInv, WorkersAreCurrent
  <1>9. BuildsFromThePast'
    <2>1. /\ devTree'["host"] \in Nat /\ devTree'["workers"] \in Nat
          /\ devTree["host"] <= devTree'["host"] /\ devTree["workers"] <= devTree'["workers"]
      BY <1>3, DevAssumption DEF Trees, Streams, Parts, Versions
    <2> QED BY <1>1, <2>1, InvFacts DEF DevInv, BuildsFromThePast
  <1> QED BY <1>5, <1>6, <1>7, <1>8, <1>9 DEF DevInv

(* What the process and its port do by themselves. *)
LEMMA ProcessKeeps ==
    ASSUME DevInv, (\E how \in {"hung", "dead"} : ApiFails(how)) \/ ApiRecovers \/ PortIsFreed
    PROVE  DevInv'
  <1>1. /\ UNCHANGED <<devChanges, devUnseen, devBuilt, devTask, devFailed>>
        /\ devPort' \in BOOLEAN /\ devMishaps' \in 0..MaxMishaps
    <2>1. /\ UNCHANGED <<devChanges, devUnseen, devBuilt, devTask, devFailed>>
          /\ Mishap \/ UNCHANGED devMishaps
          /\ UNCHANGED devPort \/ devPort' = FALSE
      BY DEF ApiFails, ApiRecovers, PortIsFreed
    <2> QED BY <2>1, InvFacts, MishapsAre DEF AroundTypes
  <1>2. /\ devApi' \in Apis /\ devApi'.is = devApi.is /\ devApi'.snap = devApi.snap
        /\ (devApi'.is = "none" => devApi' = NoApi)
        /\ (devApi.process = "dead" => devApi'.process = "dead")
    BY InvFacts DEF ApiFails, ApiRecovers, PortIsFreed, Apis
  <1>3. DevTypes'
    BY <1>1, <1>2 DEF DevInv, DevTypes, AroundTypes, devChanges
  <1>4. /\ TaskIsSound(devTask)' /\ WatchersRun' /\ HostIsCurrent' /\ PackagesAreCurrent'
        /\ WorkersAreCurrent' /\ ApiIsKept' /\ OneApiProcess' /\ BuildsFromThePast'
    BY <1>1, <1>2 DEF DevInv, TaskIsSound, WatchersRun, HostIsCurrent, PackagesAreCurrent,
                      WorkersAreCurrent, ApiIsKept, OneApiProcess, BuildsFromThePast, Due, devChanges
  <1> QED BY <1>3, <1>4 DEF DevInv

LEMMA StopsApi ==
    ASSUME DevInv, StopApi
    PROVE  /\ devApi' \in Apis /\ devApi'.is = devApi.is /\ devApi'.snap = devApi.snap
           /\ devApi'.process = "dead"
           /\ (devApi'.is = "none" => devApi' = NoApi)
           /\ devPort' \in BOOLEAN /\ devMishaps' \in 0..MaxMishaps
  <1>1. devApi' = [devApi EXCEPT !.process = "dead"]
    BY DEF StopApi
  <1>2. /\ devApi' \in Apis /\ devApi'.is = devApi.is /\ devApi'.snap = devApi.snap
        /\ devApi'.process = "dead"
    BY <1>1, InvFacts DEF Apis
  <1>3. devApi'.is = "none" => devApi' = NoApi
    BY <1>1, <1>2, InvFacts DEF NoApi
  <1>4. devPort' \in BOOLEAN /\ devMishaps' \in 0..MaxMishaps
    <2>1. (Mishap /\ devPort' = TRUE) \/ UNCHANGED <<devPort, devMishaps>>
      BY DEF StopApi
    <2> QED BY <2>1, InvFacts, MishapsAre DEF AroundTypes
  <1> QED BY <1>2, <1>3, <1>4

(* The host and the workers while nothing is reloaded. *)
LEMMA AtRestIsCurrent ==
    ASSUME DevInv
    PROVE  /\ "host" \notin Due \cup devUnseen \cup devFailed \cup devTask.parts
                 /\ devApi.is = "some" => devApi.snap.host = devTree["host"]
           /\ "packages" \notin devUnseen /\ "host" \notin devFailed \cup devTask.parts
                 /\ devApi.is = "some" => devApi.snap.packages = devTree["packages"]
           /\ Due = {} /\ "workers" \notin devUnseen \cup devFailed \cup devTask.parts
                 /\ devTask.at # "ended" => devBuilt.installed = devTree["workers"]
  BY DEF DevInv, HostIsCurrent, PackagesAreCurrent, WorkersAreCurrent

LEMMA ProbeKeeps ==
    ASSUME DevInv, SkipProbe \/ FindHealthy \/ FindSlow
    PROVE  DevInv'
  <1>1. /\ devTask.at = "health" /\ devTask = RestingSupervisor
        /\ UNCHANGED <<devChanges, devUnseen, devPort, devBuilt, devFailed, devMishaps>>
        /\ devTask' = [devTask EXCEPT !.at = "drain"]
    BY DEF SkipProbe, FindHealthy, FindSlow, DevInv, TaskIsSound, RestingSupervisor
  <1>2. /\ devApi' \in Apis /\ devApi'.is = devApi.is /\ devApi'.snap = devApi.snap
        /\ (devApi'.is = "none" => devApi' = NoApi)
    BY InvFacts DEF SkipProbe, FindHealthy, FindSlow, Apis
  <1>3. AroundTypes'
    BY <1>1, <1>2 DEF DevInv, DevTypes, AroundTypes, devChanges
  <1>4. devTask' = [RestingSupervisor EXCEPT !.at = "drain"] /\ devTask.parts = {}
    BY <1>1 DEF RestingSupervisor
  <1>5. /\ Due' = Due /\ (devApi'.is = "none" => "launch" \in devFailed')
        /\ devWatching' = Parts /\ devTree' = devTree
    BY <1>1, <1>2 DEF Due, DevInv, ApiIsKept, WatchersRun, devChanges, RestingSupervisor
  <1> QED BY <1>1, <1>2, <1>3, <1>4, <1>5, AtRestIsCurrent, ComesToRest

LEMMA FindExitedKeeps ==
    ASSUME DevInv, FindExited
    PROVE  DevInv'
  <1>1. /\ devTask.at = "health" /\ devTask = RestingSupervisor /\ devApi.is = "some"
        /\ devApi.process = "dead"
        /\ UNCHANGED <<devChanges, devUnseen, devApi, devPort, devBuilt, devFailed,
                       devMishaps>>
        /\ devTask' = [devTask EXCEPT !.at = "launch", !.why = "exited", !.snap = devApi.snap]
    BY DEF FindExited, DevInv, TaskIsSound, RestingSupervisor
  <1>2. /\ devTask' \in DevTasks /\ devTask'.at = "launch" /\ devTask'.why = "exited"
        /\ devTask'.snap = devApi.snap /\ devTask'.parts = {} /\ devTask.parts = {}
    BY <1>1, InvFacts DEF DevTasks, RestingSupervisor, Phases, Whys
  <1>3. DevTypes' /\ TaskIsSound(devTask)' /\ WatchersRun'
    BY <1>1, <1>2
    DEF DevInv, DevTypes, AroundTypes, TaskIsSound, WatchersRun, devChanges, RestingSupervisor
  <1>4. Due' = Due
    BY <1>1 DEF Due, devChanges
  <1>5. HostIsCurrent' /\ PackagesAreCurrent' /\ WorkersAreCurrent'
    BY <1>1, <1>2, <1>4, AtRestIsCurrent
    DEF HostIsCurrent, PackagesAreCurrent, WorkersAreCurrent, devChanges
  <1>6. ApiIsKept' /\ OneApiProcess' /\ BuildsFromThePast'
    BY <1>1, <1>2 DEF ApiIsKept, OneApiProcess, BuildsFromThePast
  <1> QED BY <1>3, <1>5, <1>6 DEF DevInv

LEMMA FindHungKeeps ==
    ASSUME DevInv, FindHung
    PROVE  DevInv'
  <1>1. /\ devTask.at = "health" /\ devTask = RestingSupervisor /\ devApi.process = "hung"
        /\ UNCHANGED <<devChanges, devUnseen, devBuilt, devFailed>>
        /\ devTask' = [devTask EXCEPT !.at = "release", !.why = "unhealthy", !.snap = devApi.snap]
    BY DEF FindHung, DevInv, TaskIsSound, RestingSupervisor
  <1>2. /\ devApi' \in Apis /\ devApi'.is = devApi.is /\ devApi'.snap = devApi.snap
        /\ (devApi'.is = "none" => devApi' = NoApi)
        /\ devPort' \in BOOLEAN /\ devMishaps' \in 0..MaxMishaps
    BY StopsApi DEF FindHung
  <1>3. devApi.is = "some"
    BY <1>1, InvFacts
  <1>4. /\ devTask' \in DevTasks /\ devTask'.at = "release" /\ devTask'.why = "unhealthy"
        /\ devTask'.snap = devApi.snap /\ devTask'.parts = {} /\ devTask.parts = {}
    BY <1>1, InvFacts DEF DevTasks, RestingSupervisor, Phases, Whys
  <1>5. DevTypes' /\ TaskIsSound(devTask)' /\ WatchersRun'
    BY <1>1, <1>2, <1>4
    DEF DevInv, DevTypes, AroundTypes, TaskIsSound, WatchersRun, devChanges, RestingSupervisor
  <1>6. Due' = Due
    BY <1>1 DEF Due, devChanges
  <1>7. HostIsCurrent' /\ PackagesAreCurrent' /\ WorkersAreCurrent'
    BY <1>1, <1>2, <1>3, <1>4, <1>6, AtRestIsCurrent
    DEF HostIsCurrent, PackagesAreCurrent, WorkersAreCurrent, devChanges
  <1>8. ApiIsKept' /\ OneApiProcess' /\ BuildsFromThePast'
    BY <1>2, <1>3, <1>4 DEF ApiIsKept, OneApiProcess, BuildsFromThePast
  <1> QED BY <1>5, <1>7, <1>8 DEF DevInv

LEMMA DrainKeeps ==
    ASSUME DevInv, Drain
    PROVE  DevInv'
  <1>1. /\ devTask.at = "drain" /\ devTask = [RestingSupervisor EXCEPT !.at = "drain"]
        /\ UNCHANGED <<devTree, devWatching, devApi, devPort, devBuilt, devFailed, devMishaps>>
        /\ devTask.parts = {} /\ (devApi.is = "none" => "launch" \in devFailed)
        /\ devWatching = Parts
    BY DEF Drain, DevInv, TaskIsSound, RestingSupervisor, ApiIsKept, WatchersRun
  <1>2. PICK ready \in SUBSET (devPending \ devEvents) :
           /\ devPending' = (devPending \cup devEvents) \ ready
           /\ devTask' = IF ready = {} THEN RestingSupervisor
                         ELSE [devTask EXCEPT !.at = "workers", !.why = NextReload(ready),
                                              !.parts = Reloads(NextReload(ready)),
                                              !.from = devTree]
           /\ devUnseen' = IF ready = {} THEN devUnseen ELSE devUnseen \ {"workers"}
    BY DEF Drain
  <1>3. /\ Due' = Due \ ready /\ ready \subseteq Parts
    BY <1>2 DEF Due, Drain, DevInv, DevTypes, AroundTypes
  <1>4. AroundTypes'
    BY <1>1, <1>2 DEF DevInv, DevTypes, AroundTypes, Drain
  <1>5. CASE ready = {}
    <2>1. devTask' = [RestingSupervisor EXCEPT !.at = "health"]
      BY <1>2, <1>5 DEF RestingSupervisor
    <2> QED BY <1>1, <1>2, <1>3, <1>4, <1>5, <2>1, AtRestIsCurrent, ComesToRest
  <1>6. CASE ready # {}
    <2> DEFINE why == NextReload(ready)
    <2>1. /\ why \in {"rebuild", "refresh"} /\ (why = "refresh" => ready = {"workers"})
      BY <1>3, <1>6 DEF NextReload, Parts
    <2>2. /\ Reloads(why) \subseteq Parts /\ (why = "refresh" => Reloads(why) = {"workers"})
          /\ (why = "rebuild" => Reloads(why) = Parts)
      BY <2>1, ReloadsAre
    <2>3. devTask' = [devTask EXCEPT !.at = "workers", !.why = why, !.parts = Reloads(why),
                                     !.from = devTree]
      BY <1>2, <1>6
    <2> HIDE DEF why
    <2>4. /\ devTask' \in DevTasks /\ devTask'.at = "workers" /\ devTask'.why = why
          /\ devTask'.parts = Reloads(why) /\ devTask'.from = devTree
      BY <2>1, <2>2, <2>3, InvFacts DEF DevTasks, Phases, Whys
    <2>5. DevTypes' /\ TaskIsSound(devTask)' /\ WatchersRun'
      BY <1>1, <1>4, <2>1, <2>2, <2>4 DEF DevTypes, TaskIsSound, WatchersRun, devChanges
    <2>6. HostIsCurrent' /\ PackagesAreCurrent'
      <3>1. "host" \notin Due' \cup devUnseen' /\ why = "refresh" =>
               "host" \notin Due \cup devUnseen
        BY <1>2, <1>3, <1>6, <2>1
      <3> QED BY <1>1, <1>2, <1>6, <2>1, <2>2, <2>4, <3>1, ReloadsAre, AtRestIsCurrent
          DEF HostIsCurrent, PackagesAreCurrent
    <2>7. WorkersAreCurrent'
      BY <1>1, <2>1, <2>2, <2>4, ReloadsAre DEF WorkersAreCurrent
    <2>8. ApiIsKept' /\ OneApiProcess'
      BY <1>1, <2>1, <2>4 DEF ApiIsKept, OneApiProcess
    <2>9. BuildsFromThePast'
      BY <1>1, <2>4, InvFacts DEF BuildsFromThePast
    <2> QED BY <2>5, <2>6, <2>7, <2>8, <2>9 DEF DevInv
  <1> QED BY <1>5, <1>6

(* A reload that is given up. *)
LEMMA GiveUpKeeps ==
    ASSUME DevInv, GiveUp, devTask.at \in {"workers", "host", "release", "install"},
           devTask.why # "initial", UNCHANGED <<devChanges, devUnseen, devApi>>,
           devPort' \in BOOLEAN, devMishaps' \in 0..MaxMishaps,
           devBuilt' \in [built : Versions, installed : Versions],
           devBuilt'.installed = devBuilt.installed,
           devApi.is = "none" => "launch" \in devFailed
    PROVE  DevInv'
  <1>1. devFailed' = devFailed \cup devTask.parts /\ devTask' = Afterwards(devTask.why)
    BY DEF GiveUp
  <1>2. PICK at \in {"health", "drain"} : devTask' = [RestingSupervisor EXCEPT !.at = at]
    BY <1>1, AfterwardsRests, InvFacts
  <1>3. AroundTypes'
    BY <1>1, InvFacts DEF AroundTypes, devChanges
  <1>4. Due' = Due
    BY DEF Due, devChanges
  <1>5. devWatching' = Parts /\ devTree' = devTree
    BY DEF DevInv, WatchersRun, devChanges
  <1> QED BY <1>1, <1>2, <1>3, <1>4, <1>5, AtRestIsCurrent, ComesToRest

(* The host is built next, in the start and in a rebuild. *)
LEMMA BuildHostNextKeeps ==
    ASSUME DevInv, BuildHostNext, devTask.why \in {"initial", "rebuild"},
           devTask.at \in {"workers", "install"}, devTask.at = "install" => devTask.why = "initial",
           devTask.at = "workers" => devTask.why = "rebuild",
           UNCHANGED <<devChanges, devApi, devPort, devFailed, devMishaps>>,
           devBuilt' \in [built : Versions, installed : Versions],
           Due = {} /\ "workers" \notin devUnseen =>
              IF devTask.why = "rebuild" THEN devBuilt'.built = devTree["workers"]
              ELSE devBuilt'.installed = devTree["workers"]
    PROVE  DevInv'
  <1>1. /\ devTask' = [devTask EXCEPT !.at = "host", !.from = devTree]
        /\ devUnseen' = devUnseen \ {"host", "packages"}
    BY DEF BuildHostNext
  <1>2. /\ devTask' \in DevTasks /\ devTask'.at = "host" /\ devTask'.why = devTask.why
        /\ devTask'.parts = Parts /\ devTask'.from = devTree
    BY <1>1, InvFacts DEF DevTasks, Phases, DevInv, TaskIsSound
  <1>3. AroundTypes'
    BY <1>1, InvFacts DEF AroundTypes, devChanges
  <1>4. DevTypes' /\ TaskIsSound(devTask)' /\ WatchersRun'
    BY <1>2, <1>3 DEF DevTypes, TaskIsSound, WatchersRun, DevInv, devChanges
  <1>5. Due' = Due /\ devTree' = devTree
    BY DEF Due, devChanges
  <1>6. HostIsCurrent' /\ PackagesAreCurrent' /\ WorkersAreCurrent'
    BY <1>1, <1>2, <1>5, ReloadsAre DEF HostIsCurrent, PackagesAreCurrent, WorkersAreCurrent
  <1>7. ApiIsKept' /\ OneApiProcess' /\ BuildsFromThePast'
    BY <1>1, <1>2, <1>5, InvFacts DEF DevInv, ApiIsKept, OneApiProcess, BuildsFromThePast
  <1> QED BY <1>4, <1>6, <1>7 DEF DevInv

LEMMA WorkersBuiltKeeps ==
    ASSUME DevInv, WorkersBuilt
    PROVE  DevInv'
  <1>1. /\ devTask.at = "workers" /\ devTask.why \in {"initial", "rebuild", "refresh"}
        /\ UNCHANGED devChanges
        /\ devTask.parts = (IF devTask.why = "refresh" THEN {"workers"} ELSE Parts)
        /\ (devApi.is = "none" => "launch" \in devFailed \/ devTask.why = "initial")
        /\ devTask.from["workers"] <= devTree["workers"]
    BY DEF WorkersBuilt, DevInv, TaskIsSound, ApiIsKept, BuildsFromThePast
  <1>2. /\ devBuilt' \in [built : Versions, installed : Versions]
        /\ devBuilt'.installed = devBuilt.installed
        /\ Due = {} /\ "workers" \notin devUnseen => devBuilt'.built = devTree["workers"]
    <2>1. PICK v \in devTask.from["workers"]..devTree["workers"] :
             devBuilt' = [devBuilt EXCEPT !.built = v]
      BY DEF WorkersBuilt
    <2>2. v \in Versions /\ v \in Nat
      BY InvFacts, DevAssumption DEF Versions
    <2>3. Due = {} /\ "workers" \notin devUnseen => v = devTree["workers"]
      <3>1. Due = {} /\ "workers" \notin devUnseen => devTask.from["workers"] = devTree["workers"]
        BY <1>1 DEF DevInv, WorkersAreCurrent
      <3>2. devTask.from["workers"] \in Nat /\ devTree["workers"] \in Nat
        BY InvFacts
      <3> QED BY <2>1, <2>2, <3>1, <3>2
    <2>4. devBuilt \in [built : Versions, installed : Versions]
      BY InvFacts DEF AroundTypes, devChanges
    <2> QED BY <2>1, <2>2, <2>3, <2>4
  <1>3. Due' = Due
    BY <1>1 DEF Due, devChanges
  <1>4. CASE devTask.why = "rebuild"
    <2>1. BuildHostNext /\ UNCHANGED <<devApi, devPort, devFailed, devMishaps>>
      BY <1>4 DEF WorkersBuilt
    <2> QED BY <1>1, <1>2, <1>4, <2>1, BuildHostNextKeeps
  <1>8. CASE devTask.why = "initial"
    <2>1. /\ devTask' = [devTask EXCEPT !.at = "install"]
          /\ UNCHANGED <<devUnseen, devApi, devPort, devFailed, devMishaps>>
      BY <1>8 DEF WorkersBuilt
    <2>2. /\ devTask' \in DevTasks /\ devTask'.at = "install" /\ devTask'.why = "initial"
          /\ devTask'.parts = Parts
      BY <1>1, <1>8, <2>1, InvFacts DEF DevTasks, Phases
    <2>3. AroundTypes'
      BY <1>1, <1>2, <2>1, InvFacts DEF AroundTypes, devChanges
    <2>4. DevTypes' /\ TaskIsSound(devTask)' /\ WatchersRun'
      BY <2>2, <2>3 DEF DevTypes, TaskIsSound, WatchersRun
    <2>5. HostIsCurrent' /\ PackagesAreCurrent' /\ WorkersAreCurrent'
      BY <1>1, <1>2, <1>3, <2>1, <2>2, ReloadsAre
      DEF HostIsCurrent, PackagesAreCurrent, WorkersAreCurrent, devChanges
    <2>6. devApi.is = "none" /\ devApi.process = "dead"
      BY <1>1, <1>8, InvFacts DEF DevInv, ApiIsKept
    <2>7. ApiIsKept' /\ OneApiProcess' /\ BuildsFromThePast'
      BY <2>1, <2>2, <2>6 DEF ApiIsKept, OneApiProcess, BuildsFromThePast
    <2> QED BY <2>4, <2>5, <2>7 DEF DevInv
  <1>5. CASE devTask.why = "refresh" /\ devApi.is = "none"
    <2>1. GiveUp /\ UNCHANGED <<devUnseen, devApi, devPort, devMishaps>>
      BY <1>5 DEF WorkersBuilt
    <2>2. devPort' \in BOOLEAN /\ devMishaps' \in 0..MaxMishaps
      BY <2>1, InvFacts DEF AroundTypes, devChanges
    <2> QED BY <1>1, <1>2, <1>5, <2>1, <2>2, GiveUpKeeps
  <1>6. CASE devTask.why = "refresh" /\ devApi.is = "some"
    <2>1. /\ StopApi /\ UNCHANGED <<devUnseen, devFailed>>
          /\ devTask' = [devTask EXCEPT !.at = "release", !.snap = devApi.snap]
      BY <1>6 DEF WorkersBuilt
    <2>2. /\ devTask' \in DevTasks /\ devTask'.at = "release" /\ devTask'.why = "refresh"
          /\ devTask'.parts = {"workers"} /\ devTask'.snap = devApi.snap
      BY <1>1, <1>6, <2>1, InvFacts DEF DevTasks, Phases
    <2>3. AroundTypes'
      BY <1>1, <1>2, <2>1, StopsApi, InvFacts DEF AroundTypes, devChanges
    <2>4. DevTypes' /\ TaskIsSound(devTask)' /\ WatchersRun'
      BY <1>1, <1>6, <2>2, <2>3 DEF DevTypes, TaskIsSound, WatchersRun, devChanges, DevInv
    <2>5. HostIsCurrent' /\ PackagesAreCurrent'
      BY <1>1, <1>3, <1>6, <2>1, <2>2, StopsApi, AtRestIsCurrent
      DEF HostIsCurrent, PackagesAreCurrent, devChanges
    <2>6. WorkersAreCurrent'
      BY <1>1, <1>2, <1>3, <2>1, <2>2 DEF WorkersAreCurrent, devChanges
    <2>7. ApiIsKept' /\ OneApiProcess' /\ BuildsFromThePast'
      BY <1>6, <2>1, <2>2, StopsApi DEF ApiIsKept, OneApiProcess, BuildsFromThePast
    <2> QED BY <2>4, <2>5, <2>6, <2>7 DEF DevInv
  <1>7. devApi.is \in {"none", "some"}
    BY InvFacts
  <1> QED BY <1>1, <1>4, <1>5, <1>6, <1>7, <1>8

LEMMA HostBuiltKeeps ==
    ASSUME DevInv, HostBuilt
    PROVE  DevInv'
  <1> DEFINE at == IF devTask.why = "initial" THEN "launch" ELSE "release"
  <1>1. /\ devTask.at = "host" /\ devTask.why \in {"initial", "rebuild"} /\ devTask.parts = Parts
        /\ UNCHANGED <<devChanges, devUnseen, devBuilt, devFailed>>
        /\ (devApi.is = "none" => "launch" \in devFailed \/ devTask.why = "initial")
        /\ (devTask.why = "initial" => devApi.is = "none")
        /\ devTask.from["host"] <= devTree["host"]
        /\ (devTask.why # "initial" => devWatching = Parts)
    BY DEF HostBuilt, DevInv, TaskIsSound, ApiIsKept, BuildsFromThePast, WatchersRun
  <1>2. PICK v \in devTask.from["host"]..devTree["host"],
             p \in devTask.from["packages"]..devTree["packages"] :
           devTask' = [devTask EXCEPT !.at = at, !.snap = [host |-> v, packages |-> p],
                                      !.prev = devApi]
    BY DEF HostBuilt
  <1>3. v \in Versions /\ v \in Nat /\ p \in Versions
    BY InvFacts, DevAssumption DEF Versions
  <1>4. /\ "host" \notin Due \cup devUnseen => v = devTree["host"]
        /\ "packages" \notin devUnseen => p = devTree["packages"]
    <2>1. /\ "host" \notin Due \cup devUnseen => devTask.from["host"] = devTree["host"]
          /\ "packages" \notin devUnseen => devTask.from["packages"] = devTree["packages"]
      BY <1>1 DEF DevInv, HostIsCurrent, PackagesAreCurrent
    <2>2. /\ devTask.from["host"] \in Nat /\ devTree["host"] \in Nat
          /\ devTask.from["packages"] \in Nat /\ devTree["packages"] \in Nat /\ p \in Nat
      BY <1>3, InvFacts
    <2> QED BY <1>2, <1>3, <2>1, <2>2
  <1> DEFINE s == [host |-> v, packages |-> p]
  <1>5. s \in Snaps /\ s.host = v /\ s.packages = p
    BY <1>3 DEF Snaps
  <1> HIDE DEF s
  <1>6. /\ devTask' \in DevTasks /\ devTask'.at = at /\ devTask'.why = devTask.why
        /\ devTask'.parts = Parts /\ devTask'.snap = s /\ devTask'.prev = devApi
    BY <1>1, <1>2, <1>5, InvFacts DEF DevTasks, Phases, s
  <1>7. /\ devApi' \in Apis /\ devApi'.is = devApi.is /\ (devApi'.is = "none" => devApi' = NoApi)
        /\ devPort' \in BOOLEAN /\ devMishaps' \in 0..MaxMishaps
    <2>1. CASE devApi.is = "some"
      BY <2>1, StopsApi DEF HostBuilt
    <2>2. CASE devApi.is # "some"
      BY <2>2, InvFacts DEF HostBuilt, AroundTypes
    <2> QED BY <2>1, <2>2
  <1>8. AroundTypes'
    BY <1>1, <1>7, InvFacts DEF AroundTypes, devChanges
  <1>9. DevTypes' /\ TaskIsSound(devTask)' /\ WatchersRun'
    BY <1>1, <1>6, <1>8 DEF DevTypes, TaskIsSound, WatchersRun, devChanges
  <1>10. Due' = Due /\ devTree' = devTree
    BY <1>1 DEF Due, devChanges
  <1>11. HostIsCurrent' /\ PackagesAreCurrent'
    BY <1>1, <1>4, <1>5, <1>6, <1>10, ReloadsAre DEF HostIsCurrent, PackagesAreCurrent
  <1>12. WorkersAreCurrent'
    BY <1>1, <1>6, <1>10, ReloadsAre DEF DevInv, WorkersAreCurrent
  <1>13. ApiIsKept' /\ OneApiProcess' /\ BuildsFromThePast'
    <2>1. devApi.is = "none" => devApi'.process = "dead"
      BY <1>7 DEF NoApi
    <2> QED BY <1>1, <1>6, <1>7, <2>1 DEF ApiIsKept, OneApiProcess, BuildsFromThePast
  <1> QED BY <1>9, <1>11, <1>12, <1>13 DEF DevInv

LEMMA BuildFailsKeeps ==
    ASSUME DevInv, BuildFails \/ PortIsNotReleased
    PROVE  DevInv'
  <1>1. /\ devTask.at \in {"workers", "host", "release"} /\ GiveUp /\ devTask.why # "initial"
        /\ UNCHANGED <<devChanges, devUnseen, devApi, devPort, devBuilt>>
    BY DEF BuildFails, PortIsNotReleased, ApiAfterRelease, DevInv, TaskIsSound
  <1>2. devApi.is = "none" => "launch" \in devFailed
    BY <1>1 DEF DevInv, ApiIsKept
  <1>3. devMishaps' \in 0..MaxMishaps
    BY InvFacts, MishapsAre DEF BuildFails, PortIsNotReleased
  <1>4. devPort' \in BOOLEAN /\ devBuilt' \in [built : Versions, installed : Versions]
    BY <1>1, InvFacts DEF AroundTypes, devChanges
  <1> QED BY <1>1, <1>2, <1>3, <1>4, GiveUpKeeps

LEMMA PortReleasedKeeps ==
    ASSUME DevInv, PortReleased
    PROVE  DevInv'
  <1> DEFINE at == IF devTask.why = "unhealthy" THEN "launch" ELSE "install"
  <1>1. /\ devTask.at = "release" /\ devTask.why \in {"rebuild", "refresh", "unhealthy"}
        /\ devApi' = NoApi /\ devTask' = [devTask EXCEPT !.at = at]
        /\ UNCHANGED <<devChanges, devUnseen, devPort, devBuilt, devFailed, devMishaps>>
        /\ devWatching = Parts
    BY DEF PortReleased, ApiAfterRelease, DevInv, TaskIsSound, WatchersRun
  <1>2. /\ devTask' \in DevTasks /\ devTask'.at = at /\ devTask'.why = devTask.why
        /\ devTask'.parts = devTask.parts /\ devTask'.snap = devTask.snap
        /\ devTask'.prev = devTask.prev
    BY <1>1, InvFacts DEF DevTasks, Phases
  <1>3. NoApi \in Apis /\ NoApi.is = "none" /\ NoApi.process = "dead"
    BY RestIs DEF NoApi, Phases
  <1>4. AroundTypes' /\ Due' = Due
    BY <1>1, <1>3, InvFacts DEF AroundTypes, Due, devChanges
  <1>5. DevTypes' /\ TaskIsSound(devTask)' /\ WatchersRun'
    BY <1>1, <1>2, <1>4, InvFacts DEF DevTypes, TaskIsSound, WatchersRun, devChanges
  <1>6. HostIsCurrent' /\ PackagesAreCurrent'
    BY <1>1, <1>2, <1>3, <1>4 DEF DevInv, HostIsCurrent, PackagesAreCurrent, devChanges
  <1>7. WorkersAreCurrent'
    BY <1>1, <1>2, <1>4 DEF DevInv, WorkersAreCurrent, devChanges
  <1>8. ApiIsKept' /\ OneApiProcess' /\ BuildsFromThePast'
    BY <1>1, <1>2, <1>3 DEF DevInv, ApiIsKept, OneApiProcess, BuildsFromThePast, devChanges
  <1> QED BY <1>5, <1>6, <1>7, <1>8 DEF DevInv

LEMMA InstalledKeeps ==
    ASSUME DevInv, Installed, devTask.why # "initial"
    PROVE  DevInv'
  <1>1. /\ devTask.at = "install" /\ devTask.why \in {"rebuild", "refresh"}
        /\ devBuilt' = [devBuilt EXCEPT !.installed = devBuilt.built]
        /\ devTask' = [devTask EXCEPT !.at = "launch"]
        /\ UNCHANGED <<devChanges, devUnseen, devApi, devPort, devFailed, devMishaps>>
        /\ "workers" \in devTask.parts /\ devWatching = Parts
    BY ReloadsAre DEF Installed, DevInv, TaskIsSound, WatchersRun
  <1>2. /\ devTask' \in DevTasks /\ devTask'.at = "launch" /\ devTask'.why = devTask.why
        /\ devTask'.parts = devTask.parts /\ devTask'.snap = devTask.snap
        /\ devTask'.prev = devTask.prev
    BY <1>1, InvFacts DEF DevTasks, Phases
  <1>3. /\ devBuilt' \in [built : Versions, installed : Versions]
        /\ devBuilt'.installed = devBuilt.built
    BY <1>1, InvFacts DEF AroundTypes, devChanges
  <1>4. AroundTypes' /\ Due' = Due
    BY <1>1, <1>3, InvFacts DEF AroundTypes, Due, devChanges
  <1>5. DevTypes' /\ TaskIsSound(devTask)' /\ WatchersRun'
    BY <1>1, <1>2, <1>4, InvFacts DEF DevTypes, TaskIsSound, WatchersRun, devChanges
  <1>6. HostIsCurrent' /\ PackagesAreCurrent'
    BY <1>1, <1>2, <1>4 DEF DevInv, HostIsCurrent, PackagesAreCurrent, devChanges
  <1>7. WorkersAreCurrent'
    BY <1>1, <1>2, <1>3, <1>4 DEF DevInv, WorkersAreCurrent, devChanges
  <1>8. ApiIsKept' /\ OneApiProcess' /\ BuildsFromThePast'
    BY <1>1, <1>2 DEF DevInv, ApiIsKept, OneApiProcess, BuildsFromThePast, devChanges
  <1> QED BY <1>5, <1>6, <1>7, <1>8 DEF DevInv

LEMMA FirstInstalledKeeps ==
    ASSUME DevInv, Installed, devTask.why = "initial"
    PROVE  DevInv'
  <1>1. /\ devTask.at = "install" /\ BuildHostNext
        /\ devBuilt' = [devBuilt EXCEPT !.installed = devBuilt.built]
        /\ UNCHANGED <<devChanges, devApi, devPort, devFailed, devMishaps>>
    BY DEF Installed
  <1>2. /\ devBuilt' \in [built : Versions, installed : Versions]
        /\ devBuilt'.installed = devBuilt.built
    BY <1>1, InvFacts DEF AroundTypes
  <1>3. Due = {} /\ "workers" \notin devUnseen => devBuilt'.installed = devTree["workers"]
    BY <1>1, <1>2 DEF DevInv, WorkersAreCurrent
  <1> QED BY <1>1, <1>2, <1>3, BuildHostNextKeeps

LEMMA InstallFailsKeeps ==
    ASSUME DevInv, InstallFails
    PROVE  DevInv'
  <1>1. /\ devTask.at = "install" /\ devTask.why \in {"rebuild", "refresh"}
        /\ UNCHANGED <<devChanges, devUnseen, devApi, devPort, devBuilt>>
        /\ devTask.parts = (IF devTask.why = "rebuild" THEN Parts ELSE {"workers"})
        /\ devWatching = Parts
    BY DEF InstallFails, DevInv, TaskIsSound, WatchersRun
  <1>2. /\ devMishaps' \in 0..MaxMishaps /\ devPort' \in BOOLEAN
        /\ devBuilt' \in [built : Versions, installed : Versions]
    BY <1>1, InvFacts, DevAssumption DEF InstallFails, Mishap, AroundTypes
  <1>3. CASE devTask.why = "rebuild" /\ devTask.prev.is = "none"
    <2>1. GiveUp
      BY <1>3 DEF InstallFails
    <2>2. "launch" \in devFailed
      BY <1>1, <1>3 DEF DevInv, ApiIsKept
    <2> QED BY <1>1, <1>2, <2>1, <2>2, GiveUpKeeps
  <1>4. CASE ~(devTask.why = "rebuild" /\ devTask.prev.is = "none")
    <2> DEFINE snap == IF devTask.why = "rebuild" THEN devTask.prev.snap ELSE devTask.snap
    <2>1. /\ devTask' = [devTask EXCEPT !.at = "launch", !.why = "failed", !.snap = snap]
          /\ UNCHANGED devFailed
      BY <1>4 DEF InstallFails
    <2>2. snap \in Snaps /\ (devTask.why = "refresh" => snap = devTask.snap)
      BY InvFacts DEF Apis
    <2> HIDE DEF snap
    <2>3. /\ devTask' \in DevTasks /\ devTask'.at = "launch" /\ devTask'.why = "failed"
          /\ devTask'.parts = devTask.parts /\ devTask'.snap = snap
      BY <2>1, <2>2, InvFacts DEF DevTasks, Phases, Whys
    <2>4. AroundTypes' /\ Due' = Due
      BY <1>1, <1>2, <2>1, InvFacts DEF AroundTypes, Due, devChanges
    <2>5. DevTypes' /\ TaskIsSound(devTask)' /\ WatchersRun'
      BY <1>1, <2>3, <2>4, ReloadsAre DEF DevTypes, TaskIsSound, WatchersRun, devChanges
    <2>6. HostIsCurrent' /\ PackagesAreCurrent'
      BY <1>1, <2>1, <2>2, <2>3, <2>4, ReloadsAre DEF DevInv, HostIsCurrent, PackagesAreCurrent, devChanges
    <2>7. WorkersAreCurrent'
      BY <1>1, <2>3, <2>4, ReloadsAre DEF WorkersAreCurrent, devChanges
    <2>8. ApiIsKept' /\ OneApiProcess' /\ BuildsFromThePast'
      BY <1>1, <2>1, <2>3 DEF DevInv, ApiIsKept, OneApiProcess, BuildsFromThePast, devChanges
    <2> QED BY <2>5, <2>6, <2>7, <2>8 DEF DevInv
  <1> QED BY <1>3, <1>4

LEMMA LaunchedKeeps ==
    ASSUME DevInv, Launched, devTask.why # "initial"
    PROVE  DevInv'
  <1>1. /\ devTask.at = "launch" /\ devApi' = ApiOf(devTask.snap)
        /\ UNCHANGED <<devChanges, devUnseen, devPort, devBuilt, devMishaps>>
        /\ devFailed' = ((devFailed \cup IF devTask.why \in {"rollback", "failed"}
                                         THEN devTask.parts ELSE {})
                         \ Reloads(devTask.why)) \ {"launch"}
        /\ devTask' = Afterwards(devTask.why) /\ devWatching = Parts
    BY DEF Launched, DevInv, WatchersRun
  <1>2. PICK at \in {"health", "drain"} : devTask' = [RestingSupervisor EXCEPT !.at = at]
    BY <1>1, AfterwardsRests, InvFacts
  <1>3. /\ devApi' \in Apis /\ devApi'.is = "some" /\ devApi'.snap = devTask.snap
    BY <1>1, InvFacts DEF ApiOf, Apis
  <1>4. AroundTypes' /\ Due' = Due
    BY <1>1, <1>3, InvFacts DEF AroundTypes, Due, devChanges
  <1>5. /\ "host" \notin Due' \cup devUnseen' \cup devFailed' => devApi'.snap.host = devTree'["host"]
        /\ "packages" \notin devUnseen' /\ "host" \notin devFailed' =>
              devApi'.snap.packages = devTree'["packages"]
    <2>1. CASE devTask.why = "rebuild"
      BY <1>1, <1>3, <1>4, <2>1 DEF DevInv, HostIsCurrent, PackagesAreCurrent, devChanges
    <2>2. CASE devTask.why # "rebuild"
      <3>1. "host" \notin Reloads(devTask.why)
        BY <2>2, ReloadsAre, InvFacts
      <3>2. "host" \in devTask.parts => devTask.why \in {"rollback", "failed"}
        BY <1>1, <2>2, InvFacts DEF TaskIsSound, Whys
      <3> QED BY <1>1, <1>3, <1>4, <3>1, <3>2 DEF DevInv, HostIsCurrent, PackagesAreCurrent, devChanges
    <2> QED BY <2>1, <2>2
  <1>6. Due' = {} /\ "workers" \notin devUnseen' \cup devFailed' => devBuilt'.installed = devTree'["workers"]
    <2>1. CASE devTask.why \in {"rebuild", "refresh"}
      BY <1>1, <1>4, <2>1 DEF DevInv, WorkersAreCurrent, devChanges
    <2>2. CASE devTask.why \notin {"rebuild", "refresh"}
      <3>1. Reloads(devTask.why) = {}
        BY <2>2, ReloadsAre, InvFacts
      <3>2. "workers" \in devTask.parts => devTask.why \in {"rollback", "failed"}
        BY <1>1, <2>2, InvFacts DEF TaskIsSound, Whys
      <3> QED BY <1>1, <1>4, <3>1, <3>2 DEF DevInv, WorkersAreCurrent, devChanges
    <2> QED BY <2>1, <2>2
  <1>7. devWatching' = Parts
    BY <1>1 DEF devChanges
  <1> QED BY <1>2, <1>3, <1>4, <1>5, <1>6, <1>7, ComesToRest

LEMMA FirstLaunchedKeeps ==
    ASSUME DevInv, Launched, devTask.why = "initial"
    PROVE  DevInv'
  <1>1. /\ devTask.at = "launch" /\ devApi' = ApiOf(devTask.snap)
        /\ UNCHANGED <<devChanges, devUnseen, devPort, devBuilt, devMishaps>>
        /\ devFailed' \subseteq devFailed \cup devTask.parts
        /\ devTask' = [devTask EXCEPT !.at = "watch"]
    BY DEF Launched
  <1>2. /\ devTask' \in DevTasks /\ devTask'.at = "watch" /\ devTask'.why = "initial"
        /\ devTask'.parts = Parts /\ devTask.parts = Parts
    BY <1>1, InvFacts DEF DevTasks, Phases, DevInv, TaskIsSound
  <1>3. /\ devApi' \in Apis /\ devApi'.is = "some" /\ devApi'.snap = devTask.snap
    BY <1>1, InvFacts DEF ApiOf, Apis
  <1>4. AroundTypes' /\ Due' = Due /\ devTree' = devTree
    BY <1>1, <1>3, InvFacts DEF AroundTypes, Due, devChanges
  <1>5. DevTypes' /\ TaskIsSound(devTask)' /\ WatchersRun'
    BY <1>2, <1>4 DEF DevTypes, TaskIsSound, WatchersRun
  <1>6. HostIsCurrent' /\ PackagesAreCurrent'
    BY <1>1, <1>2, <1>3, <1>4, ReloadsAre DEF DevInv, HostIsCurrent, PackagesAreCurrent
  <1>7. WorkersAreCurrent'
    BY <1>1, <1>2, <1>4, ReloadsAre DEF DevInv, WorkersAreCurrent
  <1>8. ApiIsKept' /\ OneApiProcess' /\ BuildsFromThePast'
    BY <1>2, <1>3 DEF ApiIsKept, OneApiProcess, BuildsFromThePast
  <1> QED BY <1>5, <1>6, <1>7, <1>8 DEF DevInv

(* The last watcher that starts ends the start. *)
LEMMA StartWatcherKeeps ==
    ASSUME DevInv, StartWatcher
    PROVE  DevInv'
  <1>1. /\ devTask.at = "watch" /\ devTask.why = "initial" /\ devApi.is = "some"
        /\ UNCHANGED <<devTree, devEvents, devPending, devUnseen, devApi, devPort, devBuilt,
                       devFailed, devMishaps>>
    BY InvFacts DEF StartWatcher, DevInv, TaskIsSound, ApiIsKept
  <1>2. Due' = Due
    BY <1>1 DEF Due
  <1>3. CASE "host" \notin devWatching
    <2>1. devWatching' = devWatching \cup {"host"} /\ UNCHANGED devTask
      BY <1>3 DEF StartWatcher
    <2>2. DevTypes'
      BY <1>1, <2>1, InvFacts, ReloadsAre DEF DevTypes, AroundTypes
    <2>3. TaskIsSound(devTask)' /\ WatchersRun' /\ ApiIsKept' /\ OneApiProcess' /\ BuildsFromThePast'
      BY <1>1, <2>1 DEF DevInv, TaskIsSound, WatchersRun, ApiIsKept, OneApiProcess, BuildsFromThePast
    <2>4. HostIsCurrent' /\ PackagesAreCurrent' /\ WorkersAreCurrent'
      BY <1>1, <1>2, <2>1 DEF DevInv, HostIsCurrent, PackagesAreCurrent, WorkersAreCurrent
    <2> QED BY <2>2, <2>3, <2>4 DEF DevInv
  <1>4. CASE "host" \in devWatching
    <2>1. devWatching' = Parts /\ devTask' = [RestingSupervisor EXCEPT !.at = "health"]
      BY <1>4 DEF StartWatcher, RestingSupervisor
    <2>2. AroundTypes'
      BY <1>1, <2>1, InvFacts DEF AroundTypes
    <2>3. /\ "host" \notin Due \cup devUnseen => devApi.snap.host = devTree["host"]
          /\ "packages" \notin devUnseen => devApi.snap.packages = devTree["packages"]
      BY <1>1 DEF DevInv, HostIsCurrent, PackagesAreCurrent
    <2>4. Due = {} /\ "workers" \notin devUnseen => devBuilt.installed = devTree["workers"]
      BY <1>1 DEF DevInv, WorkersAreCurrent
    <2> QED BY <1>1, <1>2, <2>1, <2>2, <2>3, <2>4, ComesToRest
  <1> QED BY <1>3, <1>4

(* An end, at any time. *)
LEMMA EndedKeeps ==
    ASSUME DevInv, Ended, UNCHANGED <<devChanges, devUnseen, devPort, devBuilt, devFailed>>,
           devMishaps' \in 0..MaxMishaps
    PROVE  DevInv'
  <1>1. devApi' = NoApi /\ devTask' = [RestingSupervisor EXCEPT !.at = "ended"]
    BY DEF Ended
  <1>2. /\ devTask' \in DevTasks /\ devTask'.at = "ended" /\ devTask'.why = "none"
        /\ devTask'.parts = {} /\ TaskIsSound(devTask')
        /\ NoApi \in Apis /\ NoApi.is = "none"
    BY <1>1, RestIs DEF Phases, NoApi
  <1>3. AroundTypes' /\ Due' = Due
    BY <1>1, <1>2, InvFacts DEF AroundTypes, Due, devChanges
  <1>4. DevTypes' /\ TaskIsSound(devTask)' /\ WatchersRun'
    BY <1>2, <1>3 DEF DevTypes, WatchersRun
  <1>5. /\ HostIsCurrent' /\ PackagesAreCurrent' /\ WorkersAreCurrent' /\ ApiIsKept' /\ OneApiProcess'
        /\ BuildsFromThePast'
    BY <1>1, <1>2
    DEF HostIsCurrent, PackagesAreCurrent, WorkersAreCurrent, ApiIsKept, OneApiProcess,
        BuildsFromThePast
  <1> QED BY <1>4, <1>5 DEF DevInv

LEMMA RollBackKeeps ==
    ASSUME DevInv, RollBack
    PROVE  DevInv'
  <1>1. /\ devTask.at = "launch" /\ devTask.why = "rebuild" /\ devTask.parts = Parts
        /\ UNCHANGED <<devChanges, devUnseen, devApi, devPort, devBuilt, devFailed>>
        /\ devTask' = [devTask EXCEPT !.why = "rollback", !.snap = devTask.prev.snap]
        /\ devWatching = Parts
    BY DEF RollBack, DevInv, TaskIsSound, WatchersRun
  <1>2. devMishaps' \in 0..MaxMishaps
    BY InvFacts, DevAssumption DEF RollBack, NotReady, Mishap, AroundTypes
  <1>3. /\ devTask' \in DevTasks /\ devTask'.at = "launch" /\ devTask'.why = "rollback"
        /\ devTask'.parts = Parts
    BY <1>1, InvFacts DEF DevTasks, Whys, Apis
  <1>4. AroundTypes'
    BY <1>1, <1>2, InvFacts DEF AroundTypes, devChanges
  <1>5. DevTypes' /\ TaskIsSound(devTask)' /\ WatchersRun'
    BY <1>1, <1>3, <1>4 DEF DevTypes, TaskIsSound, WatchersRun, devChanges
  <1>6. /\ HostIsCurrent' /\ PackagesAreCurrent' /\ WorkersAreCurrent' /\ ApiIsKept' /\ OneApiProcess'
        /\ BuildsFromThePast'
    BY <1>1, <1>3, ReloadsAre
    DEF DevInv, HostIsCurrent, PackagesAreCurrent, WorkersAreCurrent, ApiIsKept, OneApiProcess,
        BuildsFromThePast
  <1> QED BY <1>5, <1>6 DEF DevInv

LEMMA LaunchFailsKeeps ==
    ASSUME DevInv, LaunchFails
    PROVE  DevInv'
  <1>1. /\ devTask.at = "launch" /\ devTask' = Afterwards(devTask.why)
        /\ UNCHANGED <<devChanges, devUnseen, devApi, devPort, devBuilt>>
        /\ devFailed' = devFailed \cup devTask.parts \cup {"launch"} /\ devWatching = Parts
    BY DEF LaunchFails, DevInv, WatchersRun
  <1>2. PICK at \in {"health", "drain"} : devTask' = [RestingSupervisor EXCEPT !.at = at]
    BY <1>1, AfterwardsRests, InvFacts
  <1>3. devMishaps' \in 0..MaxMishaps
    BY InvFacts, DevAssumption DEF LaunchFails, NotReady, Mishap, AroundTypes
  <1>4. AroundTypes' /\ Due' = Due
    BY <1>1, <1>3, InvFacts DEF AroundTypes, Due, devChanges
  <1>5. devWatching' = Parts /\ devTree' = devTree
    BY <1>1 DEF devChanges
  <1> QED BY <1>1, <1>2, <1>4, <1>5, AtRestIsCurrent, ComesToRest

LEMMA EndKeeps ==
    ASSUME DevInv, EndSupervisor \/ StartingFails
    PROVE  DevInv'
  <1>1. /\ Ended /\ UNCHANGED <<devChanges, devUnseen, devPort, devBuilt, devFailed>>
        /\ Mishap \/ UNCHANGED devMishaps
    BY DEF EndSupervisor, StartingFails
  <1> QED BY <1>1, InvFacts, MishapsAre, EndedKeeps

LEMMA SupervisorBegins == DevInit => DevInv
  <1> SUFFICES ASSUME DevInit PROVE DevInv
    OBVIOUS
  <1>1. 0 \in Versions /\ 0 \in 0..MaxMishaps
    BY DevAssumption DEF Versions
  <1>2. /\ NoApi \in Apis /\ NoApi.is = "none" /\ NoApi.process = "dead"
        /\ Untouched \in Trees /\ Untouched["workers"] = 0 /\ RestingSupervisor \in DevTasks
    BY <1>1, RestIs DEF NoApi, Apis, Trees, Untouched, Streams, Parts, Phases, NoSnap, Snaps,
                        DevTasks, RestingSupervisor, Whys
  <1>3. AroundTypes
    BY <1>1, <1>2 DEF DevInit, AroundTypes
  <1>4. /\ devTask \in DevTasks /\ devTask.at = "workers" /\ devTask.why = "initial"
        /\ devTask.parts = Parts /\ devTask.from = Untouched
    BY <1>2 DEF DevInit, DevTasks, Phases, Whys, RestingSupervisor
  <1>5. TaskIsSound(devTask) /\ WatchersRun
    BY <1>4 DEF TaskIsSound, WatchersRun
  <1>6. HostIsCurrent /\ PackagesAreCurrent /\ WorkersAreCurrent
    BY <1>4, ReloadsAre DEF DevInit, HostIsCurrent, PackagesAreCurrent, WorkersAreCurrent
  <1>7. ApiIsKept /\ OneApiProcess /\ BuildsFromThePast
    BY <1>1, <1>2, <1>4, DevAssumption
    DEF DevInit, ApiIsKept, OneApiProcess, BuildsFromThePast, Versions
  <1> QED BY <1>3, <1>4, <1>5, <1>6, <1>7 DEF DevInv, DevTypes

LEMMA SupervisorStep == DevInv /\ [DevNext]_devVars => DevInv'
  <1> SUFFICES ASSUME DevInv, [DevNext]_devVars PROVE DevInv'
    OBVIOUS
  <1>1. CASE UNCHANGED devVars
    BY <1>1
    DEF devVars, devChanges, DevInv, DevTypes, AroundTypes, TaskIsSound, WatchersRun,
        HostIsCurrent, PackagesAreCurrent, WorkersAreCurrent, ApiIsKept, OneApiProcess,
        BuildsFromThePast, Due
  <1>2. CASE DevNext
    BY <1>2, DevEditKeeps, ProcessKeeps, ProbeKeeps, FindExitedKeeps, FindHungKeeps, DrainKeeps,
       WorkersBuiltKeeps, HostBuiltKeeps, BuildFailsKeeps, PortReleasedKeeps, InstalledKeeps,
       FirstInstalledKeeps, InstallFailsKeeps, LaunchedKeeps, FirstLaunchedKeeps, RollBackKeeps,
       LaunchFailsKeeps, StartWatcherKeeps, EndKeeps DEF DevNext
  <1> QED BY <1>1, <1>2

LEMMA DevInvTells == DevInv => DevTypeOK /\ SupervisorKeepsUp
  <1> SUFFICES ASSUME DevInv PROVE DevTypeOK /\ SupervisorKeepsUp
    OBVIOUS
  <1>1. DevTypeOK
    BY InvFacts DEF DevTypeOK, AroundTypes, Apis, Phases, Whys, TaskIsSound, DevInv, WatchersRun
  <1>2. devTask.at \in {"health", "drain"} => devTask.parts = {}
    BY DEF DevInv, TaskIsSound, RestingSupervisor
  <1>3. EditsAreReloaded
    BY <1>2, AtRestIsCurrent DEF EditsAreReloaded, NothingToSeeTo, Due
  <1>4. ApiIsNotForgotten /\ OneApiProcess
    BY DEF ApiIsNotForgotten, DevInv, ApiIsKept, TaskIsSound
  <1> QED BY <1>1, <1>3, <1>4 DEF SupervisorKeepsUp

-----------------------------------------------------------------------------
(* The run of all of them: while a component moves its steps are those above, *)
(* and the others are still; the permission store and the scheduler, which    *)
(* are never put away, move by their own steps or not at all.                *)

ServerMoving ==
    /\ part = "registry" => RegistryInv
    /\ part = "contributions" => ContribInv
    /\ part = "configuration" => ConfInv
    /\ part = "resources" => ResInv
    /\ part = "packages" => PkInv
    /\ part = "skills" => SkInv
    /\ part = "supervisor" => DevInv

LEMMA ServerBegins == ServerInit => ServerMoving /\ GateInit /\ SchedulerInit
  <1> SUFFICES ASSUME ServerInit PROVE ServerMoving /\ GateInit /\ SchedulerInit
    OBVIOUS
  <1>1. GateInit /\ SchedulerInit
    BY DEF ServerInit
  <1>2. part = "registry" => RegistryInv
    BY RegistryStart DEF ServerInit
  <1>3. part = "contributions" => ContribInv
    BY ContribBegins DEF ServerInit
  <1>4. part = "configuration" => ConfInv
    BY ConfBegins DEF ServerInit
  <1>5. part = "resources" => ResInv
    BY ResBegins DEF ServerInit
  <1>6. part = "packages" => PkInv
    BY PkBegins DEF ServerInit
  <1>7. part = "skills" => SkInv
    BY SkillBegins DEF ServerInit
  <1>8. part = "supervisor" => DevInv
    BY SupervisorBegins DEF ServerInit
  <1> QED BY <1>1, <1>2, <1>3, <1>4, <1>5, <1>6, <1>7, <1>8 DEF ServerMoving

LEMMA OnePartMoves ==
    ASSUME [ServerNext]_serverVars
    PROVE  /\ part' = part
           /\ [GateNext]_gateVars
           /\ [SchedulerNext]_schedulerVars
           /\ part = "registry" => [RegistryNext]_registryVars
           /\ part = "contributions" => [ContribNext]_contribVars
           /\ part = "configuration" => [ConfNext]_confVars
           /\ part = "resources" => [ResNext]_resVars
           /\ part = "packages" => [PkNext]_pkVars
           /\ part = "skills" => [SkNext]_skVars
           /\ part = "supervisor" => [DevNext]_devVars
  <1>1. CASE UNCHANGED serverVars
    BY <1>1 DEF serverVars
  <1>2. CASE GatePart \/ SchedulerPart
    BY <1>2 DEF GatePart, SchedulerPart
  <1>3. CASE RegistryPart \/ ContributionsPart \/ ConfigurationPart
    BY <1>3 DEF RegistryPart, ContributionsPart, ConfigurationPart
  <1>4. CASE ResourcesPart \/ PackagesPart
    BY <1>4 DEF ResourcesPart, PackagesPart
  <1>5. CASE SkillsPart \/ SupervisorPart
    BY <1>5 DEF SkillsPart, SupervisorPart
  <1> QED BY <1>1, <1>2, <1>3, <1>4, <1>5 DEF ServerNext

LEMMA ServerStep ==
    ASSUME ServerMoving, [ServerNext]_serverVars
    PROVE  ServerMoving'
  <1>1. /\ part' = part
        /\ part = "registry" => [RegistryNext]_registryVars
        /\ part = "contributions" => [ContribNext]_contribVars
        /\ part = "configuration" => [ConfNext]_confVars
        /\ part = "resources" => [ResNext]_resVars
        /\ part = "packages" => [PkNext]_pkVars
        /\ part = "skills" => [SkNext]_skVars
        /\ part = "supervisor" => [DevNext]_devVars
    BY OnePartMoves
  <1>2. part = "registry" => RegistryInv'
    BY <1>1, RegistryStep DEF ServerMoving
  <1>3. part = "contributions" => ContribInv'
    BY <1>1, ContribStep DEF ServerMoving
  <1>4. part = "configuration" => ConfInv'
    BY <1>1, ConfStep DEF ServerMoving
  <1>5. part = "resources" => ResInv'
    BY <1>1, ResStep DEF ServerMoving
  <1>6. part = "packages" => PkInv'
    BY <1>1, PkStep DEF ServerMoving
  <1>7. part = "skills" => SkInv'
    BY <1>1, SkillStep DEF ServerMoving
  <1>8. part = "supervisor" => DevInv'
    BY <1>1, SupervisorStep DEF ServerMoving
  <1> QED BY <1>1, <1>2, <1>3, <1>4, <1>5, <1>6, <1>7, <1>8 DEF ServerMoving

THEOREM ServerInvariant == ServerSpec => []ServerMoving
  BY ServerBegins, ServerStep, PTL DEF ServerSpec

(* The server is a store of permissions and a scheduler: every behavior of it *)
(* is one of each of the two, so their invariants hold in it.                *)
THEOREM ServerRunsGateAndScheduler ==
    ServerSpec => GateSpec /\ SchedulerInit /\ [][SchedulerNext]_schedulerVars
  <1>1. ServerInit => GateInit /\ SchedulerInit
    BY ServerBegins
  <1>2. [ServerNext]_serverVars => [GateNext]_gateVars /\ [SchedulerNext]_schedulerVars
    BY OnePartMoves
  <1> QED BY <1>1, <1>2, PTL DEF ServerSpec, GateSpec

(* No request that is cut, repeated or overtaken leaves a record, a file or a *)
(* table that its next reader has no case for.                               *)
THEOREM ServerTypes == ServerSpec => []ServerTypesOK
  <1>1. ServerMoving /\ GateInv => ServerTypesOK
    BY RegistryInvTells, ContribInvTells, ConfInvTells, ResInvTells, PkInvTells, SkInvTells,
       DevInvTells DEF ServerMoving, GateInv, ServerTypesOK
  <1> QED BY <1>1, ServerInvariant, ServerRunsGateAndScheduler, GateInvariant, PTL

(* What is shown of extensions is what was asked for and runs                *)
(* (ExtensionRuntime, refresh_from_disk_if_needed, apply_snapshot).          *)
THEOREM SnapshotsTell == ServerSpec => []SnapshotsAreTruthful
  <1>1. ServerMoving => SnapshotsAreTruthful
    BY RegistryInvTells DEF ServerMoving, SnapshotsAreTruthful
  <1> QED BY <1>1, ServerInvariant, PTL

(* What the host makes of manifests and stored settings can be called, has   *)
(* one order and is complete (pipeline_handlers_for, is_method_authorized,   *)
(* extension_settings_put).                                                  *)
THEOREM ContributionsLawful == ServerSpec => []MergedContributionsAreLawful
  <1>1. ServerMoving => MergedContributionsAreLawful
    BY ContribInvTells DEF ServerMoving, MergedContributionsAreLawful
  <1> QED BY <1>1, ServerInvariant, PTL

(* An instance is set up once and its server can start again                 *)
(* (bootstrap_setup, runtime_profile_put, persist_server_config).            *)
THEOREM StaysSetUp == ServerSpec => []InstanceStaysSetUp
  <1>1. ServerMoving => InstanceStaysSetUp
    BY ConfInvTells DEF ServerMoving, InstanceStaysSetUp
  <1> QED BY <1>1, ServerInvariant, PTL

(* What the routes have saved is what is found there later (agents_put,      *)
(* skills_put, skills_delete and the migrations at the start).               *)
THEOREM FilesKept == ServerSpec => []FilesKeepWhatWasSaved
  <1>1. ServerMoving => FilesKeepWhatWasSaved
    BY ResInvTells, PkInvTells, SkInvTells DEF ServerMoving, FilesKeepWhatWasSaved
  <1> QED BY <1>1, ServerInvariant, PTL

(* A skill is shown as ready only after a check or a preparation said so, of *)
(* the package as it was then (load_skill_status, run_skill_check).          *)
THEOREM ReadyVerified == ServerSpec => []ShownReadyWasVerified
  <1>1. ServerMoving => ShownReadyWasVerified
    BY SkInvTells DEF ServerMoving, ShownReadyWasVerified
  <1> QED BY <1>1, ServerInvariant, PTL

(* The supervisor runs one API, made of the code as it is now but for what   *)
(* was edited since the last build with no watcher to tell of it: before the *)
(* watchers started, or in a package that the host embeds                    *)
(* (run_dev_supervisor, is_host_reload_path).                                *)
THEOREM OneApi == ServerSpec => []OneCurrentApiRuns
  <1>1. ServerMoving => OneCurrentApiRuns
    BY DevInvTells DEF ServerMoving, OneCurrentApiRuns
  <1> QED BY <1>1, ServerInvariant, PTL
=============================================================================
