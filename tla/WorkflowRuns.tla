----------------------------- MODULE WorkflowRuns -----------------------------
(***************************************************************************)
(* The complex tasks of one agent in one branch (workflow-service): a      *)
(* discussion writes and revises a draft plan, the operator's confirmation *)
(* turns the draft into a run, and the run is executed.  Drafts, plans and *)
(* runs are rows of the extension's database; the active session and the   *)
(* records shown in the conversation are kept by the server.  Every access *)
(* is a step of its own, any may fail, and several worker processes handle *)
(* messages at once.                                                       *)
(*                                                                         *)
(* A message that fails in the managed handler is handled a second time by *)
(* the default one, where a confirmation is taken the same way, and so is  *)
(* one whose receipt a worker that has just started finds running: its     *)
(* handler may have died, or may still be at work.  The receipts, the      *)
(* reply loop of a run and the hook that ends it are those of              *)
(* ConversationTurns: a hook leaves the stage of its run as it is.         *)
(***************************************************************************)
EXTENDS Naturals, Sequences, FiniteSets, SequencesExt

CONSTANTS
    RunWorkers,    \* worker processes
    RecentLimit,   \* runs a confirmation without a draft looks at
    MaxHeard,      \* bound on the messages
    MaxTaken,      \* bound on the times a message is taken, for which it is recovered
    MaxRuns,       \* bound on the runs
    MaxDrafts,     \* bound on the drafts
    MaxRevisions,  \* bound on the revisions of a draft
    MaxErrors      \* bound on the accesses that fail and the workers that die

ASSUME RunsAssumption ==
    {RecentLimit, MaxHeard, MaxTaken, MaxRuns, MaxDrafts, MaxRevisions, MaxErrors} \subseteq Nat

RunStages == {"pending", "planning", "dispatched", "running", "blocked", "reviewing",
           "completed", "failed", "cancelled"}
EndedStages  == {"completed", "failed", "cancelled"}

VARIABLES
    session,   \* the draft of the active workflow session, 0 if there is none
    drafts,    \* the drafts and the discussion record of each
    wfRuns,    \* the runs, their plans and their stage events
    recent,    \* the runs, the one updated last first
    handlers,  \* what each worker does
    heard,     \* the messages: what each asks for, its receipt, how often it was taken
    errors     \* failed accesses and deaths

runVars == <<session, drafts, wfRuns, recent, handlers, heard, errors>>
fates   == <<heard, errors>>

HandlerSteps == {"idle", "again", "session", "abandon", "clear", "create", "plan", "close",
                 "latest", "prepare", "save", "log", "ask", "tell", "mark", "discuss", "upsert",
                 "keep"}
Demands == {"talk", "topic", "confirm"}
Handlers ==
    [step : HandlerSteps, kind : Demands, message : 0..MaxHeard,
     managed : BOOLEAN, session : 0..MaxDrafts, draft : 0..MaxDrafts, revision : 0..MaxRevisions,
     run : 0..MaxRuns, from : RunStages, to : RunStages, then : HandlerSteps]
AtRestHandler == [step |-> "idle", kind |-> "talk", message |-> 0, managed |-> TRUE, session |-> 0,
            draft |-> 0, revision |-> 0, run |-> 0, from |-> "pending", to |-> "pending",
            then |-> "idle"]

Events == [from : RunStages, to : RunStages]

(* Type correctness of the tables and the workers; a run is parked, listed   *)
(* or executed only if it is there.                                          *)
RunsTypeOK ==
    /\ session \in 0..Len(drafts)
    /\ drafts \in Seq([status : {"ready", "running", "abandoned"}, revision : 1..MaxRevisions])
    /\ wfRuns \in Seq([stage : RunStages, draft : 0..MaxDrafts, message : 0..MaxHeard,
                       plan : BOOLEAN, events : Seq(Events), unlogged : BOOLEAN])
    /\ recent \in Seq(DOMAIN wfRuns) /\ Len(recent) = Len(wfRuns)
    /\ \A w \in RunWorkers : handlers[w] \in Handlers /\ handlers[w].run <= Len(wfRuns)
    /\ heard \in Seq([kind : Demands, receipt : {"running", "completed", "failed"}, taken : Nat])
    /\ Len(heard) <= MaxHeard /\ errors \in 0..MaxErrors

RunsInit ==
    /\ session = 0 /\ drafts = <<>>
    /\ wfRuns = <<>> /\ recent = <<>>
    /\ handlers = [w \in RunWorkers |-> AtRestHandler]
    /\ heard = <<>> /\ errors = 0

-----------------------------------------------------------------------------
(* Stage policy *)

(* StagePolicy::builtin, the conditions a new run's signals can differ in.   *)
BuiltinRules ==
    << [stage |-> "pending",    ready |-> FALSE, next |-> "planning"],
       [stage |-> "planning",   ready |-> TRUE,  next |-> "dispatched"],
       [stage |-> "dispatched", ready |-> FALSE, next |-> "running"],
       [stage |-> "running",    ready |-> FALSE, next |-> "reviewing"],
       [stage |-> "reviewing",  ready |-> FALSE, next |-> "completed"] >>

(* The first rule that matches decides; without one the stage stays.         *)
Decide(stage, planReady) ==
    LET matching == {i \in DOMAIN BuiltinRules :
                       BuiltinRules[i].stage = stage /\ (BuiltinRules[i].ready => planReady)}
    IN  IF matching = {} THEN stage
        ELSE BuiltinRules[CHOOSE i \in matching : \A j \in matching : i <= j].next

(* build_initial_plan_trace: from pending on, for as long as it is planning. *)
(* A new run has no plan yet.                                                *)
Trace(stage) == IF Decide(stage, FALSE) = stage THEN <<>>
                ELSE << [from |-> stage, to |-> Decide(stage, FALSE)] >>
InitialTrace ==
    LET first == Trace("pending") IN
    IF first # <<>> /\ Last(first).to = "planning" THEN first \o Trace("planning") ELSE first

-----------------------------------------------------------------------------
(* A message is handled *)

Now(w, p)   == handlers' = [handlers EXCEPT ![w] = p]
To(w, step) == Now(w, [handlers[w] EXCEPT !.step = step])

(* What is left of the turn is one thing to say, or to mark its receipt. *)
ComesTo(w, step) ==
    LET p == handlers[w] IN
    Now(w, [AtRestHandler EXCEPT !.step = step, !.kind = p.kind, !.message = p.message,
                                 !.managed = p.managed])
Tells(w) == ComesTo(w, "tell")

(* mark_conversation_message_receipt_status *)
Mark(w, receipt) == heard' = [heard EXCEPT ![handlers[w].message].receipt = receipt]

Errs  == errors < MaxErrors /\ errors' = errors + 1
Stays == Errs /\ UNCHANGED heard

(* An error fails the receipt; the managed handler leaves the message to the *)
(* default one.                                                              *)
Fails(w) ==
    LET p == handlers[w] IN
    /\ Errs
    /\ Mark(w, "failed")
    /\ Now(w, IF p.managed
              THEN [AtRestHandler EXCEPT !.step = "again", !.kind = p.kind, !.message = p.message,
                                         !.managed = FALSE]
              ELSE AtRestHandler)

TakesUp(w, m, managed) ==
    Now(w, [AtRestHandler EXCEPT !.step = "session", !.kind = heard'[m].kind, !.message = m,
                                 !.managed = managed])
TakesAgain(w, m) ==
    /\ heard' = [heard EXCEPT ![m] = [kind |-> @.kind, receipt |-> "running", taken |-> @.taken + 1]]
    /\ TakesUp(w, m, FALSE)

(* The managed handler claims the receipt of a message. *)
Hear(w) ==
    /\ handlers[w].step = "idle" /\ Len(heard) < MaxHeard
    /\ \E kind \in Demands :
          heard' = Append(heard, [kind |-> kind, receipt |-> "running", taken |-> 1])
    /\ TakesUp(w, Len(heard) + 1, TRUE)
    /\ UNCHANGED <<session, drafts, wfRuns, recent, errors>>

(* The default handler claims it after the managed one has failed, unless it *)
(* was completed, or recovered, in between; one that has been running for    *)
(* long is claimed nevertheless.                                             *)
HearAgain(w) ==
    LET p == handlers[w] IN
    /\ p.step = "again"
    /\ \/ heard[p.message].receipt # "completed" /\ TakesAgain(w, p.message)
       \/ heard[p.message].receipt # "failed" /\ Now(w, AtRestHandler) /\ UNCHANGED heard
    /\ UNCHANGED <<session, drafts, wfRuns, recent, errors>>

(* recover_stale_conversation_receipts, by a worker that has just started: a *)
(* receipt is running because its handler is at work, has died or could not  *)
(* mark it.  (That of a message that was replied to is only marked.)         *)
RecoverMessage(w) ==
    /\ handlers[w].step = "idle"
    /\ \E m \in DOMAIN heard :
          heard[m].receipt = "running" /\ heard[m].taken < MaxTaken /\ TakesAgain(w, m)
    /\ UNCHANGED <<session, drafts, wfRuns, recent, errors>>

(* load_active_workflow_session, and where the message goes from there.  A   *)
(* direct reply leaves the receipt running.                                  *)
ReadSession(w) ==
    LET p == handlers[w] IN
    /\ p.step = "session"
    /\ \/ Fails(w)
       \/ /\ Now(w, IF p.kind = "topic" /\ session # 0
                    THEN [p EXCEPT !.session = session, !.step = "abandon"]
                    ELSE IF p.kind = "confirm"
                    THEN [p EXCEPT !.session = session,
                                   !.step = IF session # 0 THEN "create" ELSE "latest"]
                    ELSE IF p.managed THEN [p EXCEPT !.session = session, !.step = "discuss"]
                    ELSE AtRestHandler)
          /\ UNCHANGED fates
    /\ UNCHANGED <<session, drafts, wfRuns, recent>>

(* abandon_active_workflow_session: an error is ignored. *)
AbandonDraft(w) ==
    LET p == handlers[w] IN
    /\ p.step = "abandon"
    /\ \/ drafts' = [drafts EXCEPT ![p.session].status = "abandoned"] /\ UNCHANGED fates
       \/ Stays /\ UNCHANGED drafts
    /\ To(w, "clear")
    /\ UNCHANGED <<session, wfRuns, recent>>

(* A mutant: the same handler starts over when the session is not cleared.   *)
ClearSessionAgain(w) ==
    LET p == handlers[w] IN
    /\ p.step = "clear"
    /\ \/ /\ session' = 0 /\ UNCHANGED fates
          /\ IF p.kind = "topic" THEN Now(w, AtRestHandler) ELSE To(w, "prepare")
       \/ /\ Stays /\ UNCHANGED session
          /\ Now(w, [AtRestHandler EXCEPT !.step = "session", !.kind = p.kind,
                                           !.message = p.message])
    /\ UNCHANGED <<drafts, wfRuns, recent>>
(* clear_active_workflow_session, of a new topic or a confirmation.          *)
ClearSession(w) ==
    LET p == handlers[w] IN
    /\ p.step = "clear"
    /\ \/ /\ session' = 0
          /\ IF p.kind = "topic"
             THEN Now(w, IF p.managed THEN [p EXCEPT !.session = 0, !.step = "discuss"]
                         ELSE AtRestHandler)
             ELSE To(w, "prepare")
          /\ UNCHANGED fates
       \/ Fails(w) /\ UNCHANGED session
    /\ UNCHANGED <<drafts, wfRuns, recent>>

-----------------------------------------------------------------------------
(* resume_pending_workflow_run *)

(* The draft of the session is loaded, an execution record appended, and     *)
(* run_behavior called: the stage events are logged first, and the run saved *)
(* with its (no) tasks in one transaction after them.                        *)
NewRun(draft, message) ==
    [stage |-> Last(InitialTrace).to, draft |-> draft, message |-> message, plan |-> FALSE,
     events |-> InitialTrace, unlogged |-> FALSE]
(* save_run_bundle *)
AddRun(run) == /\ Len(wfRuns) < MaxRuns
               /\ wfRuns' = Append(wfRuns, run)
               /\ recent' = <<Len(wfRuns) + 1>> \o recent

(* create_run: a run that carries the message, before anything of its plan.  *)
CreateRun(w) ==
    LET p == handlers[w] IN
    /\ p.step = "create"
    /\ \/ /\ AddRun(NewRun(p.session, p.message))
          /\ Now(w, [p EXCEPT !.draft = p.session, !.session = 0, !.run = Len(wfRuns) + 1,
                              !.step = "plan"])
          /\ UNCHANGED fates
       \/ Fails(w) /\ UNCHANGED <<wfRuns, recent>>
    /\ UNCHANGED <<session, drafts>>

(* The action run.create (run_behavior): a run that nobody has planned. *)
RequestRun ==
    /\ AddRun(NewRun(0, 0))
    /\ UNCHANGED <<session, drafts, handlers, fates>>

(* save_plan: the draft's plan and the tasks derived from its steps.         *)
WritePlan(r) == wfRuns' = [wfRuns EXCEPT ![r].plan = TRUE]

SavePlan(w) ==
    LET p == handlers[w] IN
    /\ p.step = "plan"
    /\ \/ /\ WritePlan(p.run)
          /\ To(w, "close") /\ UNCHANGED fates
       \/ Fails(w) /\ UNCHANGED wfRuns
    /\ UNCHANGED <<session, drafts, recent>>

(* The draft of the discussion is marked; an error is ignored. *)
CloseDiscussion(w) ==
    LET p == handlers[w] IN
    /\ p.step = "close"
    /\ \/ drafts' = [drafts EXCEPT ![p.draft].status = "running"] /\ UNCHANGED fates
       \/ Stays /\ UNCHANGED drafts
    /\ Now(w, [p EXCEPT !.draft = 0, !.step = "clear"])
    /\ UNCHANGED <<session, wfRuns, recent>>

(* list_recent_run_records: of all conversations. *)
Listed == SubSeq(recent, 1, IF Len(recent) < RecentLimit THEN Len(recent) ELSE RecentLimit)

(* load_latest_pending_run_for_agent: of the runs that have not ended and    *)
(* were not created for this message the one updated last whose tasks are    *)
(* the agent's.                                                              *)
Resumable(p, r) == /\ wfRuns[r].stage \notin EndedStages
                   /\ wfRuns[r].message # p.message
                   /\ wfRuns[r].plan

PickLatest(w) ==
    LET p    == handlers[w]
        runs == {i \in DOMAIN Listed : Resumable(p, Listed[i])}
    IN
    /\ p.step = "latest"
    /\ \/ Fails(w)
       \/ runs = {} /\ Tells(w) /\ UNCHANGED fates
       \/ \E i \in runs :
             /\ \A j \in runs : i <= j
             /\ Now(w, [p EXCEPT !.run = Listed[i], !.step = "prepare"])
             /\ UNCHANGED fates
    /\ UNCHANGED <<session, drafts, wfRuns, recent>>

-----------------------------------------------------------------------------
(* execute_workflow_run *)

Then(w, step) == IF step \in {"tell", "mark"} THEN ComesTo(w, step)
                 ELSE Now(w, [handlers[w] EXCEPT !.step = step, !.then = "idle",
                                                 !.from = "pending", !.to = "pending"])
Stumbles(w) == Then(w, IF handlers[w].then = "mark" THEN "mark" ELSE "tell")

(* transition_workflow_run_stage reads the run again: nothing is to do if it *)
(* is there already.                                                         *)
Transition(w, to, then) ==
    LET p == handlers[w] IN
    IF wfRuns[p.run].stage = to THEN Then(w, then)
    ELSE Now(w, [p EXCEPT !.step = "save", !.from = wfRuns[p.run].stage, !.to = to, !.then = then])

(* prepare_workflow_run_for_execution: a planned run is dispatched, and any  *)
(* run made running.  (The plan was validated as a draft, and nobody calls   *)
(* it for an approval.)                                                      *)
PrepareRun(w) ==
    LET p == handlers[w] IN
    /\ p.step = "prepare"
    /\ \/ /\ IF wfRuns[p.run].stage = "planning" THEN Transition(w, "dispatched", "prepare")
             ELSE Transition(w, "running", "ask")
          /\ UNCHANGED fates
       \/ Tells(w) /\ Stays
    /\ UNCHANGED <<session, drafts, wfRuns, recent>>

(* save_run, a blind write of the row that was read. *)
WriteStage(r, stage) ==
    /\ wfRuns' = [wfRuns EXCEPT ![r].stage = stage]
    /\ recent' = <<r>> \o RemoveAt(recent, CHOOSE i \in DOMAIN recent : recent[i] = r)

SaveStage(w) ==
    LET p == handlers[w] IN
    /\ p.step = "save"
    /\ \/ WriteStage(p.run, p.to) /\ To(w, "log") /\ UNCHANGED fates
       \/ Stumbles(w) /\ Stays /\ UNCHANGED <<wfRuns, recent>>
    /\ UNCHANGED <<session, drafts>>

(* log_stage_event and log_decision *)
LogEvent(r, event) == wfRuns' = [wfRuns EXCEPT ![r].events = Append(@, event)]

LogStage(w) ==
    LET p == handlers[w] IN
    /\ p.step = "log"
    /\ \/ /\ LogEvent(p.run, [from |-> p.from, to |-> p.to])
          /\ Then(w, p.then) /\ UNCHANGED fates
       \/ /\ wfRuns' = [wfRuns EXCEPT ![p.run].unlogged = TRUE]
          /\ Stumbles(w) /\ Stays
    /\ UNCHANGED <<session, drafts, recent>>

(* The model is asked, and the run is parked: nothing is said.  An approval  *)
(* that is missing blocks the run (none is for an operation that is          *)
(* deferred), an error fails it.  The execution record is never brought up   *)
(* to date: its id is looked for in the run's metadata, and a run has none.  *)
AskModel(w) ==
    LET p == handlers[w] IN
    /\ p.step = "ask"
    /\ \/ ComesTo(w, "mark")
       \/ Transition(w, "blocked", "mark")
       \/ Transition(w, "failed", "tell")
    /\ UNCHANGED <<session, drafts, wfRuns, recent, fates>>

(* A reason why nothing is executed, or a reply, is said in the conversation.*)
Tell(w) ==
    /\ handlers[w].step = "tell"
    /\ \/ ComesTo(w, "mark") /\ UNCHANGED fates
       \/ Fails(w)
    /\ UNCHANGED <<session, drafts, wfRuns, recent>>

(* The receipt is completed; it stays running if that cannot be written.     *)
MarkDone(w) ==
    /\ handlers[w].step = "mark"
    /\ Now(w, AtRestHandler)
    /\ \/ Mark(w, "completed") /\ UNCHANGED errors
       \/ Stays
    /\ UNCHANGED <<session, drafts, wfRuns, recent>>

-----------------------------------------------------------------------------
(* upsert_managed_discussion: an error is told as the reply *)

(* The session's draft is loaded, and a plan made from it within two         *)
(* attempts.                                                                 *)
MakePlan(w) ==
    LET p == handlers[w] IN
    /\ p.step = "discuss"
    /\ \/ Tells(w) /\ Stays
       \/ /\ Now(w, [p EXCEPT !.step = "upsert", !.draft = p.session, !.session = 0,
                    !.revision = IF p.session = 0 THEN 0 ELSE drafts[p.session].revision])
          /\ UNCHANGED fates
    /\ UNCHANGED <<session, drafts, wfRuns, recent>>

(* save_workflow_draft counts on from the revision that was loaded.          *)
UpsertDraft(w) ==
    LET p == handlers[w] IN
    /\ p.step = "upsert" /\ p.revision < MaxRevisions
    /\ \/ Tells(w) /\ Stays /\ UNCHANGED drafts
       \/ /\ IF p.draft = 0
             THEN /\ Len(drafts) < MaxDrafts
                  /\ drafts' = Append(drafts, [status |-> "ready", revision |-> 1])
             ELSE drafts' = [drafts EXCEPT ![p.draft].status = "ready",
                                           ![p.draft].revision = p.revision + 1]
          /\ Now(w, [p EXCEPT !.draft = IF p.draft = 0 THEN Len(drafts) + 1 ELSE p.draft,
                              !.step = "keep", !.revision = 0])
          /\ UNCHANGED fates
    /\ UNCHANGED <<session, wfRuns, recent>>

(* draft_revisions gets its row, and the session is saved. *)
KeepSession(w) ==
    LET p == handlers[w] IN
    /\ p.step = "keep"
    /\ \/ session' = p.draft /\ UNCHANGED fates
       \/ Stays /\ UNCHANGED session
    /\ Tells(w)
    /\ UNCHANGED <<drafts, wfRuns, recent>>

(* A worker dies, alone or with the server, between any two statements.      *)
HandlerDies(w) ==
    LET p == handlers[w] IN
    /\ p.step # "idle" /\ Stays
    /\ Now(w, AtRestHandler)
    /\ IF p.step = "log" THEN wfRuns' = [wfRuns EXCEPT ![p.run].unlogged = TRUE]
       ELSE UNCHANGED wfRuns
    /\ UNCHANGED <<session, drafts, recent>>

HandlerStep(w) ==
    \/ Hear(w) \/ HearAgain(w) \/ RecoverMessage(w)
    \/ ReadSession(w) \/ AbandonDraft(w) \/ ClearSession(w)
    \/ CreateRun(w) \/ SavePlan(w) \/ CloseDiscussion(w) \/ PickLatest(w)
    \/ PrepareRun(w) \/ SaveStage(w) \/ LogStage(w) \/ AskModel(w) \/ Tell(w) \/ MarkDone(w)
    \/ MakePlan(w) \/ UpsertDraft(w) \/ KeepSession(w)
    \/ HandlerDies(w)

RunsNext ==
    \/ \E w \in RunWorkers : HandlerStep(w)
    \/ RequestRun

RunsSpec == RunsInit /\ [][RunsNext]_runVars

-----------------------------------------------------------------------------
(* Properties *)

(* Only a run with a plan leaves the planning stage, whichever of two        *)
(* overlapping confirmations executes it: a run without tasks is nobody's.   *)
ExecutedRunsHavePlans ==
    \A r \in DOMAIN wfRuns : wfRuns[r].stage \notin {"pending", "planning"} => wfRuns[r].plan

(* The stage a run shows has an event in its log, or is about to have one,   *)
(* unless one could not be written or its writer died: the run is saved      *)
(* before the event, by any of the workers that execute it.                  *)
StagesAreLogged ==
    \A r \in DOMAIN wfRuns :
       \/ wfRuns[r].unlogged
       \/ \E i \in DOMAIN wfRuns[r].events : wfRuns[r].events[i].to = wfRuns[r].stage
       \/ \E w \in RunWorkers : handlers[w].run = r /\ handlers[w].step = "log"

(* A draft that says it is running has a run with its plan, although the     *)
(* draft, the run and the plan are written one after the other.              *)
RunningDraftsHaveRuns ==
    \A d \in DOMAIN drafts :
       drafts[d].status = "running" =>
           \E r \in DOMAIN wfRuns : wfRuns[r].draft = d /\ wfRuns[r].plan

(* A confirmation makes no more runs than the times it was taken: by the     *)
(* managed handler, by the default one after it, and by every worker that    *)
(* recovers its receipt, with the session still active after any of them.    *)
RunsOf(m) == {r \in DOMAIN wfRuns : wfRuns[r].message = m}
EachTakeMakesOneRun ==
    \A m \in DOMAIN heard : Cardinality(RunsOf(m)) <= heard[m].taken

(* The drafts, runs, plans and events of a conversation agree, although each *)
(* is written by a statement of its own and two workers may hear the same    *)
(* confirmation. *)
RunsKeepToTheirPlans ==
    /\ ExecutedRunsHavePlans
    /\ StagesAreLogged
    /\ RunningDraftsHaveRuns
    /\ EachTakeMakesOneRun
=============================================================================
