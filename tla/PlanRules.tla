------------------------------ MODULE PlanRules ------------------------------
(***************************************************************************)
(* The plan of a discussion (workflow-service/src/planning): what the      *)
(* model writes is parsed, normalised and validated, a second time if it   *)
(* has to be, and the steps of an accepted plan become the tasks of a run. *)
(***************************************************************************)
EXTENDS Naturals, Sequences, SequencesExt

CONSTANTS
    StepTypes,    \* step types a model writes
    MaxSteps,     \* bound on the steps of a plan
    PlanTools     \* what a model writes as a tool; "" and "*" are not concrete

ASSUME PlanAssumption == MaxSteps \in Nat

Attempts == 2
NoPlan   == [schema |-> "none"]

(* What a model may write.  Every step has the same tool and, besides the    *)
(* first one, no agent of its own.                                           *)
Step(type, tool, agent) == [type |-> type, tool |-> tool, agent |-> agent]
WrittenSteps(n, types, tool, agent) ==
    [i \in 1..n |-> Step(types[i], tool, IF i = 1 THEN agent ELSE "")]
PlansOf(n) ==
    { [schema |-> schema, intent |-> intent, status |-> status, contract |-> "none",
       steps |-> WrittenSteps(n, types, tool, agent)] :
         types \in [1..n -> StepTypes], tool \in PlanTools, agent \in {"", "other"},
         schema \in {"", "1.0", "2.0"}, status \in {"", "draft"},
         intent \in {"", "code_change", "search_online", "information"} }
WrittenPlans == UNION {PlansOf(n) : n \in 0..MaxSteps}

VARIABLES
    attempt,   \* answers of the model so far
    written,   \* the plan it wrote, when that was accepted
    draft,     \* the plan that was accepted
    tasks      \* the tasks of the run made of it

planVars == <<attempt, written, draft, tasks>>

PlanInit == attempt = 0 /\ written = NoPlan /\ draft = NoPlan /\ tasks = <<>>

-----------------------------------------------------------------------------
(* Normalisation *)

(* normalize_step_type *)
StepType(type) ==
    CASE type = ""                                                    -> "execute"
      [] type \in {"search", "search_remote"}                         -> "search_online"
      [] type = "local_search"                                        -> "search_local"
      [] type \in {"baseline", "baseline_check", "baseline_verification"} -> "baseline_verify"
      [] type \in {"validation", "verify"}                            -> "validate"
      [] OTHER                                                        -> type

Searches == {"search", "search_remote", "search_online", "search_local"}  \* starts_with("search")

Types(plan) == {plan.steps[i].type : i \in DOMAIN plan.steps}

(* infer_intent, of the types as they were written *)
InferIntent(plan) ==
    IF Types(plan) \cap Searches # {} THEN "search_online"
    ELSE IF Types(plan) \cap {"baseline_verify", "change", "write"} # {} THEN "code_change"
    ELSE "mixed"

(* default_verify_contract: what the contract asks for. *)
VerifyContract(intent) == IF intent \in {"code_change", "cloud_change", "mixed"} THEN "baseline"
                          ELSE IF intent = "search_online" THEN "evidence"
                          ELSE "effect"

(* normalize_plan *)
NormalIntent(plan) == IF plan.intent = "" THEN InferIntent(plan) ELSE plan.intent
NormalStep(step) == Step(StepType(step.type), step.tool, step.agent)
Normalize(plan) ==
    [schema   |-> IF plan.schema \in {"", "1.0"} THEN "3.0" ELSE plan.schema,
     intent   |-> NormalIntent(plan),
     status   |-> IF plan.status = "" THEN "ready" ELSE plan.status,
     contract |-> IF plan.contract = "none" THEN VerifyContract(NormalIntent(plan))
                  ELSE plan.contract,
     steps    |-> [i \in DOMAIN plan.steps |-> NormalStep(plan.steps[i])]]

-----------------------------------------------------------------------------
(* Validation *)

(* collect_concrete_tools *)
ConcreteTools(plan) == {plan.steps[i].tool : i \in DOMAIN plan.steps} \ {"", "*"}

First(plan, types) == SelectInSeq(plan.steps, LAMBDA s : s.type \in types)
Mutations == {"execute", "change", "write", "cloud_change"}

(* A mutant: a baseline anywhere will do. *)
ReadyAnyOrder(plan) ==
    /\ plan.schema = "3.0" /\ plan.steps # <<>> /\ plan.status = "ready"
    /\ ConcreteTools(plan) # {}
    /\ plan.intent \in {"code_change", "cloud_change", "mixed"}
          => First(plan, {"baseline_verify"}) # 0

(* validate_plan *)
Ready(plan) ==
    /\ plan.schema = "3.0" /\ plan.steps # <<>> /\ plan.status = "ready"
    /\ plan.contract # "none" /\ ConcreteTools(plan) # {}
    /\ plan.intent \in {"code_change", "cloud_change", "mixed"}
          => /\ First(plan, {"baseline_verify"}) # 0
             /\ First(plan, Mutations) # 0
                   => First(plan, {"baseline_verify"}) < First(plan, Mutations)
    /\ (plan.intent = "search_online" \/ Types(plan) \cap Searches # {})
          => Types(plan) \cap {"search_online", "search_local", "search"} # {}

-----------------------------------------------------------------------------
(* The discussion *)

MayWrite == attempt < Attempts /\ draft = NoPlan

(* parse_plan_from_text finds no plan in the answer.                         *)
WriteNothing ==
    /\ MayWrite
    /\ attempt' = attempt + 1
    /\ UNCHANGED <<written, draft, tasks>>

(* generate_draft_plan: a plan that is ready ends the attempts. *)
WritePlanText(plan) ==
    /\ attempt' = attempt + 1
    /\ IF Ready(Normalize(plan)) THEN written' = plan /\ draft' = Normalize(plan)
       ELSE UNCHANGED <<written, draft>>
    /\ UNCHANGED tasks

(* derive_tasks_from_plan, when the plan is saved with a run.                *)
DeriveTasks(default) ==
    /\ draft # NoPlan /\ tasks = <<>>
    /\ tasks' = [i \in DOMAIN draft.steps |->
                   IF draft.steps[i].agent = "" THEN default ELSE draft.steps[i].agent]
    /\ UNCHANGED <<attempt, written, draft>>

(* The next message of the discussion, after a plan or its failure.          *)
Revise ==
    /\ tasks # <<>> \/ (draft = NoPlan /\ attempt = Attempts)
    /\ attempt' = 0 /\ written' = NoPlan /\ draft' = NoPlan /\ tasks' = <<>>

PlanNext ==
    \/ WriteNothing
    \/ MayWrite /\ \E plan \in WrittenPlans : WritePlanText(plan)
    \/ DeriveTasks("agent")
    \/ Revise

PlanSpec == PlanInit /\ [][PlanNext]_planVars

-----------------------------------------------------------------------------
(* Properties *)

(* A plan that is normalised again, as when a stored draft is revised, stays *)
(* as it is: the contract and the intent that were derived are kept even if  *)
(* the types they were derived from have been renamed.                       *)
NormalizeIsIdempotent == draft # NoPlan => Normalize(draft) = draft /\ Ready(draft)

(* A plan whose intent nobody gave and that searches nothing has a baseline  *)
(* before its first change, however the steps were called: inference from    *)
(* the written names never lets a change past the baseline.                  *)
UndeclaredChangesAreVerified ==
    (/\ draft # NoPlan /\ written.intent = ""
     /\ Types(written) \cap Searches = {}
     /\ First(draft, Mutations) # 0)
    => /\ First(draft, {"baseline_verify"}) # 0
       /\ First(draft, {"baseline_verify"}) < First(draft, Mutations)

(* A run can be resumed by the agent of its discussion as soon as one step   *)
(* names no other agent.                                                     *)
TasksCanBeResumed ==
    tasks # <<>> /\ (\E i \in DOMAIN draft.steps : draft.steps[i].agent = "")
      => \E i \in DOMAIN tasks : tasks[i] = "agent"

(* A plan that validate_plan accepts can be stored and read again as it is,  *)
(* verifies before it changes, and makes tasks somebody can resume. *)
AcceptedPlansAreSound ==
    /\ NormalizeIsIdempotent
    /\ UndeclaredChangesAreVerified
    /\ TasksCanBeResumed
=============================================================================
