--------------------------- MODULE PermissionGate ---------------------------
(***************************************************************************)
(* The agent permission store of the host (agent_permissions): pending     *)
(* approvals, the grants that resolving them creates, and the requests     *)
(* that are evaluated against them.                                        *)
(*                                                                         *)
(* Callers are the places that authorise an agent's request and then run   *)
(* it (command.exec, skill actions, action dispatch, provider generate):   *)
(* they evaluate, consume the grant they matched and execute, in three     *)
(* separate database steps.  Admins are the HTTP handlers that list,       *)
(* resolve and revoke.  Every SQL statement opens its own connection and   *)
(* commits by itself, so each is one atomic step and the handlers of       *)
(* different admins and callers interleave between them.                   *)
(***************************************************************************)
EXTENDS Naturals, Sequences, FiniteSets

CONSTANTS
    Requests,      \* permission requests agents make: records, see RequestType
    AskRequests,   \* those whose first matching policy rule says "ask"
    Callers,       \* concurrent executions that ask for permission
    Admins,        \* concurrent handlers of the approval and grant routes
    Resolutions,   \* the resolutions the clients of the approval route send
    NoRequest,     \* no request: an idle caller
    MaxApprovals,  \* bound on the rows of permission_approvals
    MaxGrants      \* bound on the rows of permission_grants

ASSUME GateAssumption ==
    /\ AskRequests \subseteq Requests
    /\ NoRequest \notin Requests
    /\ Resolutions \subseteq {"allow_once", "allow_reply_action",
                              "allow_conversation_all", "deny", "other"}
    /\ MaxApprovals \in Nat
    /\ MaxGrants \in Nat

(* Executions are tasks of one process: at no time are there infinitely many. *)
ASSUME CallersAreFinite == IsFiniteSet(Callers)

(* An optional column that is NULL. *)
Absent == "absent"

(* "place" stands for the extension, path and host of target and scope,    *)
(* which only a "once" grant compares.                                     *)
ASSUME RequestFields ==
    \A r \in Requests :
        DOMAIN r = {"agent", "action", "target", "place", "conversation", "message"}

VARIABLES
    approvals,  \* permission_approvals, by seq
    grants,     \* permission_grants, by seq
    call,       \* where each caller stands
    admin,      \* where each management handler stands
    spent       \* history: executions charged to each "once" grant

gateVars == <<approvals, grants, call, admin, spent>>

Statuses    == {"pending", "approved", "rejected", "expired"}
Modes       == {"once", "reply_action", "conversation_all"}

ApprovalRows == [request : Requests, status : Statuses, due : BOOLEAN]
GrantRows    == [approval : 1..MaxApprovals, mode : Modes, request : Requests,
                 consumed : BOOLEAN, revoked : BOOLEAN]
Calls        == [step : {"idle", "consume", "execute", "asked"},
                 request : Requests \cup {NoRequest},
                 grant : 0..MaxGrants, approval : 0..MaxApprovals]
AdminStates  == [step : {"idle", "update", "insert", "resolved", "revoke"},
                 id : Nat, resolution : Resolutions \cup {"none"}, status : Statuses]

(* Type correctness of the two tables and of every caller and handler.       *)
GateTypeOK ==
    /\ approvals \in Seq(ApprovalRows) /\ Len(approvals) <= MaxApprovals
    /\ grants \in Seq(GrantRows)       /\ Len(grants) <= MaxGrants
    /\ call \in [Callers -> Calls]
    /\ admin \in [Admins -> AdminStates]
    /\ spent \in [1..MaxGrants -> Nat]

IdleCall  == [step |-> "idle", request |-> NoRequest, grant |-> 0, approval |-> 0]
IdleAdmin == [step |-> "idle", id |-> 0, resolution |-> "none", status |-> "pending"]

GateInit ==
    /\ approvals = <<>>
    /\ grants = <<>>
    /\ call = [c \in Callers |-> IdleCall]
    /\ admin = [v \in Admins |-> IdleAdmin]
    /\ spent = [g \in 1..MaxGrants |-> 0]

-----------------------------------------------------------------------------
(* Matching a grant against a request. *)

SameConversation(p, r) == p.conversation # Absent /\ p.conversation = r.conversation

(* A mutant: a "once" grant is good in every conversation. *)
MatchesAnywhere(grant, r) ==
    LET p == grant.request IN p.agent = r.agent /\ p.action = r.action /\ p.target = r.target

GrantMatches(grant, r) ==
    LET p == grant.request IN
    /\ p.agent = r.agent
    /\ \/ /\ grant.mode = "once"
          /\ p.action = r.action /\ p.target = r.target /\ p.place = r.place
          /\ p.conversation = r.conversation /\ p.message = r.message
       \/ /\ grant.mode = "reply_action"
          /\ p.action = r.action /\ p.target = r.target
          /\ SameConversation(p, r)
          /\ p.message # Absent /\ p.message = r.message
       \/ /\ grant.mode = "conversation_all"
          /\ SameConversation(p, r)

(* A mutant: consumed_at is left out of the WHERE clause. *)
UsableUnlessRevoked(grant) == ~grant.revoked

Usable(grant) == ~grant.consumed /\ ~grant.revoked

Matching(r) == {g \in DOMAIN grants : Usable(grants[g]) /\ GrantMatches(grants[g], r)}

(* find_matching_grant reads the rows newest first. *)
Newest(S) == CHOOSE g \in S : \A h \in S : h <= g

-----------------------------------------------------------------------------
(* A caller: evaluate_request, consume_grant, then the execution. *)

(* A usable matching grant wins over the policy; otherwise the policy allows *)
(* or asks, and asking inserts a pending approval.                           *)
Evaluate(c, r) ==
    /\ call[c].step = "idle"
    /\ \/ /\ Matching(r) # {}
          /\ LET g == Newest(Matching(r)) IN
             call' = [call EXCEPT ![c] =
                        [step |-> "consume", request |-> r, grant |-> g,
                         approval |-> grants[g].approval]]
          /\ UNCHANGED approvals
       \/ /\ Matching(r) = {} /\ r \notin AskRequests
          /\ call' = [call EXCEPT ![c] =
                        [step |-> "execute", request |-> r, grant |-> 0, approval |-> 0]]
          /\ UNCHANGED approvals
       \/ /\ Matching(r) = {} /\ r \in AskRequests
          /\ Len(approvals) < MaxApprovals
          /\ approvals' = Append(approvals,
                                 [request |-> r, status |-> "pending", due |-> FALSE])
          /\ call' = [call EXCEPT ![c] =
                        [step |-> "asked", request |-> r, grant |-> 0,
                         approval |-> Len(approvals) + 1]]
    /\ UNCHANGED <<grants, admin, spent>>

(* A mutant: the UPDATE names the wrong mode. *)
ConsumeOther(c) ==
    /\ call[c].step = "consume"
    /\ LET g == call[c].grant IN
       grants' = [grants EXCEPT ![g].consumed = @ \/ grants[g].mode = "reply_action"]
    /\ call' = [call EXCEPT ![c].step = "execute"]
    /\ UNCHANGED <<approvals, admin, spent>>

(* The UPDATE only touches an unconsumed "once" row; how many rows it        *)
(* changed is not looked at, so the caller goes on either way.               *)
Consume(c) ==
    /\ call[c].step = "consume"
    /\ LET g == call[c].grant IN
       grants' = [grants EXCEPT ![g].consumed = @ \/ grants[g].mode = "once"]
    /\ call' = [call EXCEPT ![c].step = "execute"]
    /\ UNCHANGED <<approvals, admin, spent>>

(* The command, skill, rule or provider call runs; its outcome does not      *)
(* touch the permission store.                                               *)
Execute(c) ==
    /\ call[c].step = "execute"
    /\ LET g == call[c].grant IN
       spent' = IF g # 0 /\ grants[g].mode = "once"
                THEN [spent EXCEPT ![g] = @ + 1] ELSE spent
    /\ call' = [call EXCEPT ![c] = IdleCall]
    /\ UNCHANGED <<approvals, grants, admin>>

(* The caller that was asked reports the approval it waits for. *)
Report(c) ==
    /\ call[c].step = "asked"
    /\ call' = [call EXCEPT ![c] = IdleCall]
    /\ UNCHANGED <<approvals, grants, admin, spent>>

-----------------------------------------------------------------------------
(* The management routes. *)

(* Fifteen minutes pass and an approval's expires_at lies in the past. *)
FallDue(a) ==
    /\ a \in DOMAIN approvals
    /\ approvals[a].status = "pending" /\ ~approvals[a].due
    /\ approvals' = [approvals EXCEPT ![a].due = TRUE]
    /\ UNCHANGED <<grants, call, admin, spent>>

(* A mutant: the UPDATE forgets to ask for pending rows. *)
ExpiredEvenDecided ==
    [a \in DOMAIN approvals |->
        IF approvals[a].due THEN [approvals[a] EXCEPT !.status = "expired"] ELSE approvals[a]]

(* expire_pending_approvals, as every read of the approvals runs it first. *)
Expired ==
    [a \in DOMAIN approvals |->
        IF approvals[a].status = "pending" /\ approvals[a].due
        THEN [approvals[a] EXCEPT !.status = "expired"] ELSE approvals[a]]

ListApprovals ==
    /\ approvals' = Expired
    /\ UNCHANGED <<grants, call, admin, spent>>

(* resolve_approval up to its early return: an approval that is no longer    *)
(* pending is returned as it is.                                             *)
StartResolve(v, a, resolution) ==
    /\ admin[v].step = "idle"
    /\ a \in DOMAIN approvals
    /\ approvals' = Expired
    /\ admin' = [admin EXCEPT ![v] =
                   [step |-> IF Expired[a].status = "pending" THEN "update" ELSE "resolved",
                    id |-> a, resolution |-> resolution, status |-> Expired[a].status]]
    /\ UNCHANGED <<grants, call, spent>>

(* The UPDATE names the approval only: the status read before is not         *)
(* checked again.                                                            *)
UpdateApproval(v) ==
    /\ admin[v].step = "update"
    /\ LET status == IF admin[v].resolution = "deny" THEN "rejected" ELSE "approved" IN
       /\ approvals' = [approvals EXCEPT ![admin[v].id].status = status]
       /\ admin' = [admin EXCEPT
                      ![v].status = status,
                      ![v].step = IF admin[v].resolution \in {"deny", "other"}
                                  THEN "resolved" ELSE "insert"]
    /\ UNCHANGED <<grants, call, spent>>

(* A mutant: the resolution is stored as it came. *)
ModeUnconverted(resolution) == resolution

ModeOf(resolution) ==
    CASE resolution = "allow_reply_action" -> "reply_action"
      [] resolution = "allow_conversation_all" -> "conversation_all"
      [] OTHER -> "once"

InsertGrant(v) ==
    /\ admin[v].step = "insert"
    /\ Len(grants) < MaxGrants
    /\ grants' = Append(grants,
                        [approval |-> admin[v].id, mode |-> ModeOf(admin[v].resolution),
                         request |-> approvals[admin[v].id].request,
                         consumed |-> FALSE, revoked |-> FALSE])
    /\ admin' = [admin EXCEPT ![v].step = "resolved"]
    /\ UNCHANGED <<approvals, call, spent>>

(* The handler answers (in AgentOperations it first resumes or cancels). *)
Answer(v) ==
    /\ admin[v].step = "resolved"
    /\ admin' = [admin EXCEPT ![v] = IdleAdmin]
    /\ UNCHANGED <<approvals, grants, call, spent>>

Revoking(g) == [step |-> "revoke", id |-> g, resolution |-> "none", status |-> "pending"]

(* revoke_grant reads the row; one already consumed or revoked is left. *)
StartRevoke(v, g) ==
    /\ admin[v].step = "idle"
    /\ g \in DOMAIN grants
    /\ Usable(grants[g])
    /\ admin' = [admin EXCEPT ![v] = Revoking(g)]
    /\ UNCHANGED <<approvals, grants, call, spent>>

(* A mutant: the row that was read, not consumed yet, is written back. *)
WriteBackRevoked(v) ==
    /\ admin[v].step = "revoke"
    /\ grants' = [grants EXCEPT ![admin[v].id].revoked = TRUE, ![admin[v].id].consumed = FALSE]
    /\ admin' = [admin EXCEPT ![v] = IdleAdmin]
    /\ UNCHANGED <<approvals, call, spent>>

UpdateRevoked(v) ==
    /\ admin[v].step = "revoke"
    /\ LET g == admin[v].id IN
       grants' = [grants EXCEPT ![g].revoked = @ \/ Usable(grants[g])]
    /\ admin' = [admin EXCEPT ![v] = IdleAdmin]
    /\ UNCHANGED <<approvals, call, spent>>

-----------------------------------------------------------------------------
CallerNext == \E c \in Callers :
    \/ \E r \in Requests : Evaluate(c, r)
    \/ Consume(c)
    \/ Execute(c)
    \/ Report(c)

AdminNext ==
    \/ ListApprovals
    \/ \E a \in 1..MaxApprovals : FallDue(a)
    \/ \E v \in Admins :
        \/ \E a \in 1..MaxApprovals, resolution \in Resolutions :
              StartResolve(v, a, resolution)
        \/ UpdateApproval(v)
        \/ InsertGrant(v)
        \/ Answer(v)
        \/ \E g \in 1..MaxGrants : StartRevoke(v, g)
        \/ UpdateRevoked(v)

GateNext == CallerNext \/ AdminNext

GateSpec == GateInit /\ [][GateNext]_gateVars

-----------------------------------------------------------------------------
(* Properties. *)

Decided(a) == approvals[a].status \in {"approved", "rejected"}

(* resolve_approval: a grant is only ever inserted for an approval that has *)
(* been decided, and it carries that approval's request: an approval that   *)
(* is still pending or has expired authorises nothing.                      *)
GrantsComeFromDecisions ==
    \A g \in DOMAIN grants :
        LET a == grants[g].approval IN
        /\ a \in DOMAIN approvals
        /\ Decided(a)
        /\ grants[g].request = approvals[a].request

(* evaluate_request: a request the policy asks about is executed only when  *)
(* an approval was decided for the same agent in the same conversation, and *)
(* for the same action and target unless the whole conversation was         *)
(* released.                                                                *)
AskedRunsAreApproved ==
    \A c \in Callers :
        LET r == call[c].request IN
        call[c].step = "execute" /\ r \in AskRequests =>
            \E a \in DOMAIN approvals : \E g \in DOMAIN grants :
                LET p == approvals[a].request IN
                /\ Decided(a) /\ grants[g].approval = a
                /\ p.agent = r.agent /\ p.conversation = r.conversation
                /\ \/ grants[g].mode = "conversation_all"
                   \/ p.action = r.action /\ p.target = r.target /\ p.message = r.message

(* consume_grant comes before the execution: whoever runs on a "once" grant *)
(* has marked it consumed, so a crash after the run cannot bring it back.   *)
OnceIsConsumedBeforeTheRun ==
    \A g \in DOMAIN grants :
        grants[g].mode = "once"
            /\ (spent[g] > 0 \/ \E c \in Callers : call[c].step = "execute" /\ call[c].grant = g)
        => grants[g].consumed

Holding(g) == {c \in Callers : call[c].step \in {"consume", "execute"} /\ call[c].grant = g}

(* evaluate_request and consume_grant are two steps, so a "once" grant may  *)
(* be matched by several callers before the first of them consumes it; all  *)
(* its executions, past and under way, still number at most one per         *)
(* concurrent caller.                                                       *)
OnceOveruseIsBounded ==
    \A g \in DOMAIN grants :
        grants[g].mode = "once" =>
            spent[g] + Cardinality(Holding(g)) <= Cardinality(Callers)

(* Every UPDATE of the two tables: no row disappears or changes its request, *)
(* a decided approval is never pending or expired again, and a grant that is *)
(* consumed or revoked stays so.                                             *)
HistoryIsFinal == [][
    /\ \A a \in DOMAIN approvals :
        /\ a \in DOMAIN approvals' /\ approvals'[a].request = approvals[a].request
        /\ Decided(a) => Decided(a)'
    /\ \A g \in DOMAIN grants :
        /\ g \in DOMAIN grants' /\ grants'[g].request = grants[g].request
        /\ grants[g].consumed => grants'[g].consumed
        /\ grants[g].revoked => grants'[g].revoked ]_gateVars

(* architecture.md:46, "single release": a "once" grant lets one execution  *)
(* through.                                                                 *)
OnceGrantRunsOnce == \A g \in DOMAIN grants : grants[g].mode = "once" => spent[g] <= 1
=============================================================================
