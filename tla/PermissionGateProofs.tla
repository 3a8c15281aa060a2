------------------------ MODULE PermissionGateProofs ------------------------
(***************************************************************************)
(* Theorems about PermissionGate, for every set of requests, callers,      *)
(* handlers and every size of the two tables.                              *)
(***************************************************************************)
EXTENDS PermissionGate, SequenceTheorems, FiniteSetTheorems, WellFoundedInduction, TLAPS

-----------------------------------------------------------------------------
(* Tables: a sequence of rows that grows at its end and is updated in place. *)

(* A table is a function on 1..Len whose values are rows. *)
LEMMA TableRows ==
    ASSUME NEW S, NEW t \in Seq(S)
    PROVE  /\ Len(t) \in Nat
           /\ DOMAIN t = 1..Len(t)
           /\ \A i \in DOMAIN t : t[i] \in S
  BY LenProperties

(* INSERT keeps every row and adds one. *)
LEMMA TableInsert ==
    ASSUME NEW S, NEW t \in Seq(S), NEW e \in S
    PROVE  /\ Append(t, e) \in Seq(S)
           /\ Len(Append(t, e)) = Len(t) + 1
           /\ DOMAIN Append(t, e) = 1..(Len(t) + 1)
           /\ \A i \in DOMAIN t : Append(t, e)[i] = t[i]
           /\ Append(t, e)[Len(t) + 1] = e
  OBVIOUS

(* An UPDATE of any set of rows keeps their number. *)
LEMMA TableUpdate ==
    ASSUME NEW S, NEW t \in Seq(S), NEW f \in [DOMAIN t -> S]
    PROVE  f \in Seq(S) /\ Len(f) = Len(t) /\ DOMAIN f = DOMAIN t
  <1>1. f \in [1..Len(t) -> S] /\ Len(t) \in Nat
    BY LenProperties
  <1>2. f \in Seq(S)
    BY <1>1
  <1> QED
    BY <1>1, <1>2, LenProperties

(* The newest of a set of rows is one of them. *)
LEMMA NewestExists ==
    ASSUME NEW n \in Nat, NEW S \in SUBSET (1..n), S # {}
    PROVE  Newest(S) \in S
  <1> DEFINE T == {n - g : g \in S}
  <1>1. T \subseteq Nat /\ T # {}
    <2>1. ASSUME NEW g \in S PROVE n - g \in Nat
      OBVIOUS
    <2> QED BY <2>1
  <1>2. PICK t \in T : \A u \in T : ~(u < t)
    <2> HIDE DEF T
    <2>1. \E t \in T : \A u \in T : <<u, t>> \notin OpToRel(<, Nat)
      BY <1>1, WFMin, NatLessThanWellFounded, Zenon
    <2>2. \A t, u \in T : u < t => <<u, t>> \in OpToRel(<, Nat)
      BY <1>1 DEF OpToRel
    <2> QED BY <2>1, <2>2
  <1>4. PICK g \in S : t = n - g
    OBVIOUS
  <1>5. \A h \in S : h <= g
    <2>1. ASSUME NEW h \in S PROVE h <= g
      <3>1. n - h \in T
        OBVIOUS
      <3>2. ~(n - h < n - g)
        BY <3>1, <1>2, <1>4
      <3> QED BY <3>2
    <2> QED BY <2>1
  <1> QED
    BY <1>5 DEF Newest

-----------------------------------------------------------------------------
(* Type correctness. *)

(* The rows a handler names exist, and it inserts grants of decided         *)
(* approvals only.                                                          *)
AdminRefs ==
    \A v \in Admins :
        /\ admin[v].step \in {"update", "insert"} => admin[v].id \in DOMAIN approvals
        /\ admin[v].step = "insert" => Decided(admin[v].id)
        /\ admin[v].step = "revoke" => admin[v].id \in DOMAIN grants

(* What the type invariant says of the rows. *)
LEMMA RowsOfTheTables ==
    ASSUME GateTypeOK
    PROVE  /\ Len(approvals) \in Nat /\ DOMAIN approvals = 1..Len(approvals)
           /\ \A a \in DOMAIN approvals : approvals[a] \in ApprovalRows
           /\ Len(grants) \in Nat /\ DOMAIN grants = 1..Len(grants)
           /\ \A g \in DOMAIN grants : grants[g] \in GrantRows
  BY TableRows DEF GateTypeOK

(* Callers: what evaluating, consuming and executing leave behind. *)
LEMMA CallerTypeStep ==
    ASSUME GateTypeOK, CallerNext
    PROVE  GateTypeOK'
  <1> USE GateAssumption
  <1>1. PICK c \in Callers : \/ \E r \in Requests : Evaluate(c, r)
                             \/ Consume(c) \/ Execute(c) \/ Report(c)
    BY DEF CallerNext
  <1>2. IdleCall \in Calls
    BY DEF IdleCall, Calls
  <1>3. call[c] \in Calls /\ call \in [Callers -> Calls]
    BY DEF GateTypeOK
  <1>4. ASSUME NEW r \in Requests, Evaluate(c, r)
        PROVE  GateTypeOK'
    <2>1. CASE Matching(r) # {}
      <3> DEFINE g == Newest(Matching(r))
                 next == [step |-> "consume", request |-> r, grant |-> g,
                          approval |-> grants[g].approval]
      <3>1. g \in Matching(r)
        BY <2>1, NewestExists, RowsOfTheTables DEF Matching
      <3>2. g \in 1..Len(grants) /\ grants[g] \in GrantRows
        BY <3>1, RowsOfTheTables DEF Matching
      <3>3. g \in 0..MaxGrants /\ grants[g].approval \in 0..MaxApprovals
        BY <3>2, RowsOfTheTables DEF GateTypeOK, GrantRows
      <3>4. next \in Calls
        BY <3>3 DEF Calls
      <3>5. call' = [call EXCEPT ![c] = next] /\ UNCHANGED <<approvals, grants, admin, spent>>
        BY <2>1, <1>4 DEF Evaluate
      <3> HIDE DEF next
      <3>6. call' \in [Callers -> Calls]
        BY <3>4, <3>5, <1>3
      <3> QED BY <3>5, <3>6 DEF GateTypeOK
    <2>2. CASE Matching(r) = {} /\ r \notin AskRequests
      <3>1. [step |-> "execute", request |-> r, grant |-> 0, approval |-> 0] \in Calls
        BY DEF Calls
      <3> QED BY <3>1, <2>2, <1>3, <1>4 DEF Evaluate, GateTypeOK
    <2>3. CASE Matching(r) = {} /\ r \in AskRequests
      <3> DEFINE row == [request |-> r, status |-> "pending", due |-> FALSE]
                 next == [step |-> "asked", request |-> r, grant |-> 0,
                          approval |-> Len(approvals) + 1]
      <3>1. /\ Len(approvals) < MaxApprovals
            /\ approvals' = Append(approvals, row)
            /\ call' = [call EXCEPT ![c] = next]
            /\ UNCHANGED <<grants, admin, spent>>
        BY <2>3, <1>4 DEF Evaluate
      <3>2. row \in ApprovalRows
        BY DEF ApprovalRows, Statuses
      <3>3. next \in Calls
        BY <3>1, RowsOfTheTables DEF Calls
      <3> HIDE DEF row, next
      <3>4. approvals' \in Seq(ApprovalRows) /\ Len(approvals') <= MaxApprovals
        BY <3>1, <3>2, TableInsert, RowsOfTheTables DEF GateTypeOK
      <3>5. call' \in [Callers -> Calls]
        BY <3>1, <3>3, <1>3
      <3> QED BY <3>1, <3>4, <3>5 DEF GateTypeOK
    <2> QED BY <2>1, <2>2, <2>3
  <1>5. ASSUME Consume(c)
        PROVE  GateTypeOK'
    <2> DEFINE g == call[c].grant
    <2>1. grants' = [grants EXCEPT ![g].consumed = @ \/ grants[g].mode = "once"]
      BY <1>5 DEF Consume
    <2>2. grants' \in [DOMAIN grants -> GrantRows]
      BY <2>1, RowsOfTheTables DEF GrantRows
    <2>3. grants' \in Seq(GrantRows) /\ Len(grants') <= MaxGrants
      BY <2>2, TableUpdate DEF GateTypeOK
    <2>4. [call[c] EXCEPT !.step = "execute"] \in Calls
      BY <1>3 DEF Calls
    <2>5. call' \in [Callers -> Calls]
      BY <2>4, <1>3, <1>5 DEF Consume
    <2> QED BY <2>3, <2>5, <1>5 DEF Consume, GateTypeOK
  <1>6. ASSUME Execute(c)
        PROVE  GateTypeOK'
    <2>1. call[c].grant \in 0..MaxGrants
      BY <1>3 DEF Calls
    <2>3. spent' \in [1..MaxGrants -> Nat]
      BY <2>1, <1>6 DEF Execute, GateTypeOK
    <2>2. call' \in [Callers -> Calls]
      BY <1>2, <1>3, <1>6 DEF Execute
    <2> QED BY <2>2, <2>3, <1>6 DEF Execute, GateTypeOK
  <1>7. ASSUME Report(c)
        PROVE  GateTypeOK'
    BY <1>2, <1>3, <1>7 DEF Report, GateTypeOK
  <1> QED
    BY <1>1, <1>4, <1>5, <1>6, <1>7

(* Handlers: what listing, resolving and revoking leave behind. *)
LEMMA ExpiredRows ==
    ASSUME GateTypeOK
    PROVE  /\ Expired \in Seq(ApprovalRows) /\ Len(Expired) = Len(approvals)
           /\ \A a \in DOMAIN approvals :
                /\ Expired[a].request = approvals[a].request
                /\ Expired[a].status # approvals[a].status =>
                        approvals[a].status = "pending" /\ Expired[a].status = "expired"
  <1>1. Expired \in [DOMAIN approvals -> ApprovalRows]
    BY RowsOfTheTables DEF Expired, ApprovalRows, Statuses
  <1>2. Expired \in Seq(ApprovalRows) /\ Len(Expired) = Len(approvals)
    BY <1>1, TableUpdate DEF GateTypeOK
  <1>3. ASSUME NEW a \in DOMAIN approvals
        PROVE  /\ Expired[a].request = approvals[a].request
               /\ Expired[a].status # approvals[a].status =>
                        approvals[a].status = "pending" /\ Expired[a].status = "expired"
    BY RowsOfTheTables DEF Expired, ApprovalRows
  <1> QED BY <1>2, <1>3

LEMMA AdminTypeStep ==
    ASSUME GateTypeOK, AdminRefs, AdminNext
    PROVE  GateTypeOK'
  <1> USE GateAssumption
  <1>1. IdleAdmin \in AdminStates
    BY DEF IdleAdmin, AdminStates, Statuses
  <1>2. ASSUME ListApprovals PROVE GateTypeOK'
    BY <1>2, ExpiredRows DEF ListApprovals, GateTypeOK
  <1>3. ASSUME NEW a \in 1..MaxApprovals, FallDue(a)
        PROVE  GateTypeOK'
    <2>1. approvals' \in [DOMAIN approvals -> ApprovalRows]
      BY <1>3, RowsOfTheTables DEF FallDue, ApprovalRows
    <2>2. approvals' \in Seq(ApprovalRows) /\ Len(approvals') <= MaxApprovals
      BY <2>1, TableUpdate DEF GateTypeOK
    <2> QED BY <2>2, <1>3 DEF FallDue, GateTypeOK
  <1>4. ASSUME NEW v \in Admins,
               \/ \E a \in 1..MaxApprovals, resolution \in Resolutions :
                     StartResolve(v, a, resolution)
               \/ UpdateApproval(v) \/ InsertGrant(v) \/ Answer(v)
               \/ \E g \in 1..MaxGrants : StartRevoke(v, g)
               \/ UpdateRevoked(v)
        PROVE  GateTypeOK'
    <2>1. admin[v] \in AdminStates /\ admin \in [Admins -> AdminStates]
      BY DEF GateTypeOK
    <2>2. ASSUME NEW a \in 1..MaxApprovals, NEW resolution \in Resolutions,
                 StartResolve(v, a, resolution)
          PROVE  GateTypeOK'
      <3>1. Expired[a] \in ApprovalRows
        BY <2>2, ExpiredRows, RowsOfTheTables, ElementOfSeq DEF StartResolve
      <3>2. admin' \in [Admins -> AdminStates]
        BY <3>1, <2>1, <2>2 DEF StartResolve, AdminStates, ApprovalRows
      <3> QED BY <3>2, <2>2, ExpiredRows DEF StartResolve, GateTypeOK
    <2>3. ASSUME UpdateApproval(v) PROVE GateTypeOK'
      <3> DEFINE status == IF admin[v].resolution = "deny" THEN "rejected" ELSE "approved"
                 step == IF admin[v].resolution \in {"deny", "other"}
                         THEN "resolved" ELSE "insert"
      <3>1. /\ approvals' = [approvals EXCEPT ![admin[v].id].status = status]
            /\ admin' = [admin EXCEPT ![v].status = status, ![v].step = step]
            /\ UNCHANGED <<grants, call, spent>>
        BY <2>3 DEF UpdateApproval
      <3>2. status \in Statuses /\ step \in {"resolved", "insert"}
        BY DEF Statuses
      <3> HIDE DEF status, step
      <3>3. approvals' \in [DOMAIN approvals -> ApprovalRows]
        BY <3>1, <3>2, RowsOfTheTables DEF ApprovalRows
      <3>4. approvals' \in Seq(ApprovalRows) /\ Len(approvals') <= MaxApprovals
        BY <3>3, TableUpdate DEF GateTypeOK
      <3>5. admin' \in [Admins -> AdminStates]
        BY <3>1, <3>2, <2>1 DEF AdminStates
      <3> QED BY <3>1, <3>4, <3>5 DEF GateTypeOK
    <2>4. ASSUME InsertGrant(v) PROVE GateTypeOK'
      <3> DEFINE a == admin[v].id
                 row == [approval |-> a, mode |-> ModeOf(admin[v].resolution),
                         request |-> approvals[a].request,
                         consumed |-> FALSE, revoked |-> FALSE]
      <3>1. /\ Len(grants) < MaxGrants
            /\ grants' = Append(grants, row)
            /\ admin' = [admin EXCEPT ![v].step = "resolved"]
            /\ UNCHANGED <<approvals, call, spent>>
        BY <2>4 DEF InsertGrant
      <3>2. a \in 1..MaxApprovals /\ approvals[a] \in ApprovalRows
        BY <2>4, RowsOfTheTables DEF InsertGrant, AdminRefs, GateTypeOK
      <3>3. row \in GrantRows
        BY <3>2 DEF GrantRows, ApprovalRows, ModeOf, Modes
      <3> HIDE DEF row
      <3>4. grants' \in Seq(GrantRows) /\ Len(grants') <= MaxGrants
        BY <3>1, <3>3, TableInsert, RowsOfTheTables DEF GateTypeOK
      <3>5. admin' \in [Admins -> AdminStates]
        BY <3>1, <2>1 DEF AdminStates
      <3> QED BY <3>1, <3>4, <3>5 DEF GateTypeOK
    <2>5. ASSUME Answer(v) PROVE GateTypeOK'
      BY <2>5, <2>1, <1>1 DEF Answer, GateTypeOK
    <2>6. ASSUME NEW g \in 1..MaxGrants, StartRevoke(v, g) PROVE GateTypeOK'
      <3>1. Revoking(g) \in AdminStates
        BY DEF Revoking, AdminStates, Statuses
      <3> QED BY <3>1, <2>6, <2>1 DEF StartRevoke, GateTypeOK
    <2>7. ASSUME UpdateRevoked(v) PROVE GateTypeOK'
      <3> DEFINE id == admin[v].id
                 revoked == grants[id].revoked \/ Usable(grants[id])
      <3>1. grants' \in [DOMAIN grants -> GrantRows]
        <4>1. grants' = [grants EXCEPT ![id].revoked = revoked]
          BY <2>7 DEF UpdateRevoked
        <4>2. id \in DOMAIN grants => revoked \in BOOLEAN
          BY RowsOfTheTables, Zenon DEF GrantRows, Usable
        <4> HIDE DEF revoked
        <4> QED BY <4>1, <4>2, RowsOfTheTables DEF GrantRows
      <3>2. grants' \in Seq(GrantRows) /\ Len(grants') <= MaxGrants
        BY <3>1, TableUpdate DEF GateTypeOK
      <3> QED BY <3>2, <2>7, <2>1, <1>1 DEF UpdateRevoked, GateTypeOK
    <2> QED BY <1>4, <2>2, <2>3, <2>4, <2>5, <2>6, <2>7
  <1> QED
    BY <1>2, <1>3, <1>4 DEF AdminNext

-----------------------------------------------------------------------------
(* What a step does to the two tables. *)

ApprovalsKept ==
    \A a \in DOMAIN approvals :
        /\ a \in DOMAIN approvals'
        /\ approvals'[a].request = approvals[a].request
        /\ Decided(a) => Decided(a)'

GrantsKept ==
    \A g \in DOMAIN grants :
        /\ g \in DOMAIN grants'
        /\ grants'[g].request = grants[g].request
        /\ grants'[g].approval = grants[g].approval
        /\ grants'[g].mode = grants[g].mode
        /\ grants[g].consumed => grants'[g].consumed
        /\ grants[g].revoked => grants'[g].revoked

GrantsInserted ==
    \A g \in DOMAIN grants' \ DOMAIN grants :
        /\ g = Len(grants) + 1
        /\ \E v \in Admins : /\ admin[v].step = "insert"
                             /\ grants'[g].approval = admin[v].id
                             /\ grants'[g].request = approvals[admin[v].id].request

LEMMA ApprovalsKeptByEachStep ==
    ASSUME GateTypeOK, AdminRefs, [GateNext]_gateVars
    PROVE  ApprovalsKept
  <1>0. CASE UNCHANGED approvals
    BY <1>0 DEF ApprovalsKept, Decided
  <1>1. ASSUME NEW r \in Requests, NEW c \in Callers, Evaluate(c, r)
        PROVE  ApprovalsKept
    <2> DEFINE row == [request |-> r, status |-> "pending", due |-> FALSE]
    <2>1. CASE approvals' = Append(approvals, row)
      <3>1. row \in ApprovalRows
        BY DEF ApprovalRows, Statuses
      <3> HIDE DEF row
      <3>2. \A a \in DOMAIN approvals : a \in DOMAIN approvals' /\ approvals'[a] = approvals[a]
        BY <2>1, <3>1, TableInsert, RowsOfTheTables DEF GateTypeOK
      <3> QED BY <3>2 DEF ApprovalsKept, Decided
    <2> QED BY <2>1, <1>0, <1>1 DEF Evaluate
  <1>2. CASE approvals' = Expired
    BY <1>2, ExpiredRows, RowsOfTheTables, TableRows DEF ApprovalsKept, Decided
  <1>3. ASSUME NEW a \in 1..MaxApprovals, FallDue(a)
        PROVE  ApprovalsKept
    BY <1>3, RowsOfTheTables DEF FallDue, ApprovalsKept, Decided, ApprovalRows
  <1>4. ASSUME NEW v \in Admins, UpdateApproval(v)
        PROVE  ApprovalsKept
    BY <1>4, RowsOfTheTables DEF UpdateApproval, ApprovalsKept, Decided, ApprovalRows
  <1> QED
    BY <1>0, <1>1, <1>2, <1>3, <1>4
    DEF GateNext, CallerNext, AdminNext, gateVars, Consume, Execute, Report, ListApprovals,
        StartResolve, InsertGrant, Answer, StartRevoke, UpdateRevoked

LEMMA GrantsKeptByEachStep ==
    ASSUME GateTypeOK, AdminRefs, [GateNext]_gateVars
    PROVE  GrantsKept /\ GrantsInserted
  <1>0. CASE UNCHANGED grants
    BY <1>0 DEF GrantsKept, GrantsInserted
  <1>1. ASSUME NEW c \in Callers, Consume(c)
        PROVE  GrantsKept /\ GrantsInserted
    BY <1>1, RowsOfTheTables DEF Consume, GrantsKept, GrantsInserted, GrantRows
  <1>2. ASSUME NEW v \in Admins, InsertGrant(v)
        PROVE  GrantsKept /\ GrantsInserted
    <2> DEFINE id == admin[v].id
               row == [approval |-> id, mode |-> ModeOf(admin[v].resolution),
                       request |-> approvals[id].request,
                       consumed |-> FALSE, revoked |-> FALSE]
    <2>1. grants' = Append(grants, row) /\ admin[v].step = "insert"
      BY <1>2 DEF InsertGrant
    <2>2. id \in 1..MaxApprovals /\ approvals[id] \in ApprovalRows
      BY <2>1, RowsOfTheTables, GateAssumption DEF AdminRefs, GateTypeOK
    <2>3. row \in GrantRows
      BY <2>2 DEF GrantRows, ApprovalRows, ModeOf, Modes
    <2>4. row.approval = id /\ row.request = approvals[id].request
      OBVIOUS
    <2> HIDE DEF row
    <2>5. /\ DOMAIN grants' = 1..(Len(grants) + 1)
          /\ \A g \in DOMAIN grants : grants'[g] = grants[g]
          /\ grants'[Len(grants) + 1] = row
      BY <2>1, <2>3, TableInsert DEF GateTypeOK
    <2> QED BY <2>1, <2>4, <2>5, RowsOfTheTables DEF GrantsKept, GrantsInserted
  <1>3. ASSUME NEW v \in Admins, UpdateRevoked(v)
        PROVE  GrantsKept /\ GrantsInserted
    BY <1>3, RowsOfTheTables DEF UpdateRevoked, GrantsKept, GrantsInserted, GrantRows
  <1> QED
    BY <1>0, <1>1, <1>2, <1>3
    DEF GateNext, CallerNext, AdminNext, gateVars, Evaluate, Execute, Report, ListApprovals,
        FallDue, StartResolve, UpdateApproval, Answer, StartRevoke

-----------------------------------------------------------------------------
(* The inductive invariant. *)

(* A caller that matched a grant names one of the table; what it runs for an *)
(* asked request is covered by that grant; and nothing was charged to a      *)
(* grant that does not exist yet.                                            *)
CallRefs ==
    \A c \in Callers :
        /\ call[c].grant # 0 => call[c].grant \in DOMAIN grants
        /\ call[c].step = "consume" => call[c].grant # 0
        /\ call[c].step \in {"consume", "execute"} /\ call[c].request \in AskRequests =>
              /\ call[c].grant # 0
              /\ GrantMatches(grants[call[c].grant], call[c].request)

SpentRefs == \A g \in 1..MaxGrants : spent[g] > 0 => g \in DOMAIN grants

GateInv ==
    /\ GateTypeOK
    /\ AdminRefs
    /\ CallRefs
    /\ SpentRefs
    /\ GrantsComeFromDecisions
    /\ OnceIsConsumedBeforeTheRun
    /\ OnceOveruseIsBounded

(* Callers hold a grant, and no more of them than there are.                 *)
LEMMA HoldersAreFew ==
    ASSUME NEW g
    PROVE  /\ IsFiniteSet(Holding(g)) /\ Cardinality(Holding(g)) \in Nat
           /\ Cardinality(Holding(g)) <= Cardinality(Callers)
  <1>1. Holding(g) \in SUBSET Callers
    BY DEF Holding
  <1> QED
    BY <1>1, CallersAreFinite, FS_Subset, FS_CardinalityType

LEMMA GateInitially == GateInit => GateInv
  <1> SUFFICES ASSUME GateInit PROVE GateInv
    OBVIOUS
  <1> USE GateAssumption DEF GateInit
  <1>1. GateTypeOK
    BY DEF GateTypeOK, IdleCall, IdleAdmin, Calls, AdminStates, Statuses
  <1>2. AdminRefs /\ CallRefs
    BY DEF AdminRefs, CallRefs, IdleCall, IdleAdmin
  <1>3. /\ SpentRefs /\ GrantsComeFromDecisions /\ OnceIsConsumedBeforeTheRun
        /\ OnceOveruseIsBounded
    BY DEF SpentRefs, GrantsComeFromDecisions, OnceIsConsumedBeforeTheRun, OnceOveruseIsBounded
  <1> QED
    BY <1>1, <1>2, <1>3 DEF GateInv

LEMMA AdminRefsKept ==
    ASSUME GateTypeOK, AdminRefs, [GateNext]_gateVars
    PROVE  AdminRefs'
  <1> USE GateAssumption
  <1>1. ApprovalsKept /\ GrantsKept
    BY ApprovalsKeptByEachStep, GrantsKeptByEachStep
  <1>2. ASSUME NEW v \in Admins, admin'[v] = admin[v]
        PROVE  AdminRefs!(v)'
    BY <1>1, <1>2 DEF AdminRefs, ApprovalsKept, GrantsKept
  <1>3. ASSUME NEW v \in Admins, admin'[v] # admin[v]
        PROVE  AdminRefs!(v)'
    <2>1. admin \in [Admins -> AdminStates]
      BY DEF GateTypeOK
    <2>2. ASSUME NEW a \in 1..MaxApprovals, NEW resolution \in Resolutions,
                 StartResolve(v, a, resolution)
          PROVE  AdminRefs!(v)'
      BY <1>1, <2>1, <2>2 DEF StartResolve, ApprovalsKept
    <2>3. CASE UpdateApproval(v)
      BY <1>1, <2>1, <2>3, RowsOfTheTables
      DEF UpdateApproval, AdminRefs, ApprovalsKept, ApprovalRows, AdminStates, Decided
    <2>4. CASE InsertGrant(v) \/ Answer(v) \/ UpdateRevoked(v)
      BY <2>1, <2>4 DEF InsertGrant, Answer, UpdateRevoked, AdminStates, IdleAdmin
    <2>5. ASSUME NEW g \in 1..MaxGrants, StartRevoke(v, g)
          PROVE  AdminRefs!(v)'
      BY <2>1, <2>5 DEF StartRevoke, Revoking
    <2> QED
      BY <1>3, <2>1, <2>2, <2>3, <2>4, <2>5
      DEF GateNext, CallerNext, AdminNext, gateVars, Evaluate, Consume, Execute, Report,
          ListApprovals, FallDue, StartResolve, UpdateApproval, InsertGrant, Answer,
          StartRevoke, UpdateRevoked
  <1> QED
    BY <1>2, <1>3 DEF AdminRefs

LEMMA DecisionsKept ==
    ASSUME GateInv, [GateNext]_gateVars, GateTypeOK'
    PROVE  GrantsComeFromDecisions'
  <1>1. ApprovalsKept /\ GrantsKept /\ GrantsInserted
    BY ApprovalsKeptByEachStep, GrantsKeptByEachStep DEF GateInv
  <1>2. ASSUME NEW g \in DOMAIN grants
        PROVE  GrantsComeFromDecisions!(g)'
    BY <1>1 DEF GateInv, GrantsComeFromDecisions, ApprovalsKept, GrantsKept
  <1>3. ASSUME NEW g \in DOMAIN grants', g \notin DOMAIN grants
        PROVE  GrantsComeFromDecisions!(g)'
    BY <1>1, <1>3 DEF GateInv, AdminRefs, ApprovalsKept, GrantsInserted
  <1> QED
    BY <1>2, <1>3 DEF GrantsComeFromDecisions

(* A caller moves only by its own four actions. *)
LEMMA CallChanges ==
    ASSUME GateTypeOK, [GateNext]_gateVars, NEW c \in Callers, call'[c] # call[c]
    PROVE  \/ \E r \in Requests : Evaluate(c, r)
           \/ Consume(c) \/ Execute(c) \/ Report(c)
  BY DEF GateTypeOK, GateNext, CallerNext, AdminNext, gateVars, Evaluate, Consume, Execute, Report,
         ListApprovals, FallDue, StartResolve, UpdateApproval, InsertGrant, Answer,
         StartRevoke, UpdateRevoked

LEMMA CallRefsKept ==
    ASSUME GateInv, [GateNext]_gateVars
    PROVE  CallRefs'
  <1>1. GrantsKept /\ GateTypeOK /\ call \in [Callers -> Calls]
    BY GrantsKeptByEachStep DEF GateInv, GateTypeOK
  <1>2. ASSUME NEW g \in DOMAIN grants, NEW r
        PROVE  GrantMatches(grants[g], r) => GrantMatches(grants'[g], r)
    BY <1>1 DEF GrantsKept, GrantMatches, SameConversation
  <1>3. ASSUME NEW c \in Callers, call'[c] = call[c]
        PROVE  CallRefs!(c)'
    BY <1>1, <1>2, <1>3 DEF GateInv, CallRefs, GrantsKept
  <1>4. ASSUME NEW c \in Callers, NEW r \in Requests, Evaluate(c, r)
        PROVE  CallRefs!(c)'
    <2>1. CASE Matching(r) # {}
      <3> DEFINE g == Newest(Matching(r))
      <3>1. g \in Matching(r)
        BY <2>1, <1>1, NewestExists, RowsOfTheTables DEF Matching
      <3>2. /\ g \in DOMAIN grants /\ g # 0 /\ GrantMatches(grants[g], r)
            /\ grants' = grants
        BY <3>1, <1>1, <1>4, RowsOfTheTables DEF Matching, Evaluate
      <3>3. call'[c].grant = g /\ call'[c].request = r /\ call'[c].step = "consume"
        BY <2>1, <1>1, <1>4 DEF Evaluate
      <3> HIDE DEF g
      <3> QED BY <3>2, <3>3
    <2>2. CASE Matching(r) = {}
      BY <2>2, <1>1, <1>4 DEF Evaluate
    <2> QED BY <2>1, <2>2
  <1>5. ASSUME NEW c \in Callers, Consume(c)
        PROVE  CallRefs!(c)'
    <2>1. /\ call'[c].grant = call[c].grant /\ call'[c].request = call[c].request
          /\ call'[c].step = "execute" /\ call[c].step = "consume"
      BY <1>1, <1>5 DEF Consume, Calls
    <2> QED BY <2>1, <1>1, <1>2 DEF GateInv, CallRefs, GrantsKept
  <1>6. ASSUME NEW c \in Callers, Execute(c) \/ Report(c)
        PROVE  CallRefs!(c)'
    BY <1>1, <1>6 DEF Execute, Report, IdleCall
  <1> QED
    BY <1>3, <1>4, <1>5, <1>6, CallChanges DEF GateInv, CallRefs

(* Executions are charged to grants of the table. *)
LEMMA SpentKept ==
    ASSUME GateInv, [GateNext]_gateVars, NEW g \in 1..MaxGrants, spent'[g] # spent[g]
    PROVE  \E c \in Callers : Execute(c) /\ call[c].grant = g /\ g \in DOMAIN grants
  <1>1. PICK c \in Callers : Execute(c)
    BY DEF GateNext, CallerNext, AdminNext, gateVars, Evaluate, Consume, Execute, Report,
           ListApprovals, FallDue, StartResolve, UpdateApproval, InsertGrant, Answer,
           StartRevoke, UpdateRevoked
  <1>2. call[c].grant = g /\ g # 0
    BY <1>1 DEF Execute, GateInv, GateTypeOK
  <1> QED
    BY <1>1, <1>2 DEF GateInv, CallRefs

LEMMA SpentRefsKept ==
    ASSUME GateInv, [GateNext]_gateVars
    PROVE  SpentRefs'
  <1>1. GrantsKept
    BY GrantsKeptByEachStep DEF GateInv
  <1> QED
    BY <1>1, SpentKept DEF GateInv, SpentRefs, GrantsKept

LEMMA OnceConsumedKept ==
    ASSUME GateInv, [GateNext]_gateVars, GateTypeOK'
    PROVE  OnceIsConsumedBeforeTheRun'
  <1>1. GrantsKept /\ GrantsInserted /\ GateTypeOK
    BY GrantsKeptByEachStep DEF GateInv
  <1>2. /\ call \in [Callers -> Calls] /\ spent \in [1..MaxGrants -> Nat]
        /\ Len(grants) <= MaxGrants /\ Len(grants') <= MaxGrants
        /\ DOMAIN grants = 1..Len(grants) /\ Len(grants) \in Nat
        /\ DOMAIN grants' = 1..Len(grants') /\ Len(grants') \in Nat
    BY <1>1, TableRows DEF GateTypeOK
  <1>3. ASSUME NEW g \in DOMAIN grants', grants'[g].mode = "once",
               spent'[g] > 0
        PROVE  grants'[g].consumed
    <2>1. g \in 1..MaxGrants
      BY <1>2, GateAssumption
    <2>2. CASE spent'[g] = spent[g]
      BY <2>1, <2>2, <1>1, <1>3 DEF GateInv, SpentRefs, GrantsKept, OnceIsConsumedBeforeTheRun
    <2>3. CASE spent'[g] # spent[g]
      <3>1. PICK c \in Callers : Execute(c) /\ call[c].grant = g /\ g \in DOMAIN grants
        BY <2>1, <2>3, SpentKept
      <3> QED
        BY <3>1, <1>1, <1>3 DEF Execute, GateInv, GrantsKept, OnceIsConsumedBeforeTheRun
    <2> QED BY <2>2, <2>3
  <1>4. ASSUME NEW g \in DOMAIN grants', grants'[g].mode = "once",
               NEW c \in Callers, call'[c].step = "execute", call'[c].grant = g
        PROVE  grants'[g].consumed
    <2>1. g # 0
      BY <1>2
    <2>2. CASE call'[c] = call[c]
      BY <2>1, <2>2, <1>1, <1>4 DEF GateInv, CallRefs, GrantsKept, OnceIsConsumedBeforeTheRun
    <2>3. CASE call'[c] # call[c]
      <3>1. Consume(c)
        <4>1. ASSUME NEW r \in Requests, Evaluate(c, r)
              PROVE  call'[c].step # "execute" \/ call'[c].grant = 0
          <5>1. CASE Matching(r) # {}
            BY <4>1, <5>1, <1>2 DEF Evaluate
          <5>2. CASE Matching(r) = {}
            BY <4>1, <5>2, <1>2 DEF Evaluate
          <5> QED BY <5>1, <5>2
        <4>2. ASSUME Execute(c) \/ Report(c) PROVE call'[c].step # "execute"
          BY <4>2, <1>2 DEF Execute, Report, IdleCall
        <4> QED
          BY <4>1, <4>2, <2>1, <2>3, <1>1, <1>4, CallChanges
      <3>2. call[c].grant = g /\ g \in DOMAIN grants
        BY <3>1, <2>1, <1>2, <1>4 DEF Consume, Calls, GateInv, CallRefs
      <3>3. grants[g] \in GrantRows /\ grants[g].mode = "once"
        BY <3>2, <1>1, <1>4, RowsOfTheTables DEF GrantsKept
      <3> QED
        BY <3>1, <3>2, <3>3, <1>2 DEF Consume, GrantRows
    <2> QED BY <2>2, <2>3
  <1> QED
    BY <1>3, <1>4 DEF OnceIsConsumedBeforeTheRun

(* Nobody matches a grant that is consumed: its holders only run and leave.  *)
LEMMA HoldersLeave ==
    ASSUME GateInv, [GateNext]_gateVars, NEW g \in DOMAIN grants, grants[g].consumed
    PROVE  Holding(g)' \subseteq Holding(g)
  <1>1. GateTypeOK /\ call \in [Callers -> Calls] /\ g # 0
    BY RowsOfTheTables DEF GateInv, GateTypeOK
  <1>2. ASSUME NEW c \in Callers, NEW r \in Requests, Evaluate(c, r)
        PROVE  call'[c].step \notin {"consume", "execute"} \/ call'[c].grant # g
    <2>1. CASE Matching(r) # {}
      <3>1. Newest(Matching(r)) \in Matching(r)
        BY <2>1, <1>1, NewestExists, RowsOfTheTables DEF Matching
      <3>2. Newest(Matching(r)) # g
        BY <3>1 DEF Matching, Usable
      <3> QED BY <2>1, <3>2, <1>1, <1>2 DEF Evaluate
    <2>2. CASE Matching(r) = {}
      BY <2>2, <1>1, <1>2 DEF Evaluate
    <2> QED BY <2>1, <2>2
  <1>3. ASSUME NEW c \in Callers, Consume(c)
        PROVE  call[c].step = "consume" /\ call'[c].grant = call[c].grant
    BY <1>1, <1>3 DEF Consume, Calls
  <1>4. ASSUME NEW c \in Callers, Execute(c) \/ Report(c)
        PROVE  call'[c].step = "idle"
    BY <1>1, <1>4 DEF Execute, Report, IdleCall
  <1>5. ASSUME NEW c \in Callers, call'[c].step \in {"consume", "execute"}, call'[c].grant = g
        PROVE  call[c].step \in {"consume", "execute"} /\ call[c].grant = g
    BY <1>1, <1>2, <1>3, <1>4, <1>5, CallChanges
  <1> QED
    BY <1>5 DEF Holding

LEMMA OveruseKept ==
    ASSUME GateInv, [GateNext]_gateVars, GateTypeOK'
    PROVE  OnceOveruseIsBounded'
  <1>1. GrantsKept /\ GateTypeOK /\ spent \in [1..MaxGrants -> Nat]
    BY GrantsKeptByEachStep DEF GateInv, GateTypeOK
  <1>2. DOMAIN grants' \subseteq 1..MaxGrants
    BY TableRows, GateAssumption DEF GateTypeOK
  <1> SUFFICES ASSUME NEW g \in DOMAIN grants', grants'[g].mode = "once"
               PROVE  spent'[g] + Cardinality(Holding(g)') <= Cardinality(Callers)
    BY DEF OnceOveruseIsBounded
  <1>3. /\ g \in 1..MaxGrants /\ spent[g] \in Nat /\ Cardinality(Callers) \in Nat
        /\ Cardinality(Holding(g)) \in Nat /\ Cardinality(Holding(g)') \in Nat
        /\ IsFiniteSet(Holding(g))
        /\ Cardinality(Holding(g)') <= Cardinality(Callers)
    <2>1. Holding(g)' \in SUBSET Callers
      BY DEF Holding
    <2>2. /\ Cardinality(Holding(g)') \in Nat
          /\ Cardinality(Holding(g)') <= Cardinality(Callers)
      BY <2>1, CallersAreFinite, FS_Subset, FS_CardinalityType
    <2> QED BY <2>2, <1>1, <1>2, HoldersAreFew, CallersAreFinite, FS_CardinalityType
  (* Before it is consumed nothing was charged to it, and nothing can be.    *)
  <1>4. CASE g \notin DOMAIN grants \/ ~grants[g].consumed
    <2>1. spent[g] = 0
      BY <1>1, <1>3, <1>4 DEF GateInv, SpentRefs, GrantsKept, OnceIsConsumedBeforeTheRun
    <2>2. spent'[g] = spent[g]
      <3> SUFFICES ASSUME spent'[g] # spent[g] PROVE FALSE
        OBVIOUS
      <3>1. PICK c \in Callers : Execute(c) /\ call[c].grant = g /\ g \in DOMAIN grants
        BY <1>3, SpentKept
      <3> QED
        BY <3>1, <1>1, <1>4 DEF Execute, GateInv, GrantsKept, OnceIsConsumedBeforeTheRun
    <2> QED BY <2>1, <2>2, <1>3
  (* Afterwards an execution is charged to one of those who hold it still.   *)
  <1>5. CASE g \in DOMAIN grants /\ grants[g].consumed
    <2>1. Holding(g)' \subseteq Holding(g)
      BY <1>5, HoldersLeave
    <2>2. spent[g] + Cardinality(Holding(g)) <= Cardinality(Callers)
      BY <1>1, <1>5 DEF GateInv, OnceOveruseIsBounded, GrantsKept
    <2>3. CASE spent'[g] = spent[g]
      <3>1. Cardinality(Holding(g)') <= Cardinality(Holding(g))
        BY <2>1, <1>3, FS_Subset
      <3> QED BY <3>1, <2>2, <2>3, <1>3
    <2>4. CASE spent'[g] # spent[g]
      <3>1. PICK c \in Callers : Execute(c) /\ call[c].grant = g
        BY <1>3, <2>4, SpentKept
      <3>2. spent'[g] = spent[g] + 1 /\ c \in Holding(g) /\ c \notin Holding(g)'
        <4>1. call \in [Callers -> Calls]
          BY <1>1 DEF GateTypeOK
        <4> QED BY <4>1, <3>1, <2>4, <1>1, <1>3 DEF Execute, Holding, IdleCall
      <3>3. /\ IsFiniteSet(Holding(g) \ {c})
            /\ Cardinality(Holding(g) \ {c}) = Cardinality(Holding(g)) - 1
        BY <3>2, <1>3, FS_RemoveElement
      <3>4. Holding(g)' \in SUBSET (Holding(g) \ {c})
        BY <2>1, <3>2
      <3>5. Cardinality(Holding(g)') <= Cardinality(Holding(g) \ {c})
        BY <3>3, <3>4, FS_Subset
      <3> QED BY <3>2, <3>3, <3>5, <2>2, <1>3
    <2> QED BY <2>3, <2>4
  <1> QED
    BY <1>4, <1>5

LEMMA GateStep ==
    ASSUME GateInv, [GateNext]_gateVars
    PROVE  GateInv'
  <1>1. GateTypeOK'
    BY CallerTypeStep, AdminTypeStep DEF GateInv, GateNext, gateVars, GateTypeOK
  <1> QED
    BY <1>1, AdminRefsKept, CallRefsKept, SpentRefsKept, DecisionsKept, OnceConsumedKept,
       OveruseKept
    DEF GateInv

-----------------------------------------------------------------------------
(* The theorems. *)

(* Every reachable state of the permission store satisfies the strengthened  *)
(* invariant GateInv.                                                        *)
THEOREM GateInvariant == GateSpec => []GateInv
  BY GateInitially, GateStep, PTL DEF GateSpec

(* Both tables and the state of every caller and handler stay well formed.  *)
THEOREM GateTypeCorrect == GateSpec => []GateTypeOK
  BY GateInvariant, PTL DEF GateInv

(* resolve_approval and evaluate_request: no grant without a decision, for  *)
(* any number of concurrent resolvers.                                      *)
THEOREM GrantsAreDecided == GateSpec => []GrantsComeFromDecisions
  BY GateInvariant, PTL DEF GateInv

(* consume_grant: whoever runs on a "once" grant has consumed it first.     *)
THEOREM OnceIsConsumed == GateSpec => []OnceIsConsumedBeforeTheRun
  BY GateInvariant, PTL DEF GateInv

(* evaluate_request and consume_grant are two statements: however many      *)
(* callers race for a "once" grant, each runs on it at most once.           *)
THEOREM OveruseIsBounded == GateSpec => []OnceOveruseIsBounded
  BY GateInvariant, PTL DEF GateInv

(* evaluate_request: an asked request that runs is covered by a decision.   *)
THEOREM AskedIsApproved == GateSpec => []AskedRunsAreApproved
  <1>1. GateInv => AskedRunsAreApproved
    <2> SUFFICES ASSUME GateInv, NEW c \in Callers,
                        call[c].step = "execute", call[c].request \in AskRequests
                 PROVE  AskedRunsAreApproved!(c)
      BY DEF AskedRunsAreApproved
    <2> DEFINE g == call[c].grant
               a == grants[g].approval
    <2>1. g \in DOMAIN grants /\ GrantMatches(grants[g], call[c].request)
      BY DEF GateInv, CallRefs
    <2>2. a \in DOMAIN approvals /\ Decided(a) /\ grants[g].request = approvals[a].request
      BY <2>1 DEF GateInv, GrantsComeFromDecisions
    <2> QED
      BY <2>1, <2>2 DEF GrantMatches, SameConversation
  <1> QED
    BY <1>1, GateInvariant, PTL

(* Every UPDATE of the two tables only moves a row forward.                 *)
THEOREM HistoryNeverReverts == GateSpec => HistoryIsFinal
  <1>1. GateInv /\ [GateNext]_gateVars => ApprovalsKept /\ GrantsKept
    BY ApprovalsKeptByEachStep, GrantsKeptByEachStep DEF GateInv
  <1>2. ApprovalsKept /\ GrantsKept => HistoryIsFinal!1
    BY DEF ApprovalsKept, GrantsKept
  <1> QED
    BY <1>1, <1>2, GateInvariant, PTL DEF GateSpec, HistoryIsFinal
=============================================================================
