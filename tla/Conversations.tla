---------------------------- MODULE Conversations ----------------------------
(***************************************************************************)
(* One conversation of the conversation extension (conversation-service):  *)
(* its row with the active branch, its branches, the lane that goes with   *)
(* each branch, and its messages.  Several worker processes share the      *)
(* SQLite file.  A call reads what it needs and then writes whole rows,    *)
(* each in a statement of its own and from what it read: between the       *)
(* statements other calls read and write, and a statement that fails, or   *)
(* the death of the process, leaves out the rest.                          *)
(*                                                                         *)
(* The reads a call makes before its first write are one step here.  Times *)
(* are left out: where the code takes the row that was updated last, any   *)
(* row is taken, and messages have the order in which they were inserted.  *)
(***************************************************************************)
EXTENDS Integers, Sequences, FiniteSets, SequencesExt, Listings

CONSTANTS
    ConvWorkers,   \* worker processes of the extension
    MaxBranches,   \* bound on the branches that are ever created
    MaxMessages,   \* bound on the messages that are ever appended
    MaxConvCalls   \* bound on the calls that write

ASSUME ConvAssumption == {MaxBranches, MaxMessages, MaxConvCalls} \subseteq Nat

BranchIds  == 1..MaxBranches
MessageIds == 1..MaxMessages

VARIABLES
    conv,       \* the row of the conversation
    branches,   \* the rows of branches, by id
    lanes,      \* the status of the lane of each branch
    messages,   \* the messages, in order
    calls,      \* the writes each worker still has to make
    ids,        \* branch ids drawn so far
    history     \* whether the conversation has been opened, and deleted; the calls

convVars == <<conv, branches, lanes, messages, calls, ids, history>>

BranchRows     == [status : {"active", "deleted"}, parent : 0..MaxBranches, source : 0..MaxMessages,
             inherit : {"inclusive", "exclusive", "none"}]
NoBranch == [status |-> "none", parent |-> 0, source |-> 0, inherit |-> "none"]
MainRow  == [status |-> "active", parent |-> 0, source |-> 0, inherit |-> "inclusive"]

(* The writes of a call; "choose" reads the branches again. *)
RowWrite(kind, id, row)  == [kind |-> kind, id |-> id, row |-> row, lane |-> 0, without |-> {}]
WriteConv(active)     == RowWrite("conv", active, NoBranch)
WriteLane(id, status) == RowWrite("lane", id, [NoBranch EXCEPT !.status = status])
WriteBranch(id, row)  == RowWrite("branch", id, row)
WriteMessage(id, l)   == [RowWrite("message", id, NoBranch) EXCEPT !.lane = l]
Choose(id, active, S) == [RowWrite("choose", id, NoBranch) EXCEPT !.lane = active, !.without = S]

NoCall == [todo |-> <<>>, alone |-> TRUE]

(* Type correctness; a message has the branch and the lane of a row that has *)
(* been created, and the main branch is the only one without a parent.       *)
ConvTypeOK ==
    /\ conv \in [there : BOOLEAN, active : 0..MaxBranches]
    /\ branches \in [BranchIds -> BranchRows \cup {NoBranch}]
    /\ lanes \in [BranchIds -> {"none", "active", "deleted"}]
    /\ messages \in Seq([branch : 1..ids, lane : 1..ids]) /\ Len(messages) <= MaxMessages
    /\ DOMAIN calls = ConvWorkers
    /\ \A w \in ConvWorkers : calls[w].alone \in BOOLEAN
    /\ ids \in 0..MaxBranches
    /\ history \in [opened : BOOLEAN, purged : BOOLEAN, calls : 0..MaxConvCalls]

ConvInit ==
    /\ conv = [there |-> FALSE, active |-> 0]
    /\ branches = [b \in BranchIds |-> NoBranch]
    /\ lanes = [b \in BranchIds |-> "none"]
    /\ messages = <<>>
    /\ calls = [w \in ConvWorkers |-> NoCall]
    /\ ids = 0
    /\ history = [opened |-> FALSE, purged |-> FALSE, calls |-> 0]

-----------------------------------------------------------------------------
(* Calls *)

FreeWorker(w) == calls[w].todo = <<>>

(* A call has read what it needs and begins to write. *)
MayBegin(w)    == FreeWorker(w) /\ history.calls < MaxConvCalls
Begin(w, todo) ==
    /\ history' = [history EXCEPT !.calls = @ + 1, !.purged = @ \/ todo[1].kind = "unconv"]
    /\ calls' = [v \in ConvWorkers |->
                   IF v = w THEN [todo |-> todo, alone |-> \A u \in ConvWorkers : FreeWorker(u)]
                   ELSE [calls[v] EXCEPT !.alone = FreeWorker(v)]]

Tables == <<conv, branches, lanes, messages>>

Live     == {b \in BranchIds : branches[b].status = "active"}
Known    == {b \in BranchIds : branches[b] # NoBranch}
HasLane  == {b \in BranchIds : lanes[b] # "none"}
FreshId    == ids + 1
Draw     == ids < MaxBranches /\ ids' = FreshId

(* select_lane: the lane asked for, also if it is deleted, or else the one   *)
(* updated last.                                                             *)
SelectLane(target) == IF target \in HasLane THEN {target} ELSE HasLane

(* select_branch, of the branches that were read and are not deleted: the    *)
(* lane's, or else the first; 0 is an error.                                 *)
SelectBranch(lane) ==
    IF lane \in Live THEN lane
    ELSE IF Live = {} THEN 0
    ELSE CHOOSE b \in Live : \A c \in Live : b <= c

-----------------------------------------------------------------------------
(* What a branch shows *)

(* A mutant: the message that is rewritten stays. *)
TrimAfter(inherited, row) ==
    LET at == SelectInSeq(inherited, LAMBDA m : m = row.source) IN
    IF row.inherit = "none" THEN <<>>
    ELSE IF at = 0 THEN inherited ELSE SubSeq(inherited, 1, at)

(* trim_parent_messages *)
Trim(inherited, row) ==
    LET at == SelectInSeq(inherited, LAMBDA m : m = row.source) IN
    IF row.inherit = "none" THEN <<>>
    ELSE IF at = 0 THEN inherited
    ELSE SubSeq(inherited, 1, IF row.inherit = "exclusive" THEN at - 1 ELSE at)

(* Messages in the order of their ids. *)
Own(b) == Ordered({m \in DOMAIN messages : messages[m].branch = b})

(* filter_visible_messages: what the parent shows up to the source, and the  *)
(* branch's own messages.  Parents are older (ParentsAreOlder).              *)
Visible[b \in 0..MaxBranches] ==
    IF b = 0 THEN <<>>
    ELSE (IF branches[b].parent \in 1..(b - 1) THEN Trim(Visible[branches[b].parent], branches[b])
          ELSE <<>>) \o Own(b)

-----------------------------------------------------------------------------
(* Handlers *)

(* conversation.create: the row of the conversation comes first. *)
CreateConversation(w) ==
    /\ ids = 0 /\ Draw
    /\ Begin(w, <<WriteConv(1), WriteLane(1, "active"), WriteBranch(1, MainRow)>>)
    /\ UNCHANGED Tables

(* create_runtime_branch, and the branch of create_branch *)
NewBranch(id, row) == <<WriteLane(id, "active"), WriteBranch(id, row)>>

(* A branch that append_message makes becomes the active one.                *)
NewActive(id, row) == NewBranch(id, row) \o <<WriteConv(id)>>

(* The last writes of append_message: an operator's message, or one that     *)
(* made a branch, activates its branch, and the rows of the lane and of the  *)
(* branch are written as they were read.  The call takes active for the      *)
(* active branch.                                                            *)
AppendWrites(operator, b, row, lane, status, active) ==
    <<WriteMessage(b, lane), WriteConv(IF operator \/ active = 0 THEN b ELSE active),
      WriteLane(lane, status), WriteBranch(b, row)>>

(* A branch is made for the message.                                         *)
AppendToNew(id, row) == NewActive(id, row) \o AppendWrites(TRUE, id, row, id, "active", id)

(* message.append to a branch that is there. *)
AppendMessage(w, operator, asked) ==
    LET target == IF asked = 0 THEN conv.active ELSE asked IN
    /\ conv.there /\ target # 0
    /\ \E lane \in SelectLane(target) :
          LET b == SelectBranch(lane) IN
          /\ b # 0
          /\ Begin(w, AppendWrites(operator, b, branches[b], lane, lanes[lane], conv.active))
    /\ UNCHANGED <<Tables, ids>>

(* message.append that rewrites a message or forks from it, whichever branch *)
(* the message is in.                                                        *)
AppendRewrite(w, asked, source, inherit) ==
    LET target == IF asked = 0 THEN conv.active ELSE asked IN
    /\ conv.there /\ target # 0 /\ source \in DOMAIN messages
    /\ \E lane \in SelectLane(target) :
          LET row == [status |-> "active", parent |-> lane, source |-> source,
                      inherit |-> inherit]
          IN
          /\ SelectBranch(lane) # 0
          /\ Begin(w, AppendToNew(FreshId, row))
    /\ Draw
    /\ UNCHANGED Tables

(* message.append when the conversation has no active branch: a root branch  *)
(* is made, and then the branches that were read before are searched for the *)
(* one of its lane.  So the message goes to the first of them, with the lane *)
(* of the new branch, and that branch's row is written as it was read; when  *)
(* there is none the call fails, and the root branch stays.                  *)
AppendRoot(w, operator) ==
    LET b == SelectBranch(FreshId) IN
    /\ conv.there /\ conv.active = 0
    /\ Draw
    /\ Begin(w, NewActive(FreshId, MainRow)
                \o IF b = 0 THEN <<>>
                   ELSE AppendWrites(operator, b, branches[b], FreshId, "active", FreshId))
    /\ UNCHANGED Tables

(* The same for a message that rewrites or forks: it goes to a second new    *)
(* branch, below the root branch.                                            *)
AppendRootRewrite(w, source, inherit) ==
    LET row == [status |-> "active", parent |-> FreshId, source |-> source,
                inherit |-> inherit]
    IN
    /\ conv.there /\ conv.active = 0 /\ source \in DOMAIN messages
    /\ SelectBranch(FreshId) # 0
    /\ FreshId < MaxBranches /\ ids' = FreshId + 1
    /\ Begin(w, NewActive(FreshId, MainRow) \o AppendToNew(FreshId + 1, row))
    /\ UNCHANGED Tables

(* branch.create; nobody checks the source. *)
CreateBranch(w, asked, source, inherit, activate) ==
    LET parent == IF asked = 0 THEN conv.active ELSE asked
        row    == [status |-> "active", parent |-> parent, source |-> source, inherit |-> inherit]
    IN
    /\ conv.there /\ parent # 0 /\ SelectLane(parent) # {}
    /\ Draw
    /\ Begin(w, NewBranch(FreshId, row) \o IF activate THEN <<WriteConv(FreshId)>> ELSE <<>>)
    /\ UNCHANGED Tables

(* branch.switch, also to a branch that is deleted. *)
SwitchBranch(w, b) ==
    /\ conv.there /\ b \in Known
    /\ Begin(w, <<WriteConv(b)>>)
    /\ UNCHANGED <<Tables, ids>>

(* A mutant: a branch that gets a name is active. *)
UpdateBranchActive(w, b) ==
    /\ b \in Known
    /\ Begin(w, <<WriteBranch(b, [branches[b] EXCEPT !.status = "active"])>>)
    /\ UNCHANGED <<Tables, ids>>

(* branch.update: a new name, for the branch and then for its lane, which is *)
(* read again before.                                                        *)
UpdateBranch(w, b) ==
    /\ b \in Live
    /\ Begin(w, <<WriteBranch(b, branches[b])>>)
    /\ UNCHANGED <<Tables, ids>>

(* collect_branch_subtree_ids *)
Subtree(root) ==
    LET Grow(S) == S \cup {b \in Known : branches[b].parent \in S}
        down[n \in 0..MaxBranches] == IF n = 0 THEN {root} ELSE Grow(down[n - 1])
    IN  down[MaxBranches]

DeletedRow(b) == WriteBranch(b, [branches[b] EXCEPT !.status = "deleted"])

(* branch.delete: the children of the branch move to its parent, or go with  *)
(* it and all of theirs; then the lanes are written, and the conversation is *)
(* given another branch.                                                     *)
DeleteBranch(w, b, tree) ==
    LET gone     == IF tree THEN Subtree(b) ELSE {b}
        shut     == gone \cap HasLane
        children == IF tree THEN {} ELSE {c \in Live : branches[c].parent = b}
        Moved(c) == WriteBranch(c, [branches[c] EXCEPT !.parent = branches[b].parent])
    IN
    /\ conv.there /\ b \in Live
    /\ Begin(w, [i \in 1..Cardinality(children) |-> Moved(Ordered(children)[i])]
                \o [i \in 1..Cardinality(gone) |-> DeletedRow(Ordered(gone)[i])]
                \o [i \in 1..Cardinality(shut) |-> WriteLane(Ordered(shut)[i], "deleted")]
                \o <<Choose(b, conv.active, gone)>>)
    /\ UNCHANGED <<Tables, ids>>

(* choose_next_active_branch: a child, a sibling, the parent, the branch that*)
(* was active, or any.                                                       *)
NextActive(b, active, gone) ==
    LET children == {c \in Live : branches[c].parent = b}
        parent   == branches[b].parent
        siblings == {c \in Live \ gone : branches[c].parent = parent}
    IN
    IF Live = {} THEN {0}
    ELSE IF children # {} THEN children
    ELSE IF parent # 0 /\ siblings # {} THEN siblings
    ELSE IF parent \in Live THEN {parent}
    ELSE IF active \in Live \ gone THEN {active}
    ELSE Live

(* conversation.delete: a statement for each table. *)
DeleteConversation(w) ==
    /\ history.opened
    /\ Begin(w, [i \in 1..4 |->
                   RowWrite(<<"unconv", "unlane", "unmessage", "unbranch">>[i], 0, NoBranch)])
    /\ UNCHANGED <<Tables, ids>>

-----------------------------------------------------------------------------
(* Statements *)

Pop(w) == calls' = [calls EXCEPT ![w] = IF Len(@.todo) = 1 THEN NoCall
                                        ELSE [calls[w] EXCEPT !.todo = Tail(@)]]
StartsWith(w, kind) == calls[w].todo # <<>> /\ Head(calls[w].todo).kind = kind /\ Pop(w)
Item(w)        == Head(calls[w].todo)

(* upsert_conversation; also the one a deletion ends with. *)
UpsertConversation(w) ==
    /\ \/ /\ StartsWith(w, "conv")
          /\ conv' = [there |-> TRUE, active |-> Item(w).id]
       \/ /\ StartsWith(w, "choose")
          /\ \E b \in NextActive(Item(w).id, Item(w).lane, Item(w).without) :
                conv' = [there |-> TRUE, active |-> b]
    /\ UNCHANGED <<branches, lanes, messages, ids, history>>

UpsertLane(w) ==
    /\ StartsWith(w, "lane")
    /\ lanes' = [lanes EXCEPT ![Item(w).id] = Item(w).row.status]
    /\ UNCHANGED <<conv, branches, messages, ids, history>>

UpsertBranch(w) ==
    /\ StartsWith(w, "branch")
    /\ branches' = [branches EXCEPT ![Item(w).id] = Item(w).row]
    /\ history' = [history EXCEPT !.opened = @ \/ Item(w).id = 1]
    /\ UNCHANGED <<conv, lanes, messages, ids>>

InsertMessage(w) ==
    /\ StartsWith(w, "message") /\ Len(messages) < MaxMessages
    /\ messages' = Append(messages, [branch |-> Item(w).id, lane |-> Item(w).lane])
    /\ UNCHANGED <<conv, branches, lanes, ids, history>>

(* The statements of delete_conversation *)
DeleteRows(w) ==
    /\ \/ StartsWith(w, "unconv") /\ conv' = [conv EXCEPT !.there = FALSE, !.active = 0]
          /\ UNCHANGED <<branches, lanes, messages>>
       \/ StartsWith(w, "unlane") /\ lanes' = [b \in BranchIds |-> "none"]
          /\ UNCHANGED <<conv, branches, messages>>
       \/ StartsWith(w, "unmessage") /\ messages' = <<>>
          /\ UNCHANGED <<conv, branches, lanes>>
       \/ StartsWith(w, "unbranch") /\ branches' = [b \in BranchIds |-> NoBranch]
          /\ UNCHANGED <<conv, lanes, messages>>
    /\ UNCHANGED <<ids, history>>

(* initialize_conversation_schema, in a worker that starts: every lane gets  *)
(* a branch row, also the lane of a branch that is just being made.          *)
Backfill(w) ==
    /\ FreeWorker(w) /\ HasLane \ Known # {}
    /\ branches' = [b \in BranchIds |->
                      IF b \in HasLane \ Known THEN [MainRow EXCEPT !.status = lanes[b]]
                      ELSE branches[b]]
    /\ history' = [history EXCEPT !.opened = @ \/ 1 \in HasLane]
    /\ UNCHANGED <<conv, lanes, messages, calls, ids>>

(* A statement fails, or the process dies: the rest is not written. *)
CallFails(w) ==
    /\ ~FreeWorker(w)
    /\ calls' = [calls EXCEPT ![w] = NoCall]
    /\ UNCHANGED <<Tables, ids, history>>

Handle(w) ==
    /\ MayBegin(w)
    /\ \/ CreateConversation(w) \/ DeleteConversation(w)
       \/ \E operator \in BOOLEAN : AppendRoot(w, operator)
       \/ \E source \in DOMAIN messages, i \in {"exclusive", "inclusive"} :
             AppendRootRewrite(w, source, i)
       \/ \E asked \in Known \cup {0}, operator \in BOOLEAN : AppendMessage(w, operator, asked)
       \/ \E asked \in Known \cup {0}, source \in DOMAIN messages,
             i \in {"exclusive", "inclusive"} : AppendRewrite(w, asked, source, i)
       \/ \E asked \in Known \cup {0}, source \in {0} \cup DOMAIN messages,
             i \in {"exclusive", "inclusive", "none"}, activate \in BOOLEAN :
             CreateBranch(w, asked, source, i, activate)
       \/ \E b \in Known : SwitchBranch(w, b) \/ UpdateBranch(w, b)
       \/ \E b \in Known, tree \in BOOLEAN : DeleteBranch(w, b, tree)
ConvNext ==
    \E w \in ConvWorkers :
       \/ Handle(w)
       \/ UpsertConversation(w) \/ UpsertLane(w) \/ UpsertBranch(w)
       \/ InsertMessage(w) \/ DeleteRows(w) \/ Backfill(w) \/ CallFails(w)

ConvSpec == ConvInit /\ [][ConvNext]_convVars

-----------------------------------------------------------------------------
(* Properties *)

(* No order of appends, detachments and deletions makes a branch its own     *)
(* ancestor: a parent was created before its child.  The views walk the      *)
(* parents of a branch.                                                      *)
ParentsAreOlder == \A b \in Known : branches[b].parent < b

(* The branch that a conversation shows has a row, whichever statements of   *)
(* other calls came in between, as long as the conversation was opened and   *)
(* is not deleted.                                                           *)
ActiveBranchExists ==
    history.opened /\ ~history.purged /\ conv.active # 0 => conv.active \in Known

(* A branch made to rewrite a message never shows that message, neither      *)
(* after its parent was deleted and the branch has moved to another one, nor *)
(* when the message was of another branch.                                   *)
RewritesHideTheirSource ==
    \A b \in Known :
       (branches[b].inherit = "exclusive" /\ branches[b].source # 0 /\ ~history.purged)
          => ~Contains(Visible[b], branches[b].source)

(* A deleted branch comes back only when the call that writes its row        *)
(* overlapped with another one: it was read before the deletion.             *)
RevivedOnlyByOverlap ==
    [][\A b \in BranchIds :
          branches[b].status = "deleted" /\ branches'[b].status = "active"
             => \E w \in ConvWorkers : calls'[w] # calls[w] /\ ~calls[w].alone]_convVars

(* The branches of a conversation are a tree whose views terminate, show the *)
(* branch that is there and hide what was rewritten, whichever statements of *)
(* the calls of two workers mix. *)
BranchTreeIsSound ==
    /\ ParentsAreOlder
    /\ ActiveBranchExists
    /\ RewritesHideTheirSource
=============================================================================
