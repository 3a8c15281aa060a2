-------------------------- MODULE ConversationStream --------------------------
(***************************************************************************)
(* The stream that keeps a reader of a conversation up to date             *)
(* (server/src/routes/streams.rs), over the records of ExtensionStore.     *)
(*                                                                         *)
(* The server polls one number for each of four stores: the last event,    *)
(* the last approval, the last operation event, and the time of the record *)
(* updated last.  When one differs from what it was, all are noted and a   *)
(* whole snapshot is sent.  Reading the four numbers is one step here, and *)
(* so is reading the snapshot: what changes between two of their reads     *)
(* gets a number of its own, and so another snapshot.  State entries are   *)
(* no part of it.                                                          *)
(***************************************************************************)
EXTENDS ExtensionStore

CONSTANTS
    OperationLimit, \* how many operations a snapshot has
    MaxOperations   \* bound on the operations

ASSUME StreamAssumption == {OperationLimit, MaxOperations} \subseteq Nat \ {0}

VARIABLES
    messageCount, \* how many messages the conversation has
    eventSeq,   \* the last event about the conversation, for each of its messages
    approval,   \* the row of an approval, and whether an operation waits for it
    opRows,     \* the operations, in the order of updated_at
    opSeq,      \* the last operation event
    unheard,    \* changes that are written and not announced yet
    stream,     \* what the server does for the reader, and the numbers it noted
    view        \* what the reader was sent

newsVars   == <<messageCount, eventSeq, approval, opRows, opSeq, unheard>>
streamVars == <<storeVars, newsVars, stream, view>>

-----------------------------------------------------------------------------
Approvals == {"none", "pending", "resolved", "expired"}
OpStates  == {"running", "waiting", "ended"}
OpRow     == [id : 1..MaxOperations, state : OpStates]
News      == {"message", "operation", "resolution"}

(* Only the insertion of an approval moves its number. *)
LatestSeqs == [event |-> eventSeq, approval |-> IF approval.state = "none" THEN 0 ELSE 1,
               operation |-> opSeq, record |-> LatestUpdate]

Oldest(s) == SubSeq(s, 1, IF Len(s) < OperationLimit THEN Len(s) ELSE OperationLimit)

(* list_operations: the ones updated first. *)
ShownOperations == Oldest(opRows)

(* The stream notes and the reader sees nothing. *)
Nothing == [event |-> 0, approval |-> 0, operation |-> 0, record |-> 0]
Blank   == [good |-> FALSE, said |-> 0, approval |-> "none",
            operations |-> <<>>, records |-> <<>>]

StreamTypeOK ==
    /\ StoreTypeOK
    /\ messageCount \in Instants /\ eventSeq \in Instants /\ eventSeq <= messageCount
    /\ approval \in [state : Approvals, linked : BOOLEAN]
    /\ opRows \in Seq(OpRow) /\ opSeq \in Nat
    /\ \A i, j \in DOMAIN opRows : opRows[i].id = opRows[j].id => i = j
    /\ unheard \subseteq News
    /\ stream \in [at : {"off", "waiting", "snapshot"},
                   seen : [event : Instants, approval : 0..1, operation : Nat, record : Instants]]
    /\ view \in [good : BOOLEAN, said : Instants, approval : Approvals,
                 operations : Seq(OpRow), records : Seq(Row)]

StreamInit ==
    /\ StoreInit
    /\ messageCount = 0 /\ eventSeq = 0 /\ opRows = <<>> /\ opSeq = 0 /\ unheard = {}
    /\ approval = [state |-> "none", linked |-> FALSE]
    /\ stream = [at |-> "off", seen |-> Nothing] /\ view = Blank

-----------------------------------------------------------------------------
(* Changes, which the times of the store bound *)

(* A message is written, and then its event; publishing may fail. *)
MessageWritten ==
    /\ "message" \notin unheard /\ eventSeq = messageCount /\ CountCall
    /\ messageCount' = messageCount + 1 /\ unheard' = unheard \cup {"message"}
    /\ UNCHANGED <<eventSeq, approval, opRows, opSeq>>

MessageAnnounced ==
    /\ "message" \in unheard /\ eventSeq' = messageCount /\ unheard' = unheard \ {"message"}
    /\ UNCHANGED <<messageCount, approval, opRows, opSeq, clock>>

MessageUnpublished ==
    /\ "message" \in unheard /\ unheard' = unheard \ {"message"}
    /\ UNCHANGED <<messageCount, eventSeq, approval, opRows, opSeq, clock>>

(* An operation is inserted, then its first event. *)
OperationStarts ==
    /\ "operation" \notin unheard /\ Len(opRows) < MaxOperations /\ CountCall
    /\ opRows' = Append(opRows, [id |-> Len(opRows) + 1, state |-> "running"])
    /\ unheard' = unheard \cup {"operation"}
    /\ UNCHANGED <<messageCount, eventSeq, approval, opSeq>>

MovedRow(i, state) == Append(RemoveAt(opRows, i), [opRows[i] EXCEPT !.state = state])

(* update_operation: the row comes last in the order of updated_at, *)
RowEnds ==
    /\ "operation" \notin unheard /\ CountCall
    /\ \E i \in DOMAIN opRows : opRows[i].state = "running" /\ opRows' = MovedRow(i, "ended")
    /\ unheard' = unheard \cup {"operation"}
    /\ UNCHANGED <<messageCount, eventSeq, approval, opSeq>>

(* then its event. *)
OperationAnnounced ==
    /\ "operation" \in unheard
    /\ opSeq' = opSeq + 1 /\ unheard' = unheard \ {"operation"}
    /\ UNCHANGED <<messageCount, eventSeq, approval, opRows, clock>>

(* An approval is asked for: by an action, or by an operation, which then    *)
(* waits for it. *)
ApprovalAsked ==
    /\ approval.state = "none" /\ CountCall
    /\ \/ /\ approval' = [state |-> "pending", linked |-> FALSE]
          /\ UNCHANGED <<opRows, unheard>>
       \/ /\ approval' = [state |-> "pending", linked |-> TRUE]
          /\ "operation" \notin unheard /\ unheard' = unheard \cup {"operation"}
          /\ \E i \in DOMAIN opRows :
                opRows[i].state = "running" /\ opRows' = MovedRow(i, "waiting")
    /\ UNCHANGED <<messageCount, eventSeq, opSeq>>

(* It is resolved.  The event of that names the approval, whose payload has  *)
(* no conversation where dispatch_hook_event looks for one, so that it is    *)
(* not an event about the conversation. *)
ApprovalResolved ==
    /\ approval.state = "pending" /\ approval' = [approval EXCEPT !.state = "resolved"]
    /\ unheard' = IF approval.linked THEN unheard \cup {"resolution"} ELSE unheard
    /\ UNCHANGED <<messageCount, eventSeq, opRows, opSeq, clock>>

(* The operation that waits for it goes on, or is cancelled. *)
OperationFollows ==
    /\ "resolution" \in unheard /\ "operation" \notin unheard
    /\ \E i \in DOMAIN opRows, state \in {"running", "ended"} :
          opRows[i].state = "waiting" /\ opRows' = MovedRow(i, state)
    /\ unheard' = (unheard \ {"resolution"}) \cup {"operation"}
    /\ UNCHANGED <<messageCount, eventSeq, approval, opSeq, clock>>

(* Or its time runs out, which the next query of approvals writes. *)
ApprovalExpires ==
    /\ approval.state = "pending" /\ approval' = [approval EXCEPT !.state = "expired"]
    /\ UNCHANGED <<messageCount, eventSeq, opRows, opSeq, unheard, clock>>

Changes ==
    \/ /\ \/ MessageWritten \/ MessageAnnounced \/ MessageUnpublished
          \/ OperationStarts \/ RowEnds \/ OperationAnnounced
          \/ ApprovalAsked \/ ApprovalResolved \/ OperationFollows \/ ApprovalExpires
       /\ UNCHANGED <<entry, records, callerJobs, puts, given, blurs>>
    \/ RecordCalls /\ UNCHANGED newsVars

-----------------------------------------------------------------------------
(* The stream *)

(* A reader connects: the numbers are noted before the first snapshot. *)
Connect ==
    /\ stream.at = "off" /\ stream' = [at |-> "snapshot", seen |-> LatestSeqs]
    /\ UNCHANGED <<storeVars, newsVars, view>>

(* A poll that finds a number changed. *)
Poll ==
    /\ stream.at = "waiting" /\ LatestSeqs # stream.seen
    /\ stream' = [at |-> "snapshot", seen |-> LatestSeqs]
    /\ UNCHANGED <<storeVars, newsVars, view>>

(* build_conversation_stream_snapshot *)
Snapshot ==
    /\ stream.at = "snapshot" /\ stream' = [stream EXCEPT !.at = "waiting"]
    /\ view' = [good |-> TRUE, said |-> messageCount, approval |-> approval.state,
                operations |-> ShownOperations, records |-> records]
    /\ UNCHANGED <<storeVars, newsVars>>

(* When conversation.get or a query fails the reader is told so; the numbers *)
(* are noted all the same. *)
SnapshotFails ==
    /\ stream.at = "snapshot" /\ stream' = [stream EXCEPT !.at = "waiting"]
    /\ view' = Blank
    /\ UNCHANGED <<storeVars, newsVars>>

(* The connection ends. *)
Disconnect ==
    /\ stream.at = "waiting" /\ stream' = [at |-> "off", seen |-> Nothing] /\ view' = Blank
    /\ UNCHANGED <<storeVars, newsVars>>

StreamNext ==
    \/ Changes /\ UNCHANGED <<stream, view>>
    \/ Connect \/ Poll \/ Snapshot \/ SnapshotFails \/ Disconnect

StreamSpec == StreamInit /\ [][StreamNext]_streamVars

-----------------------------------------------------------------------------
(* The reader has all there is to have: nothing has changed since the last   *)
(* snapshot as far as the poll can tell, and that snapshot did not fail.     *)
UpToDate == stream.at = "waiting" /\ view.good /\ stream.seen = LatestSeqs

(* A reader that is up to date has every message, but one whose event is not *)
(* published yet or never was. *)
MessagesAreShown == UpToDate => view.said >= eventSeq

(* It has every operation as it is and in what state its approval is, but    *)
(* for the ones past the limit, which are those updated last, a change that  *)
(* is not announced yet, and an approval no operation waits for or whose     *)
(* time ran out. *)
OperationsAreShown ==
    UpToDate /\ unheard \cap {"operation", "resolution"} = {} =>
        /\ view.operations = ShownOperations
        /\ Len(opRows) <= OperationLimit => ToSet(view.operations) = ToSet(opRows)
        /\ approval.state = "resolved" /\ approval.linked => view.approval = "resolved"

(* It has every record with its payload, and the closed ones as closed, but  *)
(* while a record has been written late, or was closed by the second         *)
(* statement of an update, which no poll notices. *)
RecordsAreShown ==
    UpToDate /\ <<"late", 0>> \notin blurs =>
        /\ Len(view.records) = Len(records)
        /\ \A i \in DOMAIN records :
              /\ view.records[i].payload = records[i].payload
              /\ view.records[i].status = records[i].status
              /\ records[i].closed # 0 /\ <<"quiet", i>> \notin blurs =>
                    view.records[i].closed # 0
=============================================================================
