---------------------------- MODULE ExtensionStore ----------------------------
(***************************************************************************)
(* What extensions keep in the server (server/src/extension_runtime.rs):   *)
(* a state entry with a version, and the records of a conversation.        *)
(*                                                                         *)
(* Every call opens a connection of its own and runs its statements one by *)
(* one, whether it comes from the worker of an extension                   *)
(* (host_capabilities.rs) or over HTTP (routes/extensions.rs); calls       *)
(* overlap, and the server may stop between two of them.  Times are        *)
(* numbers handed out in order, and a payload is the time it was given at. *)
(* One entry and one conversation stand for all, since no statement reads  *)
(* another's.                                                              *)
(***************************************************************************)
EXTENDS Integers, Sequences, FiniteSets, SequencesExt, FiniteSetsExt

CONSTANTS
    StoreClients,   \* calls that may be in progress at once
    MaxRecords,     \* bound on the records
    MaxStoreCalls   \* bound on the calls, and so on the times they draw

ASSUME StoreAssumption == {MaxRecords, MaxStoreCalls} \subseteq Nat \ {0}

VARIABLES
    entry,      \* the row of the state entry, version 0 when there is none
    records,    \* the rows of the records
    clock,      \* the last time drawn
    callerJobs, \* what each call is doing
    puts,       \* the values the calls have answered with, and their version
    given,      \* for each record, the payload it was given last
    blurs       \* what overlapping calls and stops have disturbed

storeVars == <<entry, records, clock, callerJobs, puts, given, blurs>>

-----------------------------------------------------------------------------
Instants       == 0..MaxStoreCalls
RecStatuses == {"ready", "closed"}
Row         == [status : RecStatuses, payload : Instants, updated : Instants, closed : Instants]
RestingCall == [at |-> "rest", rec |-> 0, status |-> "none", fresh |-> FALSE,
                payload |-> 0, closed |-> 0, now |-> 0]
CallKinds   == {"rest", "put", "append", "update", "write", "close", "closing", "mark"}
Disturbances == {"entry", "payload", "mark", "late", "quiet"}

(* What an update gives: a payload, or a status. *)
UpdateInputs == {[status |-> "none", fresh |-> TRUE]} \cup
                {[status |-> s, fresh |-> FALSE] : s \in RecStatuses}

AtEase(c)     == callerJobs[c].at = "rest"
BecomeCall(c, job) == callerJobs' = [callerJobs EXCEPT ![c] = job]
Rest(c)        == BecomeCall(c, RestingCall)
Others(c, ats) == {d \in StoreClients \ {c} : callerJobs[d].at \in ats}
CountCall      == clock < MaxStoreCalls /\ clock' = clock + 1

StoreTypeOK ==
    /\ entry \in [value : Instants, version : Instants]
    /\ records \in Seq(Row) /\ Len(records) <= MaxRecords
    /\ clock \in Instants
    /\ callerJobs \in [StoreClients ->
          [at : CallKinds, rec : 0..MaxRecords, status : RecStatuses \cup {"none"},
           fresh : BOOLEAN, payload : Instants, closed : Instants, now : Instants]]
    /\ puts \subseteq [value : Instants, version : Instants]
    /\ given \in Seq(Instants) /\ Len(given) = Len(records)
    /\ blurs \subseteq Disturbances \X (0..MaxRecords)
    /\ \A i \in DOMAIN records : records[i].updated <= clock /\ records[i].payload <= clock

StoreInit ==
    /\ entry = [value |-> 0, version |-> 0]
    /\ records = <<>> /\ given = <<>> /\ clock = 0
    /\ callerJobs = [c \in StoreClients |-> RestingCall]
    /\ puts = {} /\ blurs = {}

-----------------------------------------------------------------------------
(* The state entry *)

(* put_state reads the row to number the next one. *)
ReadEntry(c) ==
    /\ AtEase(c) /\ CountCall
    /\ BecomeCall(c, [RestingCall EXCEPT !.at = "put", !.now = clock',
                                         !.payload = entry.version])
    /\ blurs' = IF Others(c, {"put"}) # {} THEN blurs \cup {<<"entry", 0>>} ELSE blurs
    /\ UNCHANGED <<entry, records, puts, given>>

(* A mutant: a row that is there keeps its version. *)
WriteEntryKeepingVersion(c) ==
    /\ callerJobs[c].at = "put" /\ Rest(c)
    /\ entry' = [value   |-> callerJobs[c].now,
                 version |-> IF callerJobs[c].payload = 0 THEN 1 ELSE callerJobs[c].payload]
    /\ puts' = puts \cup {entry'}
    /\ UNCHANGED <<records, clock, given, blurs>>

(* put_state writes it, whatever the row has become. *)
WriteEntry(c) ==
    /\ callerJobs[c].at = "put" /\ Rest(c)
    /\ entry' = [value |-> callerJobs[c].now, version |-> callerJobs[c].payload + 1]
    /\ puts' = puts \cup {entry'}
    /\ UNCHANGED <<records, clock, given, blurs>>

(* delete_state: the next version is the first again. *)
DeleteEntry(c) ==
    /\ AtEase(c) /\ CountCall
    /\ entry' = [value |-> 0, version |-> 0]
    /\ blurs' = IF entry.version # 0 THEN blurs \cup {<<"entry", 0>>} ELSE blurs
    /\ UNCHANGED <<records, callerJobs, puts, given>>

-----------------------------------------------------------------------------
(* Records *)

(* latest_conversation_record_updated_at, 0 when there is no record.         *)
LatestUpdate == Max({0} \cup {r.updated : r \in ToSet(records)})

(* A row written after one with a later time is on record as late. *)
Late(j) == IF j.now < LatestUpdate THEN blurs \cup {<<"late", 0>>} ELSE blurs

(* append_record takes the time, *)
StartAppend(c) ==
    /\ AtEase(c) /\ CountCall
    /\ \E s \in RecStatuses :
          BecomeCall(c, [RestingCall EXCEPT !.at = "append", !.now = clock', !.status = s])
    /\ UNCHANGED <<entry, records, puts, given, blurs>>

(* and inserts the row, open whatever its status says. *)
AppendRecord(c) ==
    LET j == callerJobs[c] IN
    /\ j.at = "append" /\ Len(records) < MaxRecords /\ Rest(c)
    /\ records' = Append(records, [status |-> j.status, payload |-> j.now,
                                   updated |-> j.now, closed |-> 0])
    /\ given' = Append(given, j.now)
    /\ blurs' = Late(j) \cup
          IF j.status = "closed" THEN {<<"mark", Len(records')>>} ELSE {}
    /\ UNCHANGED <<entry, clock, puts>>

(* update_record reads the row, with its payload and when it was closed, *)
ReadRecord(c) ==
    /\ AtEase(c)
    /\ \E i \in DOMAIN records, in \in UpdateInputs :
          /\ BecomeCall(c, [RestingCall EXCEPT !.at = "update", !.rec = i,
                              !.status = in.status, !.fresh = in.fresh,
                              !.payload = records[i].payload, !.closed = records[i].closed])
          /\ blurs' = IF \E d \in Others(c, {"update", "write"}) : callerJobs[d].rec = i
                      THEN blurs \cup {<<"payload", i>>} ELSE blurs
    /\ UNCHANGED <<entry, records, clock, puts, given>>

(* takes the time, *)
TakeTime(c) ==
    /\ callerJobs[c].at \in {"update", "close"} /\ CountCall
    /\ BecomeCall(c, [callerJobs[c] EXCEPT !.now = clock',
                        !.at = IF @ = "update" THEN "write" ELSE "closing"])
    /\ UNCHANGED <<entry, records, puts, given, blurs>>

Coalesce(s, t) == IF s = "none" THEN t ELSE s

(* A mutant: when the record was closed is what was read. *)
UpdateRecordAsRead(c) ==
    LET j == callerJobs[c] IN
    /\ j.at = "write"
    /\ records' = [records EXCEPT ![j.rec] =
          [status  |-> Coalesce(j.status, @.status),
           payload |-> IF j.fresh THEN j.now ELSE j.payload,
           updated |-> j.now, closed |-> j.closed]]
    /\ given' = IF j.fresh THEN [given EXCEPT ![j.rec] = j.now] ELSE given
    /\ IF j.status = "closed" /\ j.closed = 0
       THEN BecomeCall(c, [j EXCEPT !.at = "mark"]) ELSE Rest(c)
    /\ blurs' = Late(j)
    /\ UNCHANGED <<entry, clock, puts>>

(* and writes the row: a payload that was not given is the one it read.      *)
UpdateRecord(c) ==
    LET j == callerJobs[c] IN
    /\ j.at = "write"
    /\ records' = [records EXCEPT ![j.rec] =
          [status  |-> Coalesce(j.status, @.status),
           payload |-> IF j.fresh THEN j.now ELSE j.payload,
           updated |-> j.now, closed |-> IF @.closed # 0 THEN @.closed ELSE j.closed]]
    /\ given' = IF j.fresh THEN [given EXCEPT ![j.rec] = j.now] ELSE given
    /\ IF j.status = "closed" /\ j.closed = 0
       THEN BecomeCall(c, [j EXCEPT !.at = "mark"]) ELSE Rest(c)
    /\ blurs' = Late(j)
    /\ UNCHANGED <<entry, clock, puts>>

(* An update to closed of a record that it read as open closes it by a       *)
(* second statement, which leaves updated_at as it is. *)
MarkClosed(c) ==
    LET j == callerJobs[c] IN
    /\ j.at = "mark" /\ Rest(c)
    /\ records' = [records EXCEPT ![j.rec].closed = j.now]
    /\ blurs' = blurs \cup {<<"quiet", j.rec>>}
    /\ UNCHANGED <<entry, clock, puts, given>>

(* close_record finds the row, *)
FindRecord(c) ==
    /\ AtEase(c)
    /\ \E i \in DOMAIN records : BecomeCall(c, [RestingCall EXCEPT !.at = "close", !.rec = i])
    /\ UNCHANGED <<entry, records, clock, puts, given, blurs>>

(* and closes it; a status that is there stays. *)
CloseRecord(c) ==
    LET j == callerJobs[c] IN
    /\ j.at = "closing" /\ Rest(c)
    /\ records' = [records EXCEPT ![j.rec].updated = j.now, ![j.rec].closed = j.now]
    /\ blurs' = Late(j)
    /\ UNCHANGED <<entry, clock, puts, given>>

(* list_records with open_only. *)
OpenRecords == {i \in DOMAIN records : records[i].closed = 0}

(* The server stops. *)
StoreStops ==
    /\ \E c \in StoreClients : ~AtEase(c)
    /\ callerJobs' = [c \in StoreClients |-> RestingCall]
    /\ blurs' = blurs \cup {<<"mark", callerJobs[c].rec>> :
                              c \in {d \in StoreClients : callerJobs[d].at = "mark"}}
    /\ UNCHANGED <<entry, records, clock, puts, given>>

EntryCalls == \E c \in StoreClients : ReadEntry(c) \/ WriteEntry(c) \/ DeleteEntry(c)

RecordCalls ==
    \E c \in StoreClients :
        \/ StartAppend(c) \/ AppendRecord(c)
        \/ ReadRecord(c) \/ TakeTime(c) \/ UpdateRecord(c) \/ MarkClosed(c)
        \/ FindRecord(c) \/ CloseRecord(c)

StoreNext == EntryCalls \/ RecordCalls \/ StoreStops

StoreSpec == StoreInit /\ [][StoreNext]_storeVars

-----------------------------------------------------------------------------
(* Whoever compares versions tells two values apart, unless puts overlapped  *)
(* (both take the same version) or the entry was deleted in between. *)
VersionsTellValuesApart ==
    <<"entry", 0>> \notin blurs =>
        \A a, b \in puts : a.version = b.version => a.value = b.value

(* A record that was closed stays closed, whatever calls overlap: an update  *)
(* that read it while it was open does not open it again. *)
ClosedStaysClosed ==
    [][\A i \in DOMAIN records : records[i].closed # 0 => records'[i].closed # 0]_storeVars

(* A record whose status says closed is not listed as open, but while the    *)
(* update that closes it is between its two statements, when it stopped      *)
(* there, or when the record was appended with that status. *)
ClosedRecordsAreNotListed ==
    \A i \in OpenRecords :
        records[i].status = "closed" =>
            \/ <<"mark", i>> \in blurs
            \/ \E c \in StoreClients : callerJobs[c].at = "mark" /\ callerJobs[c].rec = i

(* A record has the payload it was given last, unless updates of it          *)
(* overlapped: the later one then puts back the payload it had read. *)
PayloadsAreKept ==
    \A i \in DOMAIN records :
        records[i].payload # given[i] => <<"payload", i>> \in blurs

(* What an extension reads back of its state tells it what has become of it, *)
(* over overlapping calls and a server that stops between two statements. *)
RecordsTellTheirState ==
    /\ VersionsTellValuesApart
    /\ ClosedRecordsAreNotListed
    /\ PayloadsAreKept
=============================================================================
