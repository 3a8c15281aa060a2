------------------------- MODULE ExtensionStoreProofs -------------------------
(***************************************************************************)
(* Theorems about what extensions keep: the state and the records of       *)
(* ExtensionStore, for every number of overlapping calls and of records,   *)
(* the stream that shows them to a reader (ConversationStream), and the    *)
(* memories of MemoryStore, for every bound on them, their reviewers and   *)
(* their budgets.                                                          *)
(***************************************************************************)
EXTENDS ConversationStream, MemoryStore, ConversationsProofs

StoreJobs == [at : CallKinds, rec : 0..MaxRecords, status : RecStatuses \cup {"none"},
              fresh : BOOLEAN, payload : Instants, closed : Instants, now : Instants]

-----------------------------------------------------------------------------
(* The inductive invariant. *)

(* A call names a record that is there and a time that was drawn; a put is   *)
(* about to give a version that is not ahead of the times, and a record that *)
(* is appended has a status.                                                 *)
JobRefs ==
    \A c \in StoreClients :
        LET j == callerJobs[c] IN
        /\ j.at \in {"update", "write", "close", "closing", "mark"} => j.rec \in DOMAIN records
        /\ j.at \in {"put", "append", "write", "closing", "mark"} => j.now \in 1..clock
        /\ j.at = "put" => j.payload < j.now
        /\ j.at = "append" => j.status # "none"
        /\ j.payload <= clock

(* Without overlapping puts the only one under way is about to give the      *)
(* version after the entry's, which is the highest so far.                   *)
Putting(c) == callerJobs[c].at = "put"

VersionsGrow ==
    <<"entry", 0>> \notin blurs =>
        /\ \A a \in puts : a.version <= entry.version
        /\ \A c \in StoreClients : Putting(c) => callerJobs[c].payload = entry.version
        /\ \A c, d \in StoreClients : Putting(c) /\ Putting(d) => c = d

(* Without overlapping updates of a record, the only one under way has read  *)
(* the payload that the record still has.                                    *)
Updating(c, i) == callerJobs[c].at \in {"update", "write"} /\ callerJobs[c].rec = i

ReadsAreCurrent ==
    \A i \in DOMAIN records : <<"payload", i>> \notin blurs =>
        /\ \A c \in StoreClients : Updating(c, i) => callerJobs[c].payload = records[i].payload
        /\ \A c, d \in StoreClients : Updating(c, i) /\ Updating(d, i) => c = d

StoreInv ==
    /\ StoreTypeOK
    /\ entry.version <= clock
    /\ JobRefs
    /\ VersionsGrow
    /\ ReadsAreCurrent
    /\ RecordsTellTheirState

LEMMA StoreFacts ==
    ASSUME StoreTypeOK
    PROVE  /\ records \in Seq(Row) /\ given \in Seq(Instants)
           /\ Len(records) \in Nat /\ DOMAIN records = 1..Len(records)
           /\ Len(given) = Len(records) /\ DOMAIN given = DOMAIN records
           /\ DOMAIN records \subseteq 1..MaxRecords
           /\ \A i \in DOMAIN records : records[i] \in Row /\ given[i] \in Instants
           /\ \A i \in DOMAIN records :
                 /\ records[i].updated \in Nat /\ records[i].updated <= clock
                 /\ records[i].payload \in Nat /\ records[i].payload <= clock
           /\ callerJobs \in [StoreClients -> StoreJobs]
           /\ clock \in Nat /\ clock <= MaxStoreCalls
           /\ MaxStoreCalls \in Nat /\ MaxRecords \in Nat
  <1>1. /\ records \in Seq(Row) /\ given \in Seq(Instants)
        /\ Len(given) = Len(records) /\ Len(records) <= MaxRecords
        /\ callerJobs \in [StoreClients -> StoreJobs]
        /\ clock \in Instants /\ MaxStoreCalls \in Nat /\ MaxRecords \in Nat
    BY StoreAssumption DEF StoreTypeOK, StoreJobs
  <1>2. /\ Len(records) \in Nat /\ DOMAIN records = 1..Len(records)
        /\ DOMAIN given = DOMAIN records
        /\ \A i \in DOMAIN records : records[i] \in Row /\ given[i] \in Instants
    BY <1>1, LenProperties
  <1>3. \A i \in DOMAIN records :
           records[i].updated <= clock /\ records[i].payload <= clock
    BY DEF StoreTypeOK
  <1>4. \A i \in DOMAIN records : records[i].updated \in Nat /\ records[i].payload \in Nat
    BY <1>1, <1>2 DEF Row, Instants
  <1> QED BY <1>1, <1>2, <1>3, <1>4 DEF Instants

LEMMA RestingIs == RestingCall \in StoreJobs /\ RestingCall.at = "rest" /\ RestingCall.payload = 0
  BY StoreAssumption DEF RestingCall, StoreJobs, CallKinds, Instants

LEMMA StoreInitially == StoreInit => StoreInv
  <1> SUFFICES ASSUME StoreInit PROVE StoreInv
    OBVIOUS
  <1> USE StoreAssumption DEF StoreInit
  <1>1. StoreTypeOK
    <2>1. callerJobs \in [StoreClients -> StoreJobs]
      BY RestingIs
    <2> QED BY <2>1, EmptySeq DEF StoreTypeOK, StoreJobs, Instants
  <1>2. entry.version <= clock /\ JobRefs
    BY RestingIs DEF JobRefs
  <1>3. VersionsGrow /\ ReadsAreCurrent
    BY RestingIs DEF VersionsGrow, ReadsAreCurrent, Putting
  <1>4. RecordsTellTheirState
    BY DEF RecordsTellTheirState, VersionsTellValuesApart, ClosedRecordsAreNotListed,
           OpenRecords, PayloadsAreKept
  <1> QED BY <1>1, <1>2, <1>3, <1>4 DEF StoreInv

(* A call becomes another; the others go on. *)
LEMMA JobBecomes ==
    ASSUME StoreTypeOK, NEW c \in StoreClients, NEW job \in StoreJobs, BecomeCall(c, job)
    PROVE  /\ callerJobs' \in [StoreClients -> StoreJobs]
           /\ callerJobs'[c] = job
           /\ \A d \in StoreClients \ {c} : callerJobs'[d] = callerJobs[d]
  BY StoreFacts DEF BecomeCall

LEMMA JobRests ==
    ASSUME StoreTypeOK, NEW c \in StoreClients, Rest(c)
    PROVE  /\ callerJobs' \in [StoreClients -> StoreJobs]
           /\ callerJobs'[c].at = "rest" /\ callerJobs'[c].payload = 0
           /\ \A d \in StoreClients \ {c} : callerJobs'[d] = callerJobs[d]
  BY JobBecomes, RestingIs DEF Rest

-----------------------------------------------------------------------------
(* The state entry. *)

(* The records stay as they are, no call begins or ends an update, and none  *)
(* that was about to mark a record is over.                                  *)
LEMMA RecordsLeft ==
    ASSUME StoreInv, UNCHANGED <<records, given>>, blurs \subseteq blurs',
           \A d \in StoreClients :
              \/ callerJobs'[d] = callerJobs[d]
              \/ /\ callerJobs[d].at # "mark"
                 /\ callerJobs'[d].at \in {"update", "write"} =>
                       /\ callerJobs[d].at \in {"update", "write"}
                       /\ callerJobs'[d].rec = callerJobs[d].rec
                       /\ callerJobs'[d].payload = callerJobs[d].payload
    PROVE  ReadsAreCurrent' /\ ClosedRecordsAreNotListed' /\ PayloadsAreKept'
  <1>1. ReadsAreCurrent'
    <2>1. \A d \in StoreClients, i \in DOMAIN records :
             Updating(d, i)' => /\ Updating(d, i)
                                /\ callerJobs'[d].payload = callerJobs[d].payload
      BY DEF Updating
    <2>2. SUFFICES ASSUME NEW i \in DOMAIN records, <<"payload", i>> \notin blurs
                   PROVE  /\ \A d \in StoreClients :
                                Updating(d, i)' => callerJobs'[d].payload = records[i].payload
                          /\ \A d, e \in StoreClients :
                                Updating(d, i)' /\ Updating(e, i)' => d = e
      BY DEF ReadsAreCurrent
    <2> QED BY <2>1, <2>2 DEF StoreInv, ReadsAreCurrent
  <1>2. ClosedRecordsAreNotListed'
    BY DEF StoreInv, RecordsTellTheirState, ClosedRecordsAreNotListed, OpenRecords
  <1>3. PayloadsAreKept'
    BY DEF StoreInv, RecordsTellTheirState, PayloadsAreKept
  <1> QED BY <1>1, <1>2, <1>3

LEMMA ReadEntryStep ==
    ASSUME StoreInv, NEW c \in StoreClients, ReadEntry(c)
    PROVE  StoreInv'
  <1> DEFINE job == [RestingCall EXCEPT !.at = "put", !.now = clock', !.payload = entry.version]
  <1>0. /\ StoreTypeOK /\ clock \in Nat /\ entry.version \in Instants /\ entry.version <= clock
        /\ callerJobs[c].at = "rest" /\ clock < MaxStoreCalls
    BY StoreFacts DEF StoreInv, StoreTypeOK, ReadEntry, AtEase, CountCall
  <1>a. clock' = clock + 1 /\ clock' \in Instants
    <2> MaxStoreCalls \in Nat
      BY StoreAssumption
    <2>1. clock' = clock + 1
      BY DEF ReadEntry, CountCall
    <2> QED BY <1>0, <2>1 DEF Instants
  <1>b. BecomeCall(c, job)
    BY Zenon DEF ReadEntry
  <1>2. /\ job \in StoreJobs /\ job.at = "put" /\ job.now = clock'
        /\ job.payload = entry.version
    <2>1. RestingCall \in StoreJobs /\ "put" \in CallKinds /\ entry.version \in Instants
      BY <1>0, RestingIs DEF CallKinds
    <2> QED BY <1>a, <2>1 DEF StoreJobs
  <1>1. /\ clock' = clock + 1 /\ clock' \in Instants
        /\ BecomeCall(c, job)
        /\ UNCHANGED <<entry, records, puts, given>>
        /\ blurs' = IF Others(c, {"put"}) # {} THEN blurs \cup {<<"entry", 0>>} ELSE blurs
    BY <1>a, <1>b, Zenon DEF ReadEntry
  <1> HIDE DEF job
  <1>3. /\ callerJobs' \in [StoreClients -> StoreJobs]
        /\ callerJobs'[c] = job
        /\ \A d \in StoreClients \ {c} : callerJobs'[d] = callerJobs[d]
    BY <1>0, <1>1, <1>2, JobBecomes
  <1>4. StoreTypeOK'
    <2>1. blurs' \subseteq Disturbances \X (0..MaxRecords)
      BY <1>1, StoreAssumption DEF StoreInv, StoreTypeOK, Disturbances
    <2>2. \A i \in DOMAIN records : records[i].updated <= clock' /\ records[i].payload <= clock'
      BY <1>0, <1>1, StoreFacts DEF Instants
    <2> QED BY <1>0, <1>1, <1>3, <2>1, <2>2 DEF StoreTypeOK, StoreJobs
  <1>5. JobRefs' /\ entry'.version <= clock'
    <2>1. \A d \in StoreClients : callerJobs[d] \in StoreJobs
      BY <1>0, StoreFacts
    <2> QED
      BY <1>0, <1>1, <1>2, <1>3, <2>1, StoreAssumption DEF StoreInv, JobRefs, StoreJobs, Instants
  <1>6. VersionsGrow'
    BY <1>1, <1>2, <1>3 DEF StoreInv, VersionsGrow, Putting, Others
  <1>7. VersionsTellValuesApart'
    BY <1>1 DEF StoreInv, RecordsTellTheirState, VersionsTellValuesApart
  <1>8. ReadsAreCurrent' /\ ClosedRecordsAreNotListed' /\ PayloadsAreKept'
    BY <1>0, <1>1, <1>2, <1>3, RecordsLeft
  <1> QED BY <1>4, <1>5, <1>6, <1>7, <1>8 DEF StoreInv, RecordsTellTheirState

LEMMA WriteEntryStep ==
    ASSUME StoreInv, NEW c \in StoreClients, WriteEntry(c)
    PROVE  StoreInv'
  <1> DEFINE row == [value |-> callerJobs[c].now, version |-> callerJobs[c].payload + 1]
  <1>0. /\ StoreTypeOK /\ clock \in Nat /\ clock <= MaxStoreCalls
        /\ callerJobs[c] \in StoreJobs /\ callerJobs[c].at = "put"
        /\ callerJobs[c].now \in 1..clock /\ callerJobs[c].payload < callerJobs[c].now
    BY StoreFacts DEF StoreInv, JobRefs, WriteEntry
  <1>1. /\ entry' = row /\ puts' = puts \cup {row}
        /\ UNCHANGED <<records, clock, given, blurs>> /\ Rest(c)
    BY DEF WriteEntry
  <1>2. /\ row.version = callerJobs[c].payload + 1 /\ row.version \in 1..clock
        /\ row \in [value : Instants, version : Instants]
    BY <1>0, StoreAssumption DEF StoreJobs, Instants
  <1> HIDE DEF row
  <1>3. /\ callerJobs' \in [StoreClients -> StoreJobs]
        /\ callerJobs'[c].at = "rest" /\ callerJobs'[c].payload = 0
        /\ \A d \in StoreClients \ {c} : callerJobs'[d] = callerJobs[d]
    BY <1>0, <1>1, JobRests
  <1>4. StoreTypeOK'
    BY <1>0, <1>1, <1>2, <1>3 DEF StoreTypeOK, StoreJobs
  <1>5. JobRefs' /\ entry'.version <= clock'
    BY <1>0, <1>1, <1>2, <1>3 DEF StoreInv, JobRefs
  <1>6. VersionsGrow' /\ VersionsTellValuesApart'
    <2> SUFFICES ASSUME <<"entry", 0>> \notin blurs
                 PROVE  VersionsGrow' /\ VersionsTellValuesApart'
      BY <1>1 DEF VersionsGrow, VersionsTellValuesApart
    <2>1. /\ callerJobs[c].payload = entry.version
          /\ \A d \in StoreClients \ {c} : ~Putting(d)
          /\ \A a \in puts : a.version <= entry.version
          /\ \A a, b \in puts : a.version = b.version => a.value = b.value
      BY <1>0 DEF StoreInv, VersionsGrow, Putting, RecordsTellTheirState, VersionsTellValuesApart
    <2>2. /\ row.version = entry.version + 1 /\ entry.version \in Nat
          /\ \A a \in puts : a.version \in Nat /\ a.version < row.version
      BY <1>0, <1>2, <2>1, StoreAssumption DEF StoreTypeOK, Instants
    <2>3. VersionsGrow'
      BY <1>1, <1>3, <2>1, <2>2 DEF VersionsGrow, Putting
    <2>4. VersionsTellValuesApart'
      BY <1>1, <1>2, <2>1, <2>2 DEF VersionsTellValuesApart
    <2> QED BY <2>3, <2>4
  <1>8. ReadsAreCurrent' /\ ClosedRecordsAreNotListed' /\ PayloadsAreKept'
    BY <1>0, <1>1, <1>3, RecordsLeft
  <1> QED BY <1>4, <1>5, <1>6, <1>8 DEF StoreInv, RecordsTellTheirState

LEMMA DeleteEntryStep ==
    ASSUME StoreInv, NEW c \in StoreClients, DeleteEntry(c)
    PROVE  StoreInv'
  <1>0. StoreTypeOK /\ clock \in Nat /\ clock < MaxStoreCalls /\ MaxStoreCalls \in Nat
    BY StoreFacts DEF StoreInv, DeleteEntry, CountCall
  <1>1. /\ clock' = clock + 1 /\ clock' \in Instants
        /\ entry' = [value |-> 0, version |-> 0]
        /\ blurs' = IF entry.version # 0 THEN blurs \cup {<<"entry", 0>>} ELSE blurs
        /\ UNCHANGED <<records, callerJobs, puts, given>>
    BY <1>0 DEF DeleteEntry, CountCall, Instants
  <1>4. StoreTypeOK'
    <2>1. blurs' \subseteq Disturbances \X (0..MaxRecords)
      BY <1>1, StoreAssumption DEF StoreInv, StoreTypeOK, Disturbances
    <2>2. \A i \in DOMAIN records : records[i].updated <= clock' /\ records[i].payload <= clock'
      BY <1>0, <1>1, StoreFacts DEF Instants
    <2>3. entry' \in [value : Instants, version : Instants]
      BY <1>0, <1>1 DEF Instants
    <2> QED BY <1>0, <1>1, <2>1, <2>2, <2>3 DEF StoreTypeOK, StoreJobs
  <1>5. JobRefs' /\ entry'.version <= clock'
    <2>1. \A d \in StoreClients : callerJobs[d] \in StoreJobs
      BY <1>0, StoreFacts
    <2> QED BY <1>0, <1>1, <2>1 DEF StoreInv, JobRefs, StoreJobs, Instants
  <1>6. VersionsGrow' /\ VersionsTellValuesApart'
    <2>1. CASE entry.version # 0
      BY <1>1, <2>1 DEF VersionsGrow, VersionsTellValuesApart
    <2>2. CASE entry.version = 0
      BY <1>1, <2>2 DEF StoreInv, VersionsGrow, Putting, RecordsTellTheirState,
                        VersionsTellValuesApart
    <2> QED BY <2>1, <2>2
  <1>8. ReadsAreCurrent' /\ ClosedRecordsAreNotListed' /\ PayloadsAreKept'
    BY <1>0, <1>1, RecordsLeft
  <1> QED BY <1>4, <1>5, <1>6, <1>8 DEF StoreInv, RecordsTellTheirState

-----------------------------------------------------------------------------
(* Records. *)

(* No call begins to put and the entry stays. *)
LEMMA EntryLeft ==
    ASSUME StoreInv, UNCHANGED <<entry, puts>>, blurs \subseteq blurs',
           clock' \in Nat, clock <= clock',
           \A d \in StoreClients : callerJobs'[d] = callerJobs[d] \/ callerJobs'[d].at # "put"
    PROVE  VersionsGrow' /\ VersionsTellValuesApart' /\ entry'.version <= clock'
  <1>1. VersionsGrow' /\ VersionsTellValuesApart'
    BY DEF StoreInv, VersionsGrow, Putting, RecordsTellTheirState, VersionsTellValuesApart
  <1>2. entry.version \in Nat /\ clock \in Nat
    BY StoreFacts DEF StoreInv, StoreTypeOK, Instants
  <1> QED BY <1>1, <1>2 DEF StoreInv

(* One call changes, and what it has become is sound. *)
LEMMA JobChanges ==
    ASSUME StoreInv, NEW c \in StoreClients,
           DOMAIN records \subseteq DOMAIN records', clock' \in Nat, clock <= clock',
           \A d \in StoreClients \ {c} : callerJobs'[d] = callerJobs[d],
           callerJobs'[c].at \in {"update", "write", "close", "closing", "mark"} =>
               callerJobs'[c].rec \in DOMAIN records',
           callerJobs'[c].at \in {"append", "write", "closing", "mark"} =>
               callerJobs'[c].now \in 1..clock',
           callerJobs'[c].at = "append" => callerJobs'[c].status # "none",
           callerJobs'[c].at # "put", callerJobs'[c].payload <= clock'
    PROVE  JobRefs'
  <1>1. \A d \in StoreClients : callerJobs[d] \in StoreJobs /\ callerJobs[d].payload \in Nat
    BY StoreFacts DEF StoreInv, StoreJobs, Instants
  <1>2. clock \in Nat
    BY StoreFacts DEF StoreInv
  <1> QED BY <1>1, <1>2 DEF StoreInv, JobRefs

(* One row is replaced. *)
LEMMA RowReplaced ==
    ASSUME NEW s \in Seq(Row), NEW i \in DOMAIN s, NEW row \in Row,
           NEW t, t = [s EXCEPT ![i] = row]
    PROVE  /\ t \in Seq(Row) /\ Len(t) = Len(s) /\ DOMAIN t = DOMAIN s
           /\ t[i] = row /\ \A k \in DOMAIN s \ {i} : t[k] = s[k]
  BY ExceptSeq

LEMMA StartAppendStep ==
    ASSUME StoreInv, NEW c \in StoreClients, StartAppend(c)
    PROVE  StoreInv'
  <1>0. /\ StoreTypeOK /\ clock \in Nat /\ MaxStoreCalls \in Nat
        /\ callerJobs[c].at = "rest" /\ clock < MaxStoreCalls
    BY StoreFacts DEF StoreInv, StartAppend, AtEase, CountCall
  <1>a. clock' = clock + 1 /\ clock' \in Instants
    <2>1. clock' = clock + 1
      BY DEF StartAppend, CountCall
    <2> QED BY <1>0, <2>1 DEF Instants
  <1>b. UNCHANGED <<entry, records, puts, given, blurs>>
    BY DEF StartAppend
  <1>c. PICK s \in RecStatuses :
           BecomeCall(c, [RestingCall EXCEPT !.at = "append", !.now = clock', !.status = s])
    BY Zenon DEF StartAppend
  <1> DEFINE job == [RestingCall EXCEPT !.at = "append", !.now = clock', !.status = s]
  <1>2. /\ job \in StoreJobs /\ job.at = "append" /\ job.now = clock' /\ job.payload = 0
        /\ job.status # "none"
    <2>1. /\ RestingCall \in StoreJobs /\ "append" \in CallKinds /\ RestingCall.payload = 0
          /\ s # "none"
      BY RestingIs DEF CallKinds, RecStatuses
    <2> QED BY <1>a, <2>1 DEF StoreJobs
  <1>d. BecomeCall(c, job)
    BY <1>c
  <1> HIDE DEF job
  <1>3. /\ callerJobs' \in [StoreClients -> StoreJobs]
        /\ callerJobs'[c] = job
        /\ \A d \in StoreClients \ {c} : callerJobs'[d] = callerJobs[d]
    BY <1>0, <1>2, <1>d, JobBecomes
  <1>4. StoreTypeOK'
    <2>2. \A i \in DOMAIN records : records[i].updated <= clock' /\ records[i].payload <= clock'
      BY <1>0, <1>a, StoreFacts DEF Instants
    <2> QED BY <1>0, <1>a, <1>b, <1>3, <2>2 DEF StoreTypeOK, StoreJobs
  <1>5. JobRefs'
    BY <1>0, <1>a, <1>b, <1>2, <1>3, JobChanges
  <1>6. VersionsGrow' /\ VersionsTellValuesApart' /\ entry'.version <= clock'
    BY <1>0, <1>a, <1>b, <1>2, <1>3, EntryLeft
  <1>7. ReadsAreCurrent' /\ ClosedRecordsAreNotListed' /\ PayloadsAreKept'
    BY <1>0, <1>b, <1>2, <1>3, RecordsLeft
  <1> QED BY <1>4, <1>5, <1>6, <1>7 DEF StoreInv, RecordsTellTheirState

LEMMA TakeTimeStep ==
    ASSUME StoreInv, NEW c \in StoreClients, TakeTime(c)
    PROVE  StoreInv'
  <1> DEFINE job == [callerJobs[c] EXCEPT !.now = clock',
                        !.at = IF @ = "update" THEN "write" ELSE "closing"]
  <1>0. /\ StoreTypeOK /\ clock \in Nat /\ MaxStoreCalls \in Nat /\ callerJobs[c] \in StoreJobs
        /\ callerJobs[c].at \in {"update", "close"} /\ clock < MaxStoreCalls
        /\ callerJobs[c].rec \in DOMAIN records /\ callerJobs[c].payload <= clock
    BY StoreFacts DEF StoreInv, JobRefs, TakeTime, CountCall
  <1>a. clock' = clock + 1 /\ clock' \in Instants
    <2>1. clock' = clock + 1
      BY DEF TakeTime, CountCall
    <2> QED BY <1>0, <2>1 DEF Instants
  <1>b. UNCHANGED <<entry, records, puts, given, blurs>>
    BY DEF TakeTime
  <1>d. BecomeCall(c, job)
    BY Zenon DEF TakeTime
  <1>2. /\ job \in StoreJobs /\ job.now = clock'
        /\ job.at = (IF callerJobs[c].at = "update" THEN "write" ELSE "closing")
        /\ job.payload = callerJobs[c].payload /\ job.rec = callerJobs[c].rec
    <2>1. {"write", "closing"} \subseteq CallKinds
      BY DEF CallKinds
    <2> QED BY <1>0, <1>a, <2>1 DEF StoreJobs
  <1> HIDE DEF job
  <1>3. /\ callerJobs' \in [StoreClients -> StoreJobs]
        /\ callerJobs'[c] = job
        /\ \A d \in StoreClients \ {c} : callerJobs'[d] = callerJobs[d]
    BY <1>0, <1>2, <1>d, JobBecomes
  <1>4. StoreTypeOK'
    <2>2. \A i \in DOMAIN records : records[i].updated <= clock' /\ records[i].payload <= clock'
      BY <1>0, <1>a, StoreFacts DEF Instants
    <2> QED BY <1>0, <1>a, <1>b, <1>3, <2>2 DEF StoreTypeOK, StoreJobs
  <1>5. JobRefs'
    <2>1. callerJobs[c].payload \in Nat
      BY <1>0 DEF StoreJobs, Instants
    <2> QED BY <1>0, <1>a, <1>b, <1>2, <1>3, <2>1, JobChanges
  <1>6. VersionsGrow' /\ VersionsTellValuesApart' /\ entry'.version <= clock'
    BY <1>0, <1>a, <1>b, <1>2, <1>3, EntryLeft
  <1>7. ReadsAreCurrent' /\ ClosedRecordsAreNotListed' /\ PayloadsAreKept'
    BY <1>0, <1>b, <1>2, <1>3, RecordsLeft
  <1> QED BY <1>4, <1>5, <1>6, <1>7 DEF StoreInv, RecordsTellTheirState

LEMMA FindRecordStep ==
    ASSUME StoreInv, NEW c \in StoreClients, FindRecord(c)
    PROVE  StoreInv'
  <1>0. StoreTypeOK /\ clock \in Nat /\ callerJobs[c].at = "rest"
    BY StoreFacts DEF StoreInv, FindRecord, AtEase
  <1>b. UNCHANGED <<entry, records, clock, puts, given, blurs>>
    BY DEF FindRecord
  <1>c. PICK i \in DOMAIN records :
           BecomeCall(c, [RestingCall EXCEPT !.at = "close", !.rec = i])
    BY Zenon DEF FindRecord
  <1> DEFINE job == [RestingCall EXCEPT !.at = "close", !.rec = i]
  <1>2. job \in StoreJobs /\ job.at = "close" /\ job.rec = i /\ job.payload = 0
    <2>1. RestingCall \in StoreJobs /\ "close" \in CallKinds /\ RestingCall.payload = 0
      BY RestingIs DEF CallKinds
    <2>2. i \in 0..MaxRecords
      BY <1>0, StoreFacts
    <2> QED BY <2>1, <2>2 DEF StoreJobs
  <1>d. BecomeCall(c, job)
    BY <1>c
  <1> HIDE DEF job
  <1>3. /\ callerJobs' \in [StoreClients -> StoreJobs]
        /\ callerJobs'[c] = job
        /\ \A d \in StoreClients \ {c} : callerJobs'[d] = callerJobs[d]
    BY <1>0, <1>2, <1>d, JobBecomes
  <1>4. StoreTypeOK'
    BY <1>0, <1>b, <1>3 DEF StoreTypeOK, StoreJobs
  <1>5. JobRefs'
    BY <1>0, <1>b, <1>2, <1>3, JobChanges
  <1>6. VersionsGrow' /\ VersionsTellValuesApart' /\ entry'.version <= clock'
    BY <1>0, <1>b, <1>2, <1>3, EntryLeft
  <1>7. ReadsAreCurrent' /\ ClosedRecordsAreNotListed' /\ PayloadsAreKept'
    BY <1>0, <1>b, <1>2, <1>3, RecordsLeft
  <1> QED BY <1>4, <1>5, <1>6, <1>7 DEF StoreInv, RecordsTellTheirState

LEMMA ReadRecordStep ==
    ASSUME StoreInv, NEW c \in StoreClients, ReadRecord(c)
    PROVE  StoreInv'
  <1>0. /\ StoreTypeOK /\ clock \in Nat /\ callerJobs[c].at = "rest"
        /\ callerJobs \in [StoreClients -> StoreJobs]
    BY StoreFacts DEF StoreInv, ReadRecord, AtEase
  <1>b. UNCHANGED <<entry, records, clock, puts, given>>
    BY DEF ReadRecord
  <1>c. PICK i \in DOMAIN records, in \in UpdateInputs :
           /\ BecomeCall(c, [RestingCall EXCEPT !.at = "update", !.rec = i,
                              !.status = in.status, !.fresh = in.fresh,
                              !.payload = records[i].payload, !.closed = records[i].closed])
           /\ blurs' = IF \E d \in Others(c, {"update", "write"}) : callerJobs[d].rec = i
                       THEN blurs \cup {<<"payload", i>>} ELSE blurs
    BY Zenon DEF ReadRecord
  <1> DEFINE job == [RestingCall EXCEPT !.at = "update", !.rec = i,
                              !.status = in.status, !.fresh = in.fresh,
                              !.payload = records[i].payload, !.closed = records[i].closed]
  <1>2. /\ job \in StoreJobs /\ job.at = "update" /\ job.rec = i
        /\ job.payload = records[i].payload
    <2>1. RestingCall \in StoreJobs /\ "update" \in CallKinds
      BY RestingIs DEF CallKinds
    <2>2. /\ i \in 0..MaxRecords
          /\ records[i].payload \in Instants /\ records[i].closed \in Instants
      BY <1>0, StoreFacts DEF Row
    <2>3. in.status \in RecStatuses \cup {"none"} /\ in.fresh \in BOOLEAN
      <3>1. CASE in = [status |-> "none", fresh |-> TRUE]
        BY <3>1
      <3>2. CASE \E t \in RecStatuses : in = [status |-> t, fresh |-> FALSE]
        BY <3>2
      <3> QED BY <3>1, <3>2 DEF UpdateInputs
    <2> QED BY <2>1, <2>2, <2>3 DEF StoreJobs
  <1>d. BecomeCall(c, job)
    BY <1>c
  <1> HIDE DEF job
  <1>3. /\ callerJobs' \in [StoreClients -> StoreJobs]
        /\ callerJobs'[c] = job
        /\ \A d \in StoreClients \ {c} : callerJobs'[d] = callerJobs[d]
    BY <1>0, <1>2, <1>d, JobBecomes
  <1>e. blurs \subseteq blurs' /\ records[i].payload \in Nat /\ records[i].payload <= clock
    BY <1>0, <1>c, StoreFacts
  <1>4. StoreTypeOK'
    <2>1. blurs' \subseteq Disturbances \X (0..MaxRecords)
      <3>1. <<"payload", i>> \in Disturbances \X (0..MaxRecords)
        BY <1>0, StoreFacts DEF Disturbances
      <3>2. blurs \subseteq Disturbances \X (0..MaxRecords)
        BY <1>0 DEF StoreTypeOK
      <3> QED BY <3>1, <3>2, <1>c
    <2> QED BY <1>0, <1>b, <1>3, <2>1 DEF StoreTypeOK, StoreJobs
  <1>5. JobRefs'
    BY <1>0, <1>b, <1>2, <1>3, <1>e, JobChanges
  <1>6. VersionsGrow' /\ VersionsTellValuesApart' /\ entry'.version <= clock'
    BY <1>0, <1>b, <1>e, <1>2, <1>3, EntryLeft
  <1>7. ReadsAreCurrent'
    <2> SUFFICES ASSUME NEW k \in DOMAIN records, <<"payload", k>> \notin blurs'
                 PROVE  /\ \A d \in StoreClients :
                             Updating(d, k)' => callerJobs'[d].payload = records[k].payload
                        /\ \A d, e \in StoreClients :
                             Updating(d, k)' /\ Updating(e, k)' => d = e
      BY <1>b DEF ReadsAreCurrent
    <2>1. /\ \A d \in StoreClients : Updating(d, k) => callerJobs[d].payload = records[k].payload
          /\ \A d, e \in StoreClients : Updating(d, k) /\ Updating(e, k) => d = e
      BY <1>e DEF StoreInv, ReadsAreCurrent
    <2>2. \A d \in StoreClients \ {c} : Updating(d, k)' <=> Updating(d, k)
      BY <1>3 DEF Updating
    <2>3. CASE k # i
      <3>1. ~Updating(c, k)'
        BY <1>2, <1>3, <2>3 DEF Updating
      <3> QED BY <1>3, <2>1, <2>2, <3>1
    <2>4. CASE k = i
      <3>1. \A d \in StoreClients \ {c} : ~Updating(d, k)
        BY <1>c, <2>4 DEF Others, Updating
      <3> QED BY <1>2, <1>3, <2>2, <2>4, <3>1
    <2> QED BY <2>3, <2>4
  <1>8. ClosedRecordsAreNotListed'
    BY <1>0, <1>b, <1>e, <1>3
    DEF StoreInv, RecordsTellTheirState, ClosedRecordsAreNotListed, OpenRecords
  <1>9. PayloadsAreKept'
    BY <1>b, <1>e DEF StoreInv, RecordsTellTheirState, PayloadsAreKept
  <1> QED BY <1>4, <1>5, <1>6, <1>7, <1>8, <1>9 DEF StoreInv, RecordsTellTheirState

(* A closed record stays closed. *)
ClosedLasts == \A i \in DOMAIN records : records[i].closed # 0 => records'[i].closed # 0

(* One more row, which no call is about. *)
LEMMA AppendRecordStep ==
    ASSUME StoreInv, NEW c \in StoreClients, AppendRecord(c)
    PROVE  StoreInv' /\ ClosedLasts
  <1> DEFINE j == callerJobs[c]
             row == [status |-> j.status, payload |-> j.now, updated |-> j.now, closed |-> 0]
  <1>0. /\ StoreTypeOK /\ clock \in Nat /\ MaxStoreCalls \in Nat /\ clock <= MaxStoreCalls
        /\ j \in StoreJobs /\ j.at = "append" /\ j.now \in 1..clock
        /\ Len(records) \in Nat /\ Len(records) < MaxRecords /\ MaxRecords \in Nat
        /\ DOMAIN records = 1..Len(records)
    BY StoreFacts DEF StoreInv, JobRefs, AppendRecord
  <1>n. PICK n \in Nat : n = Len(records) + 1
    BY <1>0
  <1>1. /\ records' = Append(records, row) /\ given' = Append(given, j.now)
        /\ Rest(c) /\ UNCHANGED <<entry, clock, puts>>
        /\ blurs' = Late(j) \cup IF j.status = "closed" THEN {<<"mark", Len(records')>>} ELSE {}
    BY DEF AppendRecord
  <1>2. /\ row \in Row /\ row.payload = j.now /\ row.updated = j.now /\ row.closed = 0
        /\ row.status = j.status
    <2>1. j.status \in RecStatuses /\ j.now \in Instants /\ 0 \in Instants
      BY <1>0 DEF StoreInv, JobRefs, StoreJobs, Instants
    <2> QED BY <2>1 DEF Row
  <1>3. /\ callerJobs' \in [StoreClients -> StoreJobs]
        /\ callerJobs'[c].at = "rest" /\ callerJobs'[c].payload = 0
        /\ \A d \in StoreClients \ {c} : callerJobs'[d] = callerJobs[d]
    BY <1>0, <1>1, JobRests
  <1> HIDE DEF row, j
  <1>4. /\ records' \in Seq(Row) /\ Len(records') = n /\ records'[n] = row
        /\ DOMAIN records' = 1..n /\ \A i \in DOMAIN records : records'[i] = records[i]
    <2>1. records \in Seq(Row)
      BY <1>0 DEF StoreTypeOK
    <2> QED BY <1>0, <1>1, <1>2, <1>n, <2>1, AppendProperties, LenProperties
  <1>5. /\ given' \in Seq(Instants) /\ Len(given') = n /\ given'[n] = j.now
        /\ \A i \in DOMAIN records : given'[i] = given[i]
    <2>1. given \in Seq(Instants) /\ Len(given) = Len(records) /\ j.now \in Instants
      BY <1>0 DEF StoreTypeOK, Instants
    <2> QED BY <1>0, <1>1, <1>n, <2>1, AppendProperties, LenProperties
  <1>6. /\ n \in 1..MaxRecords /\ n \notin DOMAIN records /\ DOMAIN records' = DOMAIN records \cup {n}
        /\ blurs \subseteq blurs'
        /\ j.status = "closed" => <<"mark", n>> \in blurs'
    BY <1>0, <1>1, <1>4, <1>n DEF Late
  <1>7. StoreTypeOK'
    <2>1. blurs' \subseteq Disturbances \X (0..MaxRecords)
      <3>1. /\ <<"mark", n>> \in Disturbances \X (0..MaxRecords)
            /\ <<"late", 0>> \in Disturbances \X (0..MaxRecords)
        BY <1>0, <1>6 DEF Disturbances
      <3>2. blurs \subseteq Disturbances \X (0..MaxRecords)
        BY <1>0 DEF StoreTypeOK
      <3> QED BY <3>1, <3>2, <1>1, <1>4 DEF Late
    <2>2. \A i \in DOMAIN records' : records'[i].updated <= clock' /\ records'[i].payload <= clock'
      BY <1>0, <1>1, <1>2, <1>4, <1>6 DEF StoreTypeOK
    <2> QED BY <1>0, <1>1, <1>3, <1>4, <1>5, <1>6, <2>1, <2>2 DEF StoreTypeOK, StoreJobs
  <1>8. JobRefs'
    BY <1>0, <1>1, <1>3, <1>6, JobChanges
  <1>9. VersionsGrow' /\ VersionsTellValuesApart' /\ entry'.version <= clock'
    BY <1>0, <1>1, <1>3, <1>6, EntryLeft
  <1>10. ReadsAreCurrent'
    <2>1. ASSUME NEW d \in StoreClients, Updating(d, n)' PROVE FALSE
      <3>1. d # c /\ callerJobs'[d] = callerJobs[d]
        BY <1>3, <2>1 DEF Updating
      <3>2. callerJobs[d].at \in {"update", "write"} /\ callerJobs[d].rec = n
        BY <2>1, <3>1 DEF Updating
      <3>3. callerJobs[d].rec \in DOMAIN records
        BY <3>2 DEF StoreInv, JobRefs
      <3> QED BY <1>6, <3>2, <3>3
    <2>2. \A d \in StoreClients, i \in DOMAIN records :
             Updating(d, i)' => Updating(d, i) /\ callerJobs'[d] = callerJobs[d]
      BY <1>3 DEF Updating
    <2> SUFFICES ASSUME NEW i \in DOMAIN records', <<"payload", i>> \notin blurs'
                 PROVE  /\ \A d \in StoreClients :
                             Updating(d, i)' => callerJobs'[d].payload = records'[i].payload
                        /\ \A d, e \in StoreClients :
                             Updating(d, i)' /\ Updating(e, i)' => d = e
      BY DEF ReadsAreCurrent
    <2>3. CASE i = n
      BY <2>1, <2>3
    <2>4. CASE i \in DOMAIN records
      <3>1. /\ \A d \in StoreClients : Updating(d, i) => callerJobs[d].payload = records[i].payload
            /\ \A d, e \in StoreClients : Updating(d, i) /\ Updating(e, i) => d = e
        BY <1>6, <2>4 DEF StoreInv, ReadsAreCurrent
      <3> QED BY <1>4, <2>2, <2>4, <3>1
    <2> QED BY <1>6, <2>3, <2>4
  <1>11. ClosedRecordsAreNotListed'
    <2> SUFFICES ASSUME NEW i \in DOMAIN records', records'[i].closed = 0,
                        records'[i].status = "closed", <<"mark", i>> \notin blurs'
                 PROVE  \E d \in StoreClients : /\ callerJobs'[d].at = "mark"
                                                /\ callerJobs'[d].rec = i
      BY DEF ClosedRecordsAreNotListed, OpenRecords
    <2>1. i \in DOMAIN records
      BY <1>2, <1>4, <1>6
    <2>2. PICK d \in StoreClients : callerJobs[d].at = "mark" /\ callerJobs[d].rec = i
      BY <1>4, <1>6, <2>1
      DEF StoreInv, RecordsTellTheirState, ClosedRecordsAreNotListed, OpenRecords
    <2>3. d # c
      BY <1>0, <2>2 DEF j
    <2> QED BY <1>3, <2>2, <2>3
  <1>12. PayloadsAreKept'
    BY <1>2, <1>4, <1>5, <1>6 DEF StoreInv, RecordsTellTheirState, PayloadsAreKept
  <1>13. ClosedLasts
    BY <1>4 DEF ClosedLasts
  <1> QED BY <1>7, <1>8, <1>9, <1>10, <1>11, <1>12, <1>13 DEF StoreInv, RecordsTellTheirState

(* A row is replaced by a call that is then about to mark it at most: what   *)
(* is left to show is about that row. *)
LEMMA RowStep ==
    ASSUME StoreInv, NEW c \in StoreClients, NEW i \in DOMAIN records, NEW row \in Row,
           records' = [records EXCEPT ![i] = row],
           UNCHANGED <<entry, clock, puts>>,
           row.updated <= clock, row.payload <= clock,
           given' \in Seq(Instants), Len(given') = Len(given),
           \A k \in DOMAIN records \ {i} : given'[k] = given[k],
           blurs \subseteq blurs', blurs' \subseteq Disturbances \X (0..MaxRecords),
           callerJobs' \in [StoreClients -> StoreJobs],
           \A d \in StoreClients \ {c} : callerJobs'[d] = callerJobs[d],
           callerJobs[c].at = "mark" => callerJobs[c].rec = i,
           callerJobs'[c].at \in {"rest", "mark"}, callerJobs'[c].payload <= clock,
           callerJobs'[c].at = "mark" =>
               callerJobs'[c].rec \in DOMAIN records /\ callerJobs'[c].now \in 1..clock,
           <<"payload", i>> \notin blurs /\ row.payload # records[i].payload =>
               \A d \in StoreClients \ {c} : ~Updating(d, i),
           row.closed = 0 /\ row.status = "closed" =>
               \/ <<"mark", i>> \in blurs'
               \/ \E d \in StoreClients : callerJobs'[d].at = "mark" /\ callerJobs'[d].rec = i,
           row.payload # given'[i] => <<"payload", i>> \in blurs',
           records[i].closed # 0 => row.closed # 0
    PROVE  StoreInv' /\ ClosedLasts
  <1>0. /\ StoreTypeOK /\ clock \in Nat /\ records \in Seq(Row)
    BY StoreFacts DEF StoreInv
  <1>1. /\ records' \in Seq(Row) /\ Len(records') = Len(records)
        /\ DOMAIN records' = DOMAIN records /\ records'[i] = row
        /\ \A k \in DOMAIN records \ {i} : records'[k] = records[k]
    BY <1>0, RowReplaced
  <1>2. StoreTypeOK'
    <2>1. \A k \in DOMAIN records' : records'[k].updated <= clock' /\ records'[k].payload <= clock'
      BY <1>0, <1>1 DEF StoreTypeOK
    <2> QED BY <1>0, <1>1, <2>1 DEF StoreTypeOK, StoreJobs
  <1>3. JobRefs'
    <2>1. /\ clock' \in Nat /\ clock <= clock' /\ DOMAIN records \subseteq DOMAIN records'
          /\ callerJobs'[c].at \notin {"put", "append", "update", "write", "close", "closing"}
          /\ callerJobs'[c].payload <= clock'
          /\ callerJobs'[c].at = "mark" =>
                callerJobs'[c].rec \in DOMAIN records' /\ callerJobs'[c].now \in 1..clock'
      BY <1>0, <1>1
    <2> QED BY <2>1, JobChanges
  <1>4. VersionsGrow' /\ VersionsTellValuesApart' /\ entry'.version <= clock'
    BY <1>0, EntryLeft
  <1>5. ReadsAreCurrent'
    <2> SUFFICES ASSUME NEW k \in DOMAIN records, <<"payload", k>> \notin blurs'
                 PROVE  /\ \A d \in StoreClients :
                             Updating(d, k)' => callerJobs'[d].payload = records'[k].payload
                        /\ \A d, e \in StoreClients :
                             Updating(d, k)' /\ Updating(e, k)' => d = e
      BY <1>1 DEF ReadsAreCurrent
    <2>1. /\ \A d \in StoreClients : Updating(d, k) => callerJobs[d].payload = records[k].payload
          /\ \A d, e \in StoreClients : Updating(d, k) /\ Updating(e, k) => d = e
      BY DEF StoreInv, ReadsAreCurrent
    <2>2. \A d \in StoreClients :
             Updating(d, k)' => d # c /\ Updating(d, k) /\ callerJobs'[d] = callerJobs[d]
      BY DEF Updating
    <2>3. CASE k = i /\ row.payload # records[i].payload
      BY <2>2, <2>3
    <2>4. CASE k # i \/ row.payload = records[i].payload
      <3>1. records'[k].payload = records[k].payload
        BY <1>1, <2>4
      <3> QED BY <2>1, <2>2, <3>1
    <2> QED BY <2>3, <2>4
  <1>6. ClosedRecordsAreNotListed'
    <2> SUFFICES ASSUME NEW k \in DOMAIN records, records'[k].closed = 0,
                        records'[k].status = "closed", <<"mark", k>> \notin blurs'
                 PROVE  \E d \in StoreClients : /\ callerJobs'[d].at = "mark"
                                                /\ callerJobs'[d].rec = k
      BY <1>1 DEF ClosedRecordsAreNotListed, OpenRecords
    <2>1. CASE k = i
      BY <1>1, <2>1
    <2>2. CASE k # i
      <3>1. PICK d \in StoreClients : callerJobs[d].at = "mark" /\ callerJobs[d].rec = k
        BY <1>1, <2>2
        DEF StoreInv, RecordsTellTheirState, ClosedRecordsAreNotListed, OpenRecords
      <3>2. d # c
        BY <2>2, <3>1
      <3> QED BY <3>1, <3>2
    <2> QED BY <2>1, <2>2
  <1>7. PayloadsAreKept'
    BY <1>1 DEF StoreInv, RecordsTellTheirState, PayloadsAreKept
  <1>8. ClosedLasts
    BY <1>1 DEF ClosedLasts
  <1> QED BY <1>2, <1>3, <1>4, <1>5, <1>6, <1>7, <1>8 DEF StoreInv, RecordsTellTheirState

LEMMA MarkClosedStep ==
    ASSUME StoreInv, NEW c \in StoreClients, MarkClosed(c)
    PROVE  StoreInv' /\ ClosedLasts
  <1>0. /\ StoreTypeOK /\ callerJobs[c] \in StoreJobs /\ callerJobs[c].at = "mark"
        /\ callerJobs[c].now \in 1..clock /\ callerJobs[c].rec \in DOMAIN records
        /\ clock \in Nat /\ clock <= MaxStoreCalls /\ MaxStoreCalls \in Nat
    BY StoreFacts DEF StoreInv, JobRefs, MarkClosed
  <1>i. PICK i \in DOMAIN records : i = callerJobs[c].rec
    BY <1>0
  <1>n. PICK now \in Nat : now = callerJobs[c].now /\ now # 0 /\ now \in Instants
    BY <1>0 DEF Instants
  <1>1. /\ records' = [records EXCEPT ![i].closed = now]
        /\ UNCHANGED <<entry, clock, puts, given>> /\ Rest(c)
        /\ blurs' = blurs \cup {<<"quiet", i>>}
    BY <1>i, <1>n DEF MarkClosed
  <1>r. PICK row : row = [records[i] EXCEPT !.closed = now]
    OBVIOUS
  <1>2. /\ row \in Row /\ row.closed = now /\ row.payload = records[i].payload
        /\ row.updated = records[i].updated
    <2> records[i] \in Row
      BY <1>0, StoreFacts
    <2> QED BY <1>r, <1>n DEF Row
  <1>3. records' = [records EXCEPT ![i] = row]
    BY <1>1, <1>r
  <1>4. /\ callerJobs' \in [StoreClients -> StoreJobs]
        /\ callerJobs'[c].at = "rest" /\ callerJobs'[c].payload = 0
        /\ \A d \in StoreClients \ {c} : callerJobs'[d] = callerJobs[d]
    BY <1>0, <1>1, JobRests
  <1>5. blurs \subseteq blurs' /\ blurs' \subseteq Disturbances \X (0..MaxRecords)
    <2>1. <<"quiet", i>> \in Disturbances \X (0..MaxRecords)
      BY <1>0, StoreFacts DEF Disturbances
    <2> QED BY <1>0, <1>1, <2>1 DEF StoreTypeOK
  <1>6. /\ records[i].updated <= clock /\ records[i].payload <= clock
        /\ given \in Seq(Instants)
        /\ records[i].payload # given[i] => <<"payload", i>> \in blurs
    BY <1>0 DEF StoreTypeOK, StoreInv, RecordsTellTheirState, PayloadsAreKept
  <1>7. /\ row.updated <= clock /\ row.payload <= clock /\ row.payload = records[i].payload
        /\ row.closed # 0
        /\ given' \in Seq(Instants) /\ Len(given') = Len(given)
        /\ \A k \in DOMAIN records \ {i} : given'[k] = given[k]
        /\ row.payload # given'[i] => <<"payload", i>> \in blurs'
        /\ callerJobs'[c].at \in {"rest", "mark"} /\ callerJobs'[c].at # "mark"
        /\ callerJobs'[c].payload <= clock
        /\ UNCHANGED <<entry, clock, puts>>
    BY <1>0, <1>n, <1>1, <1>2, <1>4, <1>5, <1>6
  <1> QED BY <1>i, <1>2, <1>3, <1>4, <1>5, <1>7, RowStep

LEMMA LateGrows ==
    ASSUME StoreTypeOK, NEW j
    PROVE  blurs \subseteq Late(j) /\ Late(j) \subseteq Disturbances \X (0..MaxRecords)
  <1>1. <<"late", 0>> \in Disturbances \X (0..MaxRecords)
    BY StoreAssumption DEF Disturbances
  <1> QED BY <1>1 DEF Late, StoreTypeOK

LEMMA CloseRecordStep ==
    ASSUME StoreInv, NEW c \in StoreClients, CloseRecord(c)
    PROVE  StoreInv' /\ ClosedLasts
  <1>0. /\ StoreTypeOK /\ callerJobs[c] \in StoreJobs /\ callerJobs[c].at = "closing"
        /\ callerJobs[c].now \in 1..clock /\ callerJobs[c].rec \in DOMAIN records
        /\ clock \in Nat /\ clock <= MaxStoreCalls /\ MaxStoreCalls \in Nat
        /\ records \in Seq(Row)
    BY StoreFacts DEF StoreInv, JobRefs, CloseRecord
  <1>i. PICK i \in DOMAIN records : i = callerJobs[c].rec
    BY <1>0
  <1>n. PICK now \in Nat : now = callerJobs[c].now /\ now # 0 /\ now <= clock /\ now \in Instants
    BY <1>0 DEF Instants
  <1>a. records' = [records EXCEPT ![i].updated = now, ![i].closed = now]
    BY <1>i, <1>n, Zenon DEF CloseRecord
  <1>1. UNCHANGED <<entry, clock, puts, given>> /\ Rest(c) /\ blurs' = Late(callerJobs[c])
    BY Zenon DEF CloseRecord
  <1>r. PICK row1 : row1 = [records[i] EXCEPT !.updated = now]
    OBVIOUS
  <1>s. PICK row : row = [row1 EXCEPT !.closed = now]
    OBVIOUS
  <1>t. PICK half : half = [records EXCEPT ![i].updated = now]
    OBVIOUS
  <1>2. /\ row1 \in Row /\ row1.updated = now /\ row1.payload = records[i].payload
    <2> records[i] \in Row
      BY <1>0, StoreFacts
    <2> QED BY <1>r, <1>n DEF Row
  <1>3. /\ row \in Row /\ row.closed = now /\ row.payload = records[i].payload
        /\ row.updated = now
    BY <1>s, <1>n, <1>2 DEF Row
  <1>b. records' = [half EXCEPT ![i].closed = now]
    BY <1>a, <1>t
  <1>c. half = [records EXCEPT ![i] = row1]
    BY <1>r, <1>t
  <1>d. half[i] = row1 /\ DOMAIN half = DOMAIN records
    BY <1>c
  <1>e. records' = [half EXCEPT ![i] = row]
    BY <1>b, <1>d, <1>s
  <1>f. records' = [records EXCEPT ![i] = row]
    BY <1>c, <1>e
  <1>4. /\ callerJobs' \in [StoreClients -> StoreJobs]
        /\ callerJobs'[c].at = "rest" /\ callerJobs'[c].payload = 0
        /\ \A d \in StoreClients \ {c} : callerJobs'[d] = callerJobs[d]
    BY <1>0, <1>1, JobRests
  <1>5. blurs \subseteq blurs' /\ blurs' \subseteq Disturbances \X (0..MaxRecords)
    BY <1>0, <1>1, LateGrows
  <1>6. /\ records[i].payload <= clock /\ given \in Seq(Instants)
        /\ records[i].payload # given[i] => <<"payload", i>> \in blurs
    BY <1>0 DEF StoreTypeOK, StoreInv, RecordsTellTheirState, PayloadsAreKept
  <1>7. /\ row.updated <= clock /\ row.payload <= clock /\ row.payload = records[i].payload
        /\ row.closed # 0
        /\ given' \in Seq(Instants) /\ Len(given') = Len(given)
        /\ \A k \in DOMAIN records \ {i} : given'[k] = given[k]
        /\ row.payload # given'[i] => <<"payload", i>> \in blurs'
        /\ callerJobs'[c].at \in {"rest", "mark"} /\ callerJobs'[c].at # "mark"
        /\ callerJobs'[c].payload <= clock /\ callerJobs[c].at # "mark"
        /\ UNCHANGED <<entry, clock, puts>>
    BY <1>0, <1>n, <1>1, <1>3, <1>4, <1>5, <1>6
  <1> QED BY <1>i, <1>3, <1>f, <1>4, <1>5, <1>7, RowStep

LEMMA UpdateRecordStep ==
    ASSUME StoreInv, NEW c \in StoreClients, UpdateRecord(c)
    PROVE  StoreInv' /\ ClosedLasts
  <1>j. PICK j : j = callerJobs[c]
    OBVIOUS
  <1>0. /\ StoreTypeOK /\ j \in StoreJobs /\ j.at = "write"
        /\ j.now \in 1..clock /\ j.rec \in DOMAIN records /\ j.payload <= clock
        /\ clock \in Nat /\ clock <= MaxStoreCalls /\ MaxStoreCalls \in Nat
        /\ records \in Seq(Row) /\ given \in Seq(Instants) /\ DOMAIN given = DOMAIN records
        /\ callerJobs \in [StoreClients -> StoreJobs]
    BY <1>j, StoreFacts DEF StoreInv, JobRefs, UpdateRecord
  <1>i. PICK i \in DOMAIN records : i = j.rec
    BY <1>0
  <1>r. PICK row : row = [status  |-> Coalesce(j.status, records[i].status),
                          payload |-> IF j.fresh THEN j.now ELSE j.payload,
                          updated |-> j.now,
                          closed  |-> IF records[i].closed # 0 THEN records[i].closed ELSE j.closed]
    OBVIOUS
  <1>1. /\ records' = [records EXCEPT ![i] = row]
        /\ given' = IF j.fresh THEN [given EXCEPT ![i] = j.now] ELSE given
        /\ IF j.status = "closed" /\ j.closed = 0
           THEN BecomeCall(c, [j EXCEPT !.at = "mark"]) ELSE Rest(c)
        /\ blurs' = Late(j) /\ UNCHANGED <<entry, clock, puts>>
    BY <1>i, <1>r, <1>j DEF UpdateRecord
  <1>2. /\ row \in Row /\ row.updated = j.now
        /\ row.status = Coalesce(j.status, records[i].status)
        /\ row.payload = (IF j.fresh THEN j.now ELSE j.payload)
        /\ row.closed = (IF records[i].closed # 0 THEN records[i].closed ELSE j.closed)
    <2>1. records[i] \in Row
      BY <1>0, StoreFacts
    <2>2. Coalesce(j.status, records[i].status) \in RecStatuses
      BY <1>0, <2>1 DEF Coalesce, StoreJobs, Row
    <2>3. j.now \in Instants /\ j.payload \in Instants /\ j.closed \in Instants
      BY <1>0 DEF StoreJobs
    <2> QED BY <1>r, <2>1, <2>2, <2>3 DEF Row
  <1>3. /\ callerJobs' \in [StoreClients -> StoreJobs]
        /\ \A d \in StoreClients \ {c} : callerJobs'[d] = callerJobs[d]
        /\ callerJobs'[c].at \in {"rest", "mark"}
        /\ callerJobs'[c].payload <= clock
        /\ j.status = "closed" /\ j.closed = 0 => callerJobs'[c].at = "mark"
        /\ callerJobs'[c].at = "mark" => callerJobs'[c].rec = i /\ callerJobs'[c].now = j.now
    <2>1. CASE j.status = "closed" /\ j.closed = 0
      <3>1. PICK job : job = [j EXCEPT !.at = "mark"]
        OBVIOUS
      <3>2. /\ job \in StoreJobs /\ job.at = "mark" /\ job.rec = i /\ job.now = j.now
            /\ job.payload = j.payload
        BY <1>0, <1>i, <3>1 DEF StoreJobs, CallKinds
      <3>3. BecomeCall(c, job)
        BY <1>1, <2>1, <3>1
      <3> QED BY <1>0, <3>2, <3>3, JobBecomes
    <2>2. CASE ~(j.status = "closed" /\ j.closed = 0)
      <3>1. Rest(c)
        BY <1>1, <2>2
      <3> QED BY <1>0, <2>2, <3>1, JobRests
    <2> QED BY <2>1, <2>2
  <1>4. blurs \subseteq blurs' /\ blurs' \subseteq Disturbances \X (0..MaxRecords)
    BY <1>0, <1>1, LateGrows
  <1>5. /\ given' \in Seq(Instants) /\ Len(given') = Len(given)
        /\ \A k \in DOMAIN records \ {i} : given'[k] = given[k]
        /\ given'[i] = (IF j.fresh THEN j.now ELSE given[i])
    <2>1. j.now \in Instants
      BY <1>0 DEF StoreJobs
    <2> QED BY <1>0, <1>1, <2>1, ExceptSeq
  <1>6. Updating(c, i) /\ (<<"payload", i>> \notin blurs =>
           /\ j.payload = records[i].payload /\ records[i].payload = given[i]
           /\ \A d \in StoreClients \ {c} : ~Updating(d, i))
    <2>1. Updating(c, i)
      BY <1>0, <1>i, <1>j DEF Updating
    <2> QED BY <1>j, <2>1
        DEF StoreInv, ReadsAreCurrent, RecordsTellTheirState, PayloadsAreKept
  <1>7. row.payload # given'[i] => <<"payload", i>> \in blurs'
    BY <1>2, <1>4, <1>5, <1>6
  <1>8. row.closed = 0 /\ row.status = "closed" =>
               \/ <<"mark", i>> \in blurs'
               \/ \E d \in StoreClients : callerJobs'[d].at = "mark" /\ callerJobs'[d].rec = i
    <2> SUFFICES ASSUME row.closed = 0, row.status = "closed", <<"mark", i>> \notin blurs'
                 PROVE  \E d \in StoreClients : /\ callerJobs'[d].at = "mark"
                                                /\ callerJobs'[d].rec = i
      OBVIOUS
    <2>1. records[i].closed = 0 /\ j.closed = 0
      BY <1>2
    <2>2. CASE j.status = "closed"
      BY <1>3, <2>1, <2>2
    <2>3. CASE j.status # "closed"
      <3>1. records[i].status = "closed"
        BY <1>2, <2>3 DEF Coalesce
      <3>2. PICK d \in StoreClients : callerJobs[d].at = "mark" /\ callerJobs[d].rec = i
        BY <1>4, <2>1, <3>1
        DEF StoreInv, RecordsTellTheirState, ClosedRecordsAreNotListed, OpenRecords
      <3>3. d # c
        BY <1>0, <1>j, <3>2
      <3> QED BY <1>3, <3>2, <3>3
    <2> QED BY <2>2, <2>3
  <1>9. /\ row.updated <= clock /\ row.payload <= clock
        /\ records[i].closed # 0 => row.closed # 0
        /\ callerJobs[c].at # "mark"
        /\ callerJobs'[c].at = "mark" =>
               callerJobs'[c].rec \in DOMAIN records /\ callerJobs'[c].now \in 1..clock
        /\ <<"payload", i>> \notin blurs /\ row.payload # records[i].payload =>
               \A d \in StoreClients \ {c} : ~Updating(d, i)
        /\ UNCHANGED <<entry, clock, puts>>
    BY <1>0, <1>1, <1>2, <1>3, <1>6, <1>j
  <1> QED BY <1>1, <1>2, <1>3, <1>4, <1>5, <1>7, <1>8, <1>9, RowStep

(* A stop forgets what the calls were doing; a record one was about to mark  *)
(* is on record. *)
LEMMA StoreStopsStep ==
    ASSUME StoreInv, StoreStops
    PROVE  StoreInv'
  <1>0. /\ StoreTypeOK /\ clock \in Nat /\ callerJobs \in [StoreClients -> StoreJobs]
    BY StoreFacts DEF StoreInv
  <1>1. /\ callerJobs' = [c \in StoreClients |-> RestingCall]
        /\ UNCHANGED <<entry, records, clock, puts, given>>
        /\ blurs' = blurs \cup {<<"mark", callerJobs[c].rec>> :
                                   c \in {d \in StoreClients : callerJobs[d].at = "mark"}}
    BY DEF StoreStops
  <1>2. /\ callerJobs' \in [StoreClients -> StoreJobs]
        /\ \A c \in StoreClients : callerJobs'[c].at = "rest" /\ callerJobs'[c].payload = 0
    BY <1>1, RestingIs
  <1>3. /\ blurs \subseteq blurs' /\ blurs' \subseteq Disturbances \X (0..MaxRecords)
        /\ \A c \in StoreClients : callerJobs[c].at = "mark" =>
               <<"mark", callerJobs[c].rec>> \in blurs'
    <2>1. \A c \in StoreClients : <<"mark", callerJobs[c].rec>> \in Disturbances \X (0..MaxRecords)
      BY <1>0 DEF StoreJobs, Disturbances
    <2> QED BY <1>0, <1>1, <2>1 DEF StoreTypeOK
  <1>4. StoreTypeOK'
    BY <1>0, <1>1, <1>2, <1>3 DEF StoreTypeOK, StoreJobs
  <1>5. JobRefs'
    BY <1>0, <1>1, <1>2 DEF JobRefs
  <1>6. VersionsGrow' /\ VersionsTellValuesApart' /\ entry'.version <= clock'
    BY <1>0, <1>1, <1>2, <1>3, EntryLeft
  <1>7. ReadsAreCurrent'
    BY <1>2 DEF ReadsAreCurrent, Updating
  <1>8. ClosedRecordsAreNotListed'
    BY <1>1, <1>3 DEF StoreInv, RecordsTellTheirState, ClosedRecordsAreNotListed, OpenRecords
  <1>9. PayloadsAreKept'
    BY <1>1, <1>3 DEF StoreInv, RecordsTellTheirState, PayloadsAreKept
  <1> QED BY <1>4, <1>5, <1>6, <1>7, <1>8, <1>9 DEF StoreInv, RecordsTellTheirState

-----------------------------------------------------------------------------
(* The theorems. *)

LEMMA StoreStep == StoreInv /\ StoreNext => StoreInv' /\ ClosedLasts
  <1> SUFFICES ASSUME StoreInv, StoreNext PROVE StoreInv' /\ ClosedLasts
    OBVIOUS
  <1>1. CASE EntryCalls
    <2>1. UNCHANGED records
      BY <1>1 DEF EntryCalls, ReadEntry, WriteEntry, DeleteEntry
    <2>2. StoreInv'
      BY <1>1, ReadEntryStep, WriteEntryStep, DeleteEntryStep DEF EntryCalls
    <2> QED BY <2>1, <2>2 DEF ClosedLasts
  <1>2. CASE RecordCalls
    <2> SUFFICES ASSUME NEW c \in StoreClients,
                        \/ StartAppend(c) \/ AppendRecord(c)
                        \/ ReadRecord(c) \/ TakeTime(c) \/ UpdateRecord(c) \/ MarkClosed(c)
                        \/ FindRecord(c) \/ CloseRecord(c)
                 PROVE  StoreInv' /\ ClosedLasts
      BY <1>2 DEF RecordCalls
    <2>1. CASE StartAppend(c)
      BY <2>1, StartAppendStep DEF StartAppend, ClosedLasts
    <2>2. CASE AppendRecord(c)
      BY <2>2, AppendRecordStep
    <2>3. CASE ReadRecord(c)
      BY <2>3, ReadRecordStep DEF ReadRecord, ClosedLasts
    <2>4. CASE TakeTime(c)
      BY <2>4, TakeTimeStep DEF TakeTime, ClosedLasts
    <2>5. CASE UpdateRecord(c)
      BY <2>5, UpdateRecordStep
    <2>6. CASE MarkClosed(c)
      BY <2>6, MarkClosedStep
    <2>7. CASE FindRecord(c)
      BY <2>7, FindRecordStep DEF FindRecord, ClosedLasts
    <2>8. CASE CloseRecord(c)
      BY <2>8, CloseRecordStep
    <2> QED BY <2>1, <2>2, <2>3, <2>4, <2>5, <2>6, <2>7, <2>8
  <1>3. CASE StoreStops
    BY <1>3, StoreStopsStep DEF StoreStops, ClosedLasts
  <1> QED BY <1>1, <1>2, <1>3 DEF StoreNext

LEMMA StoreStutter == StoreInv /\ UNCHANGED storeVars => StoreInv' /\ ClosedLasts
  <1> SUFFICES ASSUME StoreInv, UNCHANGED storeVars PROVE StoreInv' /\ ClosedLasts
    OBVIOUS
  <1>1. StoreTypeOK' /\ JobRefs' /\ VersionsGrow' /\ ReadsAreCurrent' /\ (entry.version <= clock)'
    BY DEF storeVars, StoreInv, StoreTypeOK, JobRefs, VersionsGrow, Putting, ReadsAreCurrent,
           Updating
  <1>2. RecordsTellTheirState'
    BY DEF storeVars, StoreInv, RecordsTellTheirState, VersionsTellValuesApart,
           ClosedRecordsAreNotListed, OpenRecords, PayloadsAreKept
  <1>3. ClosedLasts
    BY DEF storeVars, ClosedLasts
  <1> QED BY <1>1, <1>2, <1>3 DEF StoreInv

(* The invariant holds in every state, whatever calls overlap and wherever   *)
(* the server stops between the statements of put_state, update_record and   *)
(* close_record. *)
THEOREM StoreInvariant == StoreSpec => []StoreInv
  <1>1. StoreInv /\ [StoreNext]_storeVars => StoreInv'
    BY StoreStep, StoreStutter
  <1> QED BY StoreInitially, <1>1, PTL DEF StoreSpec

(* What an extension reads back of its state tells it what became of it:     *)
(* versions tell values apart, a closed record is not listed and a record    *)
(* keeps the payload it was given, but for the overlaps and stops on record. *)
THEOREM StateIsTold == StoreSpec => []RecordsTellTheirState
  <1>1. StoreInv => RecordsTellTheirState
    BY DEF StoreInv
  <1> QED BY StoreInvariant, <1>1, PTL

(* No step opens a closed record again: update_record keeps the closed_at    *)
(* that is there, and the other statements give it a time that was drawn.    *)
THEOREM ClosedRecordsLast == StoreSpec => ClosedStaysClosed
  <1>1. StoreInv /\ [StoreNext]_storeVars =>
           [\A i \in DOMAIN records : records[i].closed # 0 => records'[i].closed # 0]_storeVars
    BY StoreStep DEF ClosedLasts
  <1> QED BY StoreInvariant, <1>1, PTL DEF StoreSpec, ClosedStaysClosed

-----------------------------------------------------------------------------
(* The stream of a conversation over these records: its invariant. *)

(* A call that has taken the time and is about to write a row with it: the   *)
(* time is its own, and no row has it yet.                                   *)
Dated(c) == callerJobs[c].at \in {"append", "write", "closing"}

FreshTimes ==
    \A c \in StoreClients : Dated(c) =>
        /\ \A i \in DOMAIN records : records[i].updated # callerJobs[c].now
        /\ \A d \in StoreClients : Dated(d) /\ callerJobs[d].now = callerJobs[c].now => c = d

NewsTypes ==
    /\ {messageCount, eventSeq, opSeq} \subseteq Nat /\ eventSeq <= messageCount
    /\ approval \in [state : Approvals, linked : BOOLEAN]
    /\ opRows \in Seq(OpRow)
    /\ stream \in [at : {"off", "waiting", "snapshot"},
                   seen : [event : Nat, approval : Nat, operation : Nat, record : Nat]]

Settled == unheard \cap {"operation", "resolution"} = {}
InTime  == <<"late", 0>> \notin blurs

(* The numbers a stream noted are not ahead. *)
NothingAhead ==
    stream.at # "off" =>
        /\ stream.seen.event <= eventSeq /\ stream.seen.operation <= opSeq
        /\ InTime => stream.seen.record <= LatestUpdate

(* The rows are the ones shown, but for the second statement of an update.   *)
SameRow(shown, row, i) ==
    /\ shown.payload = row.payload /\ shown.status = row.status
    /\ row.closed # 0 /\ <<"quiet", i>> \notin blurs => shown.closed # 0

SameRows ==
    /\ Len(view.records) = Len(records)
    /\ \A i \in DOMAIN records : SameRow(view.records[i], records[i], i)

(* While a number is as it was noted, what it counts is as it was shown. *)
Reading == stream.at = "waiting" /\ view.good

ShownAsNoted ==
    Reading =>
        /\ view.said >= stream.seen.event
        /\ stream.seen.operation = opSeq /\ "operation" \notin unheard =>
              view.operations = ShownOperations
        /\ stream.seen.operation = opSeq /\ Settled /\ approval.state = "resolved"
           /\ approval.linked => view.approval = "resolved"
        /\ stream.seen.record = LatestUpdate /\ InTime => SameRows

StreamInv ==
    /\ StoreInv /\ FreshTimes
    /\ NewsTypes
    /\ NothingAhead
    /\ ShownAsNoted

-----------------------------------------------------------------------------
(* The time of the record updated last. *)

LEMMA GreatestOf ==
    ASSUME NEW n \in Nat, NEW T, T \subseteq 0..n, T # {}
    PROVE  \E m \in T : \A k \in T : m >= k
  <1> DEFINE D == {n - k : k \in T}
  <1>1. D \subseteq Nat /\ D # {}
    <2>1. \A k \in T : n - k \in Nat
      OBVIOUS
    <2> QED BY <2>1
  <1>2. PICK d \in D : \A e \in D : ~ (<<e, d>> \in OpToRel(<, Nat))
    BY <1>1, WFMin, NatLessThanWellFounded
  <1>3. ASSUME NEW e \in D PROVE d <= e
    <2>1. ~(e < d)
      BY <1>1, <1>2 DEF OpToRel
    <2>2. d \in Nat /\ e \in Nat
      BY <1>1
    <2> HIDE DEF D
    <2> QED BY <2>1, <2>2
  <1>4. PICK m \in T : d = n - m
    OBVIOUS
  <1>5. ASSUME NEW k \in T PROVE m >= k
    <2>1. n - k \in D /\ m \in 0..n /\ k \in 0..n
      OBVIOUS
    <2>2. n - m <= n - k
      BY <1>3, <1>4, <2>1
    <2> QED BY <2>1, <2>2
  <1> QED BY <1>5

LEMMA LatestIn ==
    ASSUME NEW n \in Nat, NEW s,
           \A i \in DOMAIN s : s[i].updated \in Nat /\ s[i].updated <= n,
           NEW latest, latest = Max({0} \cup {r.updated : r \in ToSet(s)})
    PROVE  /\ latest \in Nat
           /\ \A i \in DOMAIN s : s[i].updated <= latest
           /\ latest # 0 => \E i \in DOMAIN s : s[i].updated = latest
  <1> DEFINE T == {0} \cup {r.updated : r \in ToSet(s)}
  <1>1. ToSet(s) = {s[i] : i \in DOMAIN s}
    BY DEF ToSet
  <1>2. \A t \in T : t = 0 \/ \E i \in DOMAIN s : s[i].updated = t
    BY <1>1
  <1>3. \A i \in DOMAIN s : s[i].updated \in T
    BY <1>1
  <1>4. T # {}
    OBVIOUS
  <1> HIDE DEF T
  <1>5. T \subseteq 0..n
    BY <1>2
  <1>6. \E m \in T : \A k \in T : m >= k
    BY <1>4, <1>5, GreatestOf
  <1>7. latest \in T /\ \A k \in T : latest >= k
    BY <1>6 DEF Max, T
  <1>8. latest \in Nat /\ (latest # 0 => \E i \in DOMAIN s : s[i].updated = latest)
    <2>1. latest \in T
      BY <1>7
    <2>2. latest \in Nat
      BY <1>5, <2>1
    <2>3. latest # 0 => \E i \in DOMAIN s : s[i].updated = latest
      BY <1>2, <2>1, Zenon
    <2> QED BY <2>2, <2>3
  <1>9. ASSUME NEW i \in DOMAIN s PROVE s[i].updated <= latest
    <2>1. latest >= s[i].updated /\ s[i].updated \in Nat
      BY <1>3, <1>7
    <2> QED BY <1>8, <2>1
  <1> QED BY <1>8, <1>9

LEMMA LatestIs ==
    ASSUME StoreTypeOK
    PROVE  /\ LatestUpdate \in Nat
           /\ \A i \in DOMAIN records : records[i].updated <= LatestUpdate
           /\ LatestUpdate # 0 => \E i \in DOMAIN records : records[i].updated = LatestUpdate
  <1>1. /\ clock \in Nat
        /\ \A i \in DOMAIN records : records[i].updated \in Nat /\ records[i].updated <= clock
    BY StoreFacts
  <1>2. LatestUpdate = Max({0} \cup {r.updated : r \in ToSet(records)})
    BY DEF LatestUpdate
  <1> QED BY <1>1, <1>2, LatestIn

(* The same after a step. *)
LEMMA LatestWillBe ==
    ASSUME StoreTypeOK'
    PROVE  /\ LatestUpdate' \in Nat
           /\ \A i \in DOMAIN records' : records'[i].updated <= LatestUpdate'
           /\ LatestUpdate' # 0 => \E i \in DOMAIN records' : records'[i].updated = LatestUpdate'
  <1>1. /\ clock' \in Nat /\ records' \in Seq(Row)
        /\ \A i \in DOMAIN records' : records'[i].updated <= clock'
    BY StoreAssumption DEF StoreTypeOK, Instants
  <1>2. \A i \in DOMAIN records' : records'[i].updated \in Nat
    <2>1. \A i \in DOMAIN records' : records'[i] \in Row
      BY <1>1, ElementOfSeq, LenProperties
    <2>2. \A row \in Row : row.updated \in Instants
      BY DEF Row
    <2> QED BY <2>1, <2>2, StoreAssumption DEF Instants
  <1>3. LatestUpdate' = Max({0} \cup {r.updated : r \in ToSet(records')})
    BY DEF LatestUpdate
  <1> QED BY <1>1, <1>2, <1>3, LatestIn

(* Rows of the same times have the same latest one. *)
LEMMA LatestStays ==
    ASSUME StoreTypeOK, StoreTypeOK', DOMAIN records' = DOMAIN records,
           \A i \in DOMAIN records : records'[i].updated = records[i].updated
    PROVE  LatestUpdate' = LatestUpdate
  <1>1. /\ LatestUpdate \in Nat /\ LatestUpdate' \in Nat
        /\ \A i \in DOMAIN records : records[i].updated <= LatestUpdate
        /\ \A i \in DOMAIN records : records[i].updated <= LatestUpdate'
        /\ LatestUpdate # 0 => \E i \in DOMAIN records : records[i].updated = LatestUpdate
        /\ LatestUpdate' # 0 => \E i \in DOMAIN records : records[i].updated = LatestUpdate'
    BY LatestIs, LatestWillBe
  <1>2. LatestUpdate <= LatestUpdate' /\ LatestUpdate' <= LatestUpdate
    BY <1>1
  <1> QED BY <1>1, <1>2

(* What is written is as it was, but for the mark of an update; *)
Kept ==
    /\ Len(records') = Len(records) /\ DOMAIN records' = DOMAIN records
    /\ LatestUpdate' = LatestUpdate
    /\ \A i \in DOMAIN records :
          /\ records'[i].payload = records[i].payload /\ records'[i].status = records[i].status
          /\ records'[i].closed # 0 /\ <<"quiet", i>> \notin blurs' => records[i].closed # 0

(* or it is later than all there was, or on record as late. *)
Newer == <<"late", 0>> \in blurs' \/ LatestUpdate' > LatestUpdate

RowsMove == FreshTimes' /\ blurs \subseteq blurs' /\ (Kept \/ Newer)

LEMMA RowsStay ==
    ASSUME StoreTypeOK, StoreTypeOK', UNCHANGED records
    PROVE  Kept
  <1>1. LatestUpdate' = LatestUpdate
    BY LatestStays
  <1> QED BY <1>1 DEF Kept

(* A call that has written, or not drawn a time yet. *)
LEMMA FreshAfterWrite ==
    ASSUME FreshTimes, NEW c \in StoreClients, ~Dated(c)',
           \A d \in StoreClients \ {c} : callerJobs'[d] = callerJobs[d],
           \A i \in DOMAIN records' :
              \/ \E k \in DOMAIN records : records'[i].updated = records[k].updated
              \/ Dated(c) /\ records'[i].updated = callerJobs[c].now
    PROVE  FreshTimes'
  <1> SUFFICES ASSUME NEW d \in StoreClients, Dated(d)'
               PROVE  /\ \A i \in DOMAIN records' : records'[i].updated # callerJobs'[d].now
                      /\ \A e \in StoreClients :
                            Dated(e)' /\ callerJobs'[e].now = callerJobs'[d].now => d = e
    BY DEF FreshTimes
  <1>1. d # c /\ callerJobs'[d] = callerJobs[d] /\ Dated(d)
    BY DEF Dated
  <1>2. \A e \in StoreClients : Dated(e)' => Dated(e) /\ callerJobs'[e] = callerJobs[e]
    BY DEF Dated
  <1> QED BY <1>1, <1>2 DEF FreshTimes

(* A call that has drawn a time. *)
LEMMA FreshAfterDraw ==
    ASSUME StoreInv, FreshTimes, NEW c \in StoreClients, UNCHANGED records,
           clock' = clock + 1, callerJobs'[c].now = clock',
           \A d \in StoreClients \ {c} : callerJobs'[d] = callerJobs[d]
    PROVE  FreshTimes'
  <1>0. clock \in Nat /\ \A i \in DOMAIN records : records[i].updated <= clock
    BY StoreFacts DEF StoreInv
  <1>1. \A d \in StoreClients \ {c} : Dated(d)' => Dated(d) /\ callerJobs[d].now \in 1..clock
    BY DEF StoreInv, JobRefs, Dated
  <1>2. \A i \in DOMAIN records : records[i].updated # clock'
    <2> SUFFICES ASSUME NEW i \in DOMAIN records PROVE records[i].updated # clock'
      OBVIOUS
    <2>1. records[i].updated \in Nat
      BY StoreFacts DEF StoreInv
    <2> QED BY <1>0, <2>1
  <1>3. \A d \in StoreClients \ {c} : Dated(d)' => callerJobs'[d].now # clock'
    BY <1>0, <1>1
  <1> QED BY <1>1, <1>2, <1>3 DEF FreshTimes

(* A row that gets the time of its call. *)
LEMMA WrittenIsNewer ==
    ASSUME StoreInv, StoreTypeOK', FreshTimes, NEW c \in StoreClients, Dated(c),
           Late(callerJobs[c]) \subseteq blurs',
           \E i \in DOMAIN records' : records'[i].updated = callerJobs[c].now
    PROVE  blurs \subseteq blurs' /\ Newer
  <1> DEFINE now == callerJobs[c].now
  <1>0. StoreTypeOK /\ clock \in Nat /\ now \in 1..clock
    BY StoreFacts DEF StoreInv, JobRefs, Dated
  <1>1. blurs \subseteq blurs'
    BY DEF Late
  <1>2. CASE now < LatestUpdate
    BY <1>1, <1>2 DEF Late, Newer
  <1>3. CASE ~(now < LatestUpdate)
    <2>1. now # LatestUpdate
      BY <1>0, LatestIs DEF FreshTimes
    <2>2. LatestUpdate' \in Nat /\ now <= LatestUpdate'
      BY LatestWillBe
    <2>3. LatestUpdate \in Nat
      BY <1>0, LatestIs
    <2> QED BY <1>0, <1>1, <1>3, <2>1, <2>2, <2>3 DEF Newer
  <1> QED BY <1>1, <1>2, <1>3

-----------------------------------------------------------------------------
(* What the calls about records do to the rows. *)

LEMMA AppendMoves ==
    ASSUME StoreInv, StoreTypeOK', FreshTimes, NEW c \in StoreClients, AppendRecord(c)
    PROVE  RowsMove
  <1>0. StoreTypeOK /\ records \in Seq(Row) /\ DOMAIN records = 1..Len(records) /\ Len(records) \in Nat
    BY StoreFacts DEF StoreInv
  <1>1. Dated(c) /\ Late(callerJobs[c]) \subseteq blurs'
    BY DEF AppendRecord, Dated
  <1>2. PICK row : /\ row.updated = callerJobs[c].now /\ records' = Append(records, row)
    BY DEF AppendRecord
  <1>3. /\ DOMAIN records' = 1..(Len(records) + 1)
        /\ records'[Len(records) + 1].updated = callerJobs[c].now
        /\ \A i \in DOMAIN records : records'[i] = records[i]
    BY <1>0, <1>2
  <1>4. /\ ~Dated(c)'
        /\ \A d \in StoreClients \ {c} : callerJobs'[d] = callerJobs[d]
    BY <1>0, JobRests DEF AppendRecord, Dated
  <1>5. \A i \in DOMAIN records' :
              \/ \E k \in DOMAIN records : records'[i].updated = records[k].updated
              \/ Dated(c) /\ records'[i].updated = callerJobs[c].now
    <2> SUFFICES ASSUME NEW i \in DOMAIN records', i \notin DOMAIN records
                 PROVE  records'[i].updated = callerJobs[c].now
      BY <1>1, <1>3
    <2>1. i = Len(records) + 1
      BY <1>0, <1>3
    <2> QED BY <1>3, <2>1
  <1>6. FreshTimes'
    BY <1>4, <1>5, FreshAfterWrite
  <1>7. blurs \subseteq blurs' /\ Newer
    <2>1. Len(records) + 1 \in DOMAIN records'
      BY <1>0, <1>3
    <2> QED BY <1>1, <1>3, <2>1, WrittenIsNewer
  <1> QED BY <1>6, <1>7 DEF RowsMove

(* A row is written with the time of the call. *)
LEMMA WriteMoves ==
    ASSUME StoreInv, StoreTypeOK', FreshTimes, NEW c \in StoreClients,
           Dated(c), ~Dated(c)',
           \A d \in StoreClients \ {c} : callerJobs'[d] = callerJobs[d],
           blurs' = Late(callerJobs[c]),
           NEW i \in DOMAIN records, DOMAIN records' = DOMAIN records,
           records'[i].updated = callerJobs[c].now,
           \A k \in DOMAIN records \ {i} : records'[k] = records[k]
    PROVE  RowsMove
  <1>1. FreshTimes'
    <2>1. \A k \in DOMAIN records' :
              \/ \E l \in DOMAIN records : records'[k].updated = records[l].updated
              \/ Dated(c) /\ records'[k].updated = callerJobs[c].now
      OBVIOUS
    <2> QED BY <2>1, FreshAfterWrite
  <1>2. blurs \subseteq blurs' /\ Newer
    BY WrittenIsNewer
  <1> QED BY <1>1, <1>2 DEF RowsMove

LEMMA CloseMoves ==
    ASSUME StoreInv, StoreTypeOK', FreshTimes, NEW c \in StoreClients, CloseRecord(c)
    PROVE  RowsMove
  <1>0. /\ StoreTypeOK /\ callerJobs[c].at = "closing" /\ callerJobs[c].rec \in DOMAIN records
        /\ \A k \in DOMAIN records : records[k] \in Row
    BY StoreFacts DEF StoreInv, JobRefs, CloseRecord
  <1>1. PICK i \in DOMAIN records : i = callerJobs[c].rec
    BY <1>0
  <1>2. PICK now : now = callerJobs[c].now
    OBVIOUS
  <1>3. PICK half : half = [records EXCEPT ![i].updated = now]
    OBVIOUS
  <1>4. records' = [half EXCEPT ![i].closed = now]
    <2>1. records' = [records EXCEPT ![i].updated = now, ![i].closed = now]
      BY <1>1, <1>2, Zenon DEF CloseRecord
    <2> QED BY <1>3, <2>1
  <1>5. /\ DOMAIN half = DOMAIN records /\ half[i] = [records[i] EXCEPT !.updated = now]
        /\ \A k \in DOMAIN records \ {i} : half[k] = records[k]
    BY <1>3
  <1>6. half[i].updated = now
    BY <1>0, <1>5 DEF Row
  <1>7. /\ DOMAIN records' = DOMAIN records /\ records'[i] = [half[i] EXCEPT !.closed = now]
        /\ \A k \in DOMAIN records \ {i} : records'[k] = records[k]
    BY <1>4, <1>5
  <1>8. records'[i].updated = now
    BY <1>6, <1>7
  <1>9. /\ Dated(c) /\ ~Dated(c)' /\ blurs' = Late(callerJobs[c])
        /\ \A d \in StoreClients \ {c} : callerJobs'[d] = callerJobs[d]
    BY <1>0, JobRests DEF CloseRecord, Dated
  <1> QED BY <1>2, <1>7, <1>8, <1>9, WriteMoves

LEMMA UpdateMoves ==
    ASSUME StoreInv, StoreTypeOK', FreshTimes, NEW c \in StoreClients, UpdateRecord(c)
    PROVE  RowsMove
  <1>j. PICK j : j = callerJobs[c]
    OBVIOUS
  <1>0. /\ StoreTypeOK /\ j.at = "write" /\ j.rec \in DOMAIN records /\ j \in StoreJobs
    BY <1>j, StoreFacts DEF StoreInv, JobRefs, UpdateRecord
  <1>1. PICK i \in DOMAIN records : i = j.rec
    BY <1>0
  <1>r. PICK row : row = [status  |-> Coalesce(j.status, records[i].status),
                          payload |-> IF j.fresh THEN j.now ELSE j.payload,
                          updated |-> j.now,
                          closed  |-> IF records[i].closed # 0 THEN records[i].closed ELSE j.closed]
    OBVIOUS
  <1>2. row.updated = j.now /\ records' = [records EXCEPT ![i] = row]
    BY <1>1, <1>j, <1>r DEF UpdateRecord
  <1>3. /\ DOMAIN records' = DOMAIN records /\ records'[i].updated = j.now
        /\ \A k \in DOMAIN records \ {i} : records'[k] = records[k]
    BY <1>2
  <1>4. ~Dated(c)' /\ \A d \in StoreClients \ {c} : callerJobs'[d] = callerJobs[d]
    <2>1. CASE BecomeCall(c, [j EXCEPT !.at = "mark"])
      <3>1. PICK job : job = [j EXCEPT !.at = "mark"]
        OBVIOUS
      <3>2. job \in StoreJobs /\ job.at = "mark"
        BY <1>0, <3>1 DEF StoreJobs, CallKinds
      <3> QED BY <1>0, <2>1, <3>1, <3>2, JobBecomes DEF Dated
    <2>2. CASE Rest(c)
      BY <1>0, <2>2, JobRests DEF Dated
    <2> QED BY <1>j, <2>1, <2>2 DEF UpdateRecord
  <1>5. Dated(c) /\ blurs' = Late(callerJobs[c])
    BY <1>0, <1>j DEF UpdateRecord, Dated
  <1> QED BY <1>j, <1>3, <1>4, <1>5, WriteMoves

LEMMA MarkMoves ==
    ASSUME StoreInv, StoreTypeOK', FreshTimes, NEW c \in StoreClients, MarkClosed(c)
    PROVE  RowsMove
  <1>0. /\ StoreTypeOK /\ callerJobs[c].rec \in DOMAIN records
        /\ \A k \in DOMAIN records : records[k] \in Row
        /\ records \in Seq(Row) /\ records' \in Seq(Row)
    BY StoreFacts DEF StoreInv, StoreTypeOK, JobRefs, MarkClosed
  <1>1. PICK i \in DOMAIN records : i = callerJobs[c].rec
    BY <1>0
  <1>2. PICK now : now = callerJobs[c].now
    OBVIOUS
  <1>3. records' = [records EXCEPT ![i].closed = now] /\ blurs' = blurs \cup {<<"quiet", i>>}
    BY <1>1, <1>2 DEF MarkClosed
  <1>4. /\ DOMAIN records' = DOMAIN records /\ records'[i] = [records[i] EXCEPT !.closed = now]
        /\ \A k \in DOMAIN records \ {i} : records'[k] = records[k]
    BY <1>3
  <1>5. /\ records'[i].updated = records[i].updated /\ records'[i].status = records[i].status
        /\ records'[i].payload = records[i].payload
    BY <1>0, <1>4 DEF Row
  <1>6. ~Dated(c)' /\ \A d \in StoreClients \ {c} : callerJobs'[d] = callerJobs[d]
    BY <1>0, JobRests DEF MarkClosed, Dated
  <1>7. FreshTimes'
    <2>1. \A k \in DOMAIN records' :
              \/ \E l \in DOMAIN records : records'[k].updated = records[l].updated
              \/ Dated(c) /\ records'[k].updated = callerJobs[c].now
      BY <1>4, <1>5
    <2> QED BY <1>6, <2>1, FreshAfterWrite
  <1>8. LatestUpdate' = LatestUpdate
    <2>1. \A k \in DOMAIN records : records'[k].updated = records[k].updated
      BY <1>4, <1>5
    <2> QED BY <1>0, <1>4, <2>1, LatestStays
  <1>9. Len(records') = Len(records)
    BY <1>0, <1>4, LenProperties
  <1>10. Kept
    BY <1>3, <1>4, <1>5, <1>8, <1>9 DEF Kept
  <1> QED BY <1>3, <1>7, <1>10 DEF RowsMove

(* The rows stay while a call reads, or takes its time. *)
LEMMA ReadMoves ==
    ASSUME StoreInv, StoreInv', FreshTimes, NEW c \in StoreClients,
           StartAppend(c) \/ ReadRecord(c) \/ TakeTime(c) \/ FindRecord(c)
    PROVE  RowsMove
  <1>0. /\ StoreTypeOK /\ StoreTypeOK' /\ callerJobs \in [StoreClients -> StoreJobs]
        /\ callerJobs' \in [StoreClients -> StoreJobs]
    BY StoreFacts DEF StoreInv, StoreTypeOK, StoreJobs
  <1>1. UNCHANGED records /\ blurs \subseteq blurs'
    BY DEF StartAppend, ReadRecord, TakeTime, FindRecord
  <1>2. PICK job : callerJobs' = [callerJobs EXCEPT ![c] = job]
    BY DEF StartAppend, ReadRecord, TakeTime, FindRecord, BecomeCall
  <1>3. callerJobs'[c] = job /\ \A d \in StoreClients \ {c} : callerJobs'[d] = callerJobs[d]
    BY <1>0, <1>2
  <1>4. ASSUME StartAppend(c) \/ TakeTime(c)
        PROVE  clock' = clock + 1 /\ callerJobs'[c].now = clock'
    <2>1. CASE StartAppend(c)
      <3>1. PICK s \in RecStatuses :
              BecomeCall(c, [RestingCall EXCEPT !.at = "append", !.now = clock', !.status = s])
        BY <2>1, Zenon DEF StartAppend
      <3>2. PICK new : new = [RestingCall EXCEPT !.at = "append", !.now = clock', !.status = s]
        OBVIOUS
      <3>3. new.now = clock'
        BY <3>2 DEF RestingCall
      <3>4. callerJobs' = [callerJobs EXCEPT ![c] = new]
        BY <3>1, <3>2 DEF BecomeCall
      <3> QED BY <1>0, <2>1, <3>3, <3>4 DEF StartAppend, CountCall
    <2>2. CASE TakeTime(c)
      <3>1. PICK new : new = [callerJobs[c] EXCEPT !.now = clock',
                                  !.at = IF @ = "update" THEN "write" ELSE "closing"]
        OBVIOUS
      <3>2. new.now = clock'
        BY <1>0, <3>1 DEF StoreJobs
      <3>3. callerJobs' = [callerJobs EXCEPT ![c] = new]
        BY <2>2, <3>1, Zenon DEF TakeTime, BecomeCall
      <3> QED BY <1>0, <2>2, <3>2, <3>3 DEF TakeTime, CountCall
    <2> QED BY <1>4, <2>1, <2>2
  <1>5. ASSUME ReadRecord(c) \/ FindRecord(c) PROVE ~Dated(c)'
    <2>1. CASE ReadRecord(c)
      <3>1. PICK i \in DOMAIN records, in \in UpdateInputs :
              BecomeCall(c, [RestingCall EXCEPT !.at = "update", !.rec = i,
                              !.status = in.status, !.fresh = in.fresh,
                              !.payload = records[i].payload, !.closed = records[i].closed])
        BY <2>1, Zenon DEF ReadRecord
      <3>2. PICK new : new = [RestingCall EXCEPT !.at = "update", !.rec = i,
                              !.status = in.status, !.fresh = in.fresh,
                              !.payload = records[i].payload, !.closed = records[i].closed]
        OBVIOUS
      <3>3. new.at = "update"
        BY <3>2 DEF RestingCall
      <3>4. callerJobs' = [callerJobs EXCEPT ![c] = new]
        BY <3>1, <3>2 DEF BecomeCall
      <3> QED BY <1>0, <3>3, <3>4 DEF Dated
    <2>2. CASE FindRecord(c)
      <3>1. PICK i \in DOMAIN records :
              BecomeCall(c, [RestingCall EXCEPT !.at = "close", !.rec = i])
        BY <2>2, Zenon DEF FindRecord
      <3>2. PICK new : new = [RestingCall EXCEPT !.at = "close", !.rec = i]
        OBVIOUS
      <3>3. new.at = "close"
        BY <3>2 DEF RestingCall
      <3>4. callerJobs' = [callerJobs EXCEPT ![c] = new]
        BY <3>1, <3>2 DEF BecomeCall
      <3> QED BY <1>0, <3>3, <3>4 DEF Dated
    <2> QED BY <1>5, <2>1, <2>2
  <1>6. FreshTimes'
    <2>1. CASE StartAppend(c) \/ TakeTime(c)
      BY <1>1, <1>3, <1>4, <2>1, FreshAfterDraw
    <2>2. CASE ReadRecord(c) \/ FindRecord(c)
      BY <1>1, <1>3, <1>5, <2>2, FreshAfterWrite
    <2> QED BY <2>1, <2>2
  <1>7. Kept
    BY <1>0, <1>1, RowsStay
  <1> QED BY <1>1, <1>6, <1>7 DEF RowsMove

LEMMA RecordCallMoves ==
    ASSUME StoreInv, FreshTimes, RecordCalls
    PROVE  StoreInv' /\ RowsMove
  <1>1. StoreInv'
    BY StoreStep DEF StoreNext
  <1>2. StoreTypeOK'
    BY <1>1 DEF StoreInv
  <1> QED
    BY <1>1, <1>2, AppendMoves, CloseMoves, UpdateMoves, MarkMoves, ReadMoves DEF RecordCalls

-----------------------------------------------------------------------------
(* The stream. *)

(* Time passes without a call about a record. *)
LEMMA TimePasses ==
    ASSUME StoreInv, UNCHANGED <<entry, records, callerJobs, puts, given, blurs>>,
           clock' = clock \/ CountCall
    PROVE  StoreInv' /\ (FreshTimes => FreshTimes') /\ LatestUpdate' = LatestUpdate
  <1>0. /\ StoreTypeOK /\ clock \in Nat /\ clock <= MaxStoreCalls /\ MaxStoreCalls \in Nat
        /\ \A i \in DOMAIN records : /\ records[i].updated \in Nat /\ records[i].updated <= clock
                                    /\ records[i].payload \in Nat /\ records[i].payload <= clock
        /\ callerJobs \in [StoreClients -> StoreJobs]
    BY StoreFacts DEF StoreInv
  <1>1. clock' \in Instants /\ clock' \in Nat /\ clock <= clock'
    BY <1>0 DEF CountCall, Instants
  <1>2. StoreTypeOK'
    <2>1. \A i \in DOMAIN records : records[i].updated <= clock' /\ records[i].payload <= clock'
      BY <1>0, <1>1
    <2> QED BY <1>0, <1>1, <2>1 DEF StoreTypeOK, StoreJobs
  <1>3. JobRefs'
    <2> SUFFICES ASSUME NEW c \in StoreClients
                 PROVE  /\ callerJobs[c].at \in {"put", "append", "write", "closing", "mark"} =>
                              callerJobs[c].now \in 1..clock'
                        /\ callerJobs[c].payload <= clock'
      BY DEF StoreInv, JobRefs
    <2>1. callerJobs[c].payload \in Nat
      BY <1>0 DEF StoreJobs, Instants
    <2> QED BY <1>0, <1>1, <2>1 DEF StoreInv, JobRefs
  <1>4. VersionsGrow' /\ ReadsAreCurrent' /\ RecordsTellTheirState'
    BY DEF StoreInv, VersionsGrow, Putting, ReadsAreCurrent, Updating, RecordsTellTheirState,
           VersionsTellValuesApart, ClosedRecordsAreNotListed, OpenRecords, PayloadsAreKept
  <1>5. entry'.version <= clock'
    <2>1. entry.version \in Nat /\ entry.version <= clock
      BY <1>0 DEF StoreInv, StoreTypeOK, Instants
    <2> QED BY <1>0, <1>1, <2>1
  <1>6. FreshTimes => FreshTimes'
    BY DEF FreshTimes, Dated
  <1>7. LatestUpdate' = LatestUpdate
    BY DEF LatestUpdate
  <1> QED BY <1>2, <1>3, <1>4, <1>5, <1>6, <1>7 DEF StoreInv

LEMMA StreamBegins == StreamInit => StreamInv
  <1> SUFFICES ASSUME StreamInit PROVE StreamInv
    OBVIOUS
  <1>1. StoreInv /\ FreshTimes
    BY StoreInitially DEF StreamInit, StoreInit, FreshTimes, Dated, RestingCall
  <1>2. NewsTypes
    BY DEF StreamInit, NewsTypes, Approvals, Nothing
  <1>3. NothingAhead /\ ShownAsNoted
    BY DEF StreamInit, NothingAhead, ShownAsNoted, Reading
  <1> QED BY <1>1, <1>2, <1>3 DEF StreamInv

(* A list without one of its elements. *)
LEMMA RemovedAt ==
    ASSUME NEW S, NEW s \in Seq(S), NEW at \in 1..Len(s)
    PROVE  /\ RemoveAt(s, at) \in Seq(S) /\ Len(RemoveAt(s, at)) = Len(s) - 1
           /\ \A k \in 1..(Len(s) - 1) : RemoveAt(s, at)[k] = IF k < at THEN s[k] ELSE s[k + 1]
  <1>0. PICK n : n = Len(s)
    OBVIOUS
  <1> DEFINE before == SubSeq(s, 1, at - 1)
             after == SubSeq(s, at + 1, n)
  <1>1. n \in Nat /\ at \in Nat /\ 1 <= at /\ at <= n
    BY <1>0, LenProperties
  <1>2. RemoveAt(s, at) = before \o after
    BY <1>0 DEF RemoveAt
  <1>3. /\ before \in Seq(S) /\ Len(before) = at - 1
        /\ \A k \in 1..(at - 1) : before[k] = s[k]
    <2> DEFINE l == at - 1
    <2>1. l \in 0..n /\ l \in 1 - 1..n
      BY <1>1
    <2> HIDE DEF l
    <2>2. /\ SubSeq(s, 1, l) \in Seq(S) /\ Len(SubSeq(s, 1, l)) = l
          /\ \A k \in 1..l : SubSeq(s, 1, l)[k] = s[k]
      BY <1>0, <1>1, <2>1, SubSeqProperties
    <2> QED BY <2>2 DEF l
  <1>4. /\ after \in Seq(S) /\ Len(after) = n - at
        /\ \A k \in 1..(n - at) : after[k] = s[at + k]
    <2>1. at + 1 \in 1..n + 1 /\ n \in at..n /\ n + 1 - (at + 1) = n - at
      BY <1>1
    <2>2. after \in Seq(S) /\ Len(after) = n + 1 - (at + 1)
          /\ \A k \in 1..(n + 1 - (at + 1)) : after[k] = s[at + 1 + k - 1]
      BY <1>0, <1>1, <2>1, SubSeqProperties
    <2>3. \A k \in 1..(n - at) : at + 1 + k - 1 = at + k
      BY <1>1
    <2> HIDE DEF after
    <2> QED BY <2>1, <2>2, <2>3
  <1> HIDE DEF before, after
  <1> DEFINE rest == before \o after
  <1>5. /\ rest \in Seq(S) /\ Len(rest) = at - 1 + (n - at)
        /\ \A k \in 1..(at - 1 + (n - at)) :
              rest[k] = IF k <= at - 1 THEN before[k] ELSE after[k - (at - 1)]
    <2>1. /\ rest \in Seq(S) /\ Len(rest) = Len(before) + Len(after)
          /\ \A k \in 1..(Len(before) + Len(after)) :
                rest[k] = IF k <= Len(before) THEN before[k] ELSE after[k - Len(before)]
      BY <1>3, <1>4, ConcatProperties, Zenon
    <2> HIDE DEF rest
    <2> QED BY <1>3, <1>4, <2>1
  <1>6. at - 1 + (n - at) = n - 1
    BY <1>1
  <1> HIDE DEF rest
  <1>7. ASSUME NEW k \in 1..(n - 1) PROVE rest[k] = IF k < at THEN s[k] ELSE s[k + 1]
    <2>1. CASE k < at
      <3>1. k \in 1..(at - 1) /\ k <= at - 1
        BY <1>1, <2>1
      <3> QED BY <1>3, <1>5, <1>6, <2>1, <3>1
    <2>2. CASE ~(k < at)
      <3>1. k - (at - 1) \in 1..(n - at) /\ at + (k - (at - 1)) = k + 1 /\ ~(k <= at - 1)
        BY <1>1, <2>2
      <3> QED BY <1>4, <1>5, <1>6, <2>2, <3>1
    <2> QED BY <2>1, <2>2
  <1> QED BY <1>0, <1>2, <1>5, <1>6, <1>7 DEF rest

(* An operation that changes comes last. *)
LEMMA MovedRowIs ==
    ASSUME opRows \in Seq(OpRow), NEW i \in DOMAIN opRows, NEW state \in OpStates
    PROVE  MovedRow(i, state) \in Seq(OpRow)
  <1>1. PICK row : row = [opRows[i] EXCEPT !.state = state]
    OBVIOUS
  <1>2. opRows[i] \in OpRow /\ i \in 1..Len(opRows) /\ Len(opRows) \in Nat
    BY ElementOfSeq, LenProperties
  <1>3. row \in OpRow
    BY <1>1, <1>2 DEF OpRow
  <1>4. RemoveAt(opRows, i) \in Seq(OpRow)
    BY <1>2, RemovedAt
  <1> QED BY <1>1, <1>3, <1>4, AppendProperties DEF MovedRow

(* What a change of the news does: the operations and the resolution of an   *)
(* approval change only unannounced, and their announcement has a number.    *)
NewsMove ==
    /\ NewsTypes'
    /\ eventSeq <= eventSeq' /\ opSeq <= opSeq'
    /\ opSeq' = opSeq /\ "operation" \notin unheard' => "operation" \notin unheard /\ opRows' = opRows
    /\ opSeq' = opSeq /\ Settled' /\ approval'.state = "resolved" /\ approval'.linked =>
          Settled /\ approval.state = "resolved" /\ approval.linked

LEMMA MessageMoves ==
    ASSUME NewsTypes, UNCHANGED stream,
           MessageWritten \/ MessageAnnounced \/ MessageUnpublished
    PROVE  NewsMove
  <1>0. {messageCount, eventSeq, opSeq} \subseteq Nat /\ eventSeq <= messageCount
    BY DEF NewsTypes
  <1>1. /\ UNCHANGED <<approval, opRows, opSeq>>
        /\ "operation" \in unheard' <=> "operation" \in unheard
        /\ "resolution" \in unheard' <=> "resolution" \in unheard
    BY DEF MessageWritten, MessageAnnounced, MessageUnpublished
  <1>2. /\ {messageCount', eventSeq'} \subseteq Nat /\ eventSeq' <= messageCount'
        /\ eventSeq <= eventSeq'
    BY <1>0 DEF MessageWritten, MessageAnnounced, MessageUnpublished
  <1>3. NewsTypes'
    BY <1>0, <1>1, <1>2 DEF NewsTypes
  <1> QED BY <1>0, <1>1, <1>2, <1>3 DEF NewsMove, Settled

LEMMA OperationMoves ==
    ASSUME NewsTypes, UNCHANGED stream,
           OperationStarts \/ RowEnds \/ OperationAnnounced
    PROVE  NewsMove
  <1>0. /\ {messageCount, eventSeq, opSeq} \subseteq Nat /\ eventSeq <= messageCount
        /\ opRows \in Seq(OpRow) /\ Len(opRows) \in Nat
    BY LenProperties DEF NewsTypes
  <1>1. CASE OperationStarts
    <2>1. opRows' \in Seq(OpRow)
      <3>1. Len(opRows) + 1 \in 1..MaxOperations
        BY <1>0, <1>1, StreamAssumption DEF OperationStarts
      <3>2. PICK row : row = [id |-> Len(opRows) + 1, state |-> "running"]
        OBVIOUS
      <3>3. row \in OpRow
        BY <3>1, <3>2 DEF OpRow, OpStates
      <3> QED BY <1>0, <1>1, <3>2, <3>3, AppendProperties DEF OperationStarts
    <2> QED BY <1>0, <1>1, <2>1 DEF OperationStarts, NewsTypes, NewsMove, Settled
  <1>2. CASE RowEnds
    <2>1. PICK i \in DOMAIN opRows : opRows' = MovedRow(i, "ended")
      BY <1>2 DEF RowEnds
    <2>2. opRows' \in Seq(OpRow)
      BY <1>0, <2>1, MovedRowIs DEF OpStates
    <2> QED BY <1>0, <1>2, <2>2 DEF RowEnds, NewsTypes, NewsMove, Settled
  <1>3. CASE OperationAnnounced
    <2>1. opSeq' = opSeq + 1 /\ opSeq' \in Nat /\ opSeq' # opSeq /\ opSeq <= opSeq'
      BY <1>0, <1>3 DEF OperationAnnounced
    <2> QED BY <1>0, <1>3, <2>1 DEF OperationAnnounced, NewsTypes, NewsMove
  <1> QED BY <1>1, <1>2, <1>3

LEMMA ApprovalMoves ==
    ASSUME NewsTypes, UNCHANGED stream,
           ApprovalAsked \/ ApprovalResolved \/ OperationFollows \/ ApprovalExpires
    PROVE  NewsMove
  <1>0. /\ {messageCount, eventSeq, opSeq} \subseteq Nat /\ eventSeq <= messageCount
        /\ opRows \in Seq(OpRow) /\ approval \in [state : Approvals, linked : BOOLEAN]
    BY DEF NewsTypes
  <1>1. CASE ApprovalAsked
    <2>1. /\ approval' \in [state : Approvals, linked : BOOLEAN] /\ approval'.state = "pending"
          /\ UNCHANGED <<messageCount, eventSeq, opSeq>>
      <3>1. \E linked \in BOOLEAN : approval' = [state |-> "pending", linked |-> linked]
        BY <1>1 DEF ApprovalAsked
      <3>2. "pending" \in Approvals
        BY DEF Approvals
      <3> QED BY <1>1, <3>1, <3>2 DEF ApprovalAsked
    <2>2. opRows' \in Seq(OpRow) /\ ("operation" \notin unheard' => UNCHANGED <<opRows, unheard>>)
      <3>1. CASE UNCHANGED <<opRows, unheard>>
        BY <1>0, <3>1
      <3>2. CASE "operation" \in unheard' /\ \E i \in DOMAIN opRows : opRows' = MovedRow(i, "waiting")
        BY <1>0, <3>2, MovedRowIs DEF OpStates
      <3> QED BY <1>1, <3>1, <3>2 DEF ApprovalAsked
    <2> QED BY <1>0, <2>1, <2>2 DEF NewsTypes, NewsMove
  <1>2. CASE ApprovalResolved
    <2>1. /\ approval' \in [state : Approvals, linked : BOOLEAN]
          /\ approval'.linked = approval.linked
      BY <1>0, <1>2 DEF ApprovalResolved, Approvals
    <2>2. /\ UNCHANGED <<messageCount, eventSeq, opSeq, opRows>>
          /\ approval.linked => "resolution" \in unheard'
          /\ "operation" \in unheard' <=> "operation" \in unheard
      BY <1>2 DEF ApprovalResolved
    <2> QED BY <1>0, <2>1, <2>2 DEF NewsTypes, NewsMove, Settled
  <1>3. CASE OperationFollows
    <2>1. PICK i \in DOMAIN opRows, state \in {"running", "ended"} : opRows' = MovedRow(i, state)
      BY <1>3 DEF OperationFollows
    <2>2. opRows' \in Seq(OpRow)
      BY <1>0, <2>1, MovedRowIs DEF OpStates
    <2>3. UNCHANGED <<messageCount, eventSeq, opSeq, approval>> /\ "operation" \in unheard'
      BY <1>3 DEF OperationFollows
    <2> QED BY <1>0, <2>2, <2>3 DEF NewsTypes, NewsMove, Settled
  <1>4. CASE ApprovalExpires
    <2>1. /\ approval' \in [state : Approvals, linked : BOOLEAN] /\ approval'.state = "expired"
          /\ UNCHANGED <<messageCount, eventSeq, opSeq, opRows, unheard>>
      BY <1>0, <1>4 DEF ApprovalExpires, Approvals
    <2> QED BY <1>0, <2>1 DEF NewsTypes, NewsMove
  <1> QED BY <1>1, <1>2, <1>3, <1>4

(* Neither changes what the reader has seen of what it counts. *)
LEMMA NewsKeepsShown ==
    ASSUME StreamInv, NewsMove, StoreInv', FreshTimes', UNCHANGED <<stream, view, records, blurs>>,
           LatestUpdate' = LatestUpdate
    PROVE  StreamInv'
  <1>0. /\ {eventSeq, opSeq, eventSeq', opSeq'} \subseteq Nat
        /\ eventSeq <= eventSeq' /\ opSeq <= opSeq'
        /\ stream.seen.event \in Nat /\ stream.seen.operation \in Nat
    BY DEF StreamInv, NewsTypes, NewsMove
  <1>1. NothingAhead'
    BY <1>0 DEF StreamInv, NothingAhead, InTime
  <1>2. ShownAsNoted'
    <2> SUFFICES ASSUME Reading
                 PROVE  ShownAsNoted'
      BY DEF ShownAsNoted, Reading
    <2>1. stream.seen.operation <= opSeq
      BY DEF StreamInv, NothingAhead, Reading
    <2>2. stream.seen.operation = opSeq' => opSeq' = opSeq
      BY <1>0, <2>1
    <2>3. view.said >= stream.seen.event
      BY DEF StreamInv, ShownAsNoted
    <2>4. stream.seen.operation = opSeq' /\ "operation" \notin unheard' =>
             view.operations = ShownOperations'
      BY <2>2 DEF StreamInv, ShownAsNoted, NewsMove, ShownOperations
    <2>5. stream.seen.operation = opSeq' /\ Settled' /\ approval'.state = "resolved"
             /\ approval'.linked => view.approval = "resolved"
      BY <2>2 DEF StreamInv, ShownAsNoted, NewsMove
    <2>6. stream.seen.record = LatestUpdate' /\ InTime' => SameRows'
      BY DEF StreamInv, ShownAsNoted, InTime, SameRows, SameRow
    <2> QED BY <2>3, <2>4, <2>5, <2>6 DEF ShownAsNoted
  <1> QED BY <1>1, <1>2 DEF StreamInv, NewsMove

LEMMA NewsStep ==
    ASSUME StreamInv, UNCHANGED <<entry, records, callerJobs, puts, given, blurs, stream, view>>,
           \/ MessageWritten \/ MessageAnnounced \/ MessageUnpublished
           \/ OperationStarts \/ RowEnds \/ OperationAnnounced
           \/ ApprovalAsked \/ ApprovalResolved \/ OperationFollows \/ ApprovalExpires
    PROVE  StreamInv'
  <1>1. StoreInv /\ FreshTimes /\ NewsTypes
    BY DEF StreamInv
  <1>2. clock' = clock \/ CountCall
    BY DEF MessageWritten, MessageAnnounced, MessageUnpublished, OperationStarts, RowEnds,
           OperationAnnounced, ApprovalAsked, ApprovalResolved, OperationFollows, ApprovalExpires
  <1>3. StoreInv' /\ FreshTimes' /\ LatestUpdate' = LatestUpdate
    BY <1>1, <1>2, TimePasses
  <1>4. NewsMove
    BY <1>1, MessageMoves, OperationMoves, ApprovalMoves
  <1> QED BY <1>3, <1>4, NewsKeepsShown

LEMMA RecordsStep ==
    ASSUME StreamInv, RecordCalls, UNCHANGED <<newsVars, stream, view>>
    PROVE  StreamInv'
  <1>1. StoreInv /\ FreshTimes /\ StoreTypeOK
    BY DEF StreamInv, StoreInv
  <1>2. StoreInv' /\ StoreTypeOK' /\ RowsMove
    BY <1>1, RecordCallMoves DEF StoreInv
  <1>3. NewsTypes'
    BY DEF StreamInv, NewsTypes, newsVars
  <1>4. LatestUpdate \in Nat /\ LatestUpdate' \in Nat /\ stream.seen.record \in Nat
    BY <1>1, <1>2, LatestIs, LatestWillBe DEF StreamInv, NewsTypes
  <1>5. InTime' => InTime /\ LatestUpdate <= LatestUpdate'
    BY <1>2, <1>4 DEF RowsMove, InTime, Kept, Newer
  <1>6. NothingAhead'
    BY <1>4, <1>5 DEF StreamInv, NothingAhead, newsVars
  <1>7. ASSUME Reading, stream.seen.record = LatestUpdate', InTime'
        PROVE  SameRows'
    <2>1. InTime /\ stream.seen.record <= LatestUpdate
      BY <1>5, <1>7 DEF StreamInv, NothingAhead, Reading
    <2>2. Kept /\ LatestUpdate' = LatestUpdate
      BY <1>2, <1>4, <1>7, <2>1 DEF RowsMove, Newer, InTime, Kept
    <2>3. SameRows
      BY <1>7, <2>1, <2>2 DEF StreamInv, ShownAsNoted
    <2>4. ASSUME NEW i \in DOMAIN records
          PROVE  SameRow(view.records[i], records[i], i)'
      <3>1. SameRow(view.records[i], records[i], i)
        BY <2>3 DEF SameRows
      <3>2. <<"quiet", i>> \notin blurs' => <<"quiet", i>> \notin blurs
        BY <1>2 DEF RowsMove
      <3> QED BY <2>2, <3>1, <3>2 DEF Kept, SameRow
    <2> QED BY <2>2, <2>3, <2>4 DEF Kept, SameRows
  <1>8. ShownAsNoted'
    BY <1>7 DEF StreamInv, ShownAsNoted, Reading, newsVars, ShownOperations, Settled
  <1> QED BY <1>2, <1>3, <1>6, <1>8 DEF StreamInv, RowsMove

LEMMA ReaderStep ==
    ASSUME StreamInv, UNCHANGED <<storeVars, newsVars>>,
           Connect \/ Poll \/ Snapshot \/ SnapshotFails \/ Disconnect \/ UNCHANGED <<stream, view>>
    PROVE  StreamInv'
  <1>1. StoreInv' /\ FreshTimes' /\ LatestUpdate' = LatestUpdate
    BY StoreStutter DEF StreamInv, storeVars, FreshTimes, Dated, LatestUpdate
  <1>2. LatestUpdate \in Nat /\ {messageCount, eventSeq, opSeq} \subseteq Nat
    BY LatestIs DEF StreamInv, StoreInv, NewsTypes
  <1>3. PICK seqs : seqs = LatestSeqs
    OBVIOUS
  <1>4. /\ seqs \in [event : Nat, approval : Nat, operation : Nat, record : Nat]
        /\ seqs.event = eventSeq /\ seqs.operation = opSeq /\ seqs.record = LatestUpdate
    BY <1>2, <1>3 DEF LatestSeqs
  <1>5. CASE Connect \/ Poll
    <2>1. stream' = [at |-> "snapshot", seen |-> seqs]
      BY <1>3, <1>5 DEF Connect, Poll
    <2>2. NewsTypes'
      BY <1>4, <2>1 DEF StreamInv, NewsTypes, newsVars
    <2>3. NothingAhead' /\ ShownAsNoted'
      BY <1>1, <1>2, <1>4, <2>1 DEF NothingAhead, ShownAsNoted, Reading, newsVars
    <2> QED BY <1>1, <2>2, <2>3 DEF StreamInv
  <1>6. CASE Snapshot \/ SnapshotFails
    <2>1. /\ stream'.seen = stream.seen /\ stream'.at = "waiting" /\ stream.at = "snapshot"
          /\ stream' \in [at : {"off", "waiting", "snapshot"},
                           seen : [event : Nat, approval : Nat, operation : Nat, record : Nat]]
      BY <1>6 DEF StreamInv, NewsTypes, Snapshot, SnapshotFails
    <2>2. NewsTypes'
      BY <2>1 DEF StreamInv, NewsTypes, newsVars
    <2>3. NothingAhead'
      BY <1>1, <2>1 DEF StreamInv, NothingAhead, newsVars, storeVars, InTime
    <2>4. CASE SnapshotFails
      <3>1. ~Reading'
        BY <2>4 DEF SnapshotFails, Reading, Blank
      <3> QED BY <1>1, <2>2, <2>3, <3>1 DEF StreamInv, ShownAsNoted
    <2>5. CASE Snapshot
      <3>1. /\ view'.said = messageCount /\ view'.approval = approval.state
            /\ view'.operations = ShownOperations /\ view'.records = records
        BY <2>5 DEF Snapshot
      <3>2. view'.said >= stream'.seen.event
        <4>1. /\ eventSeq <= messageCount /\ stream.seen.event <= eventSeq
              /\ stream.seen.event \in Nat
          BY <2>1 DEF StreamInv, NewsTypes, NothingAhead
        <4> QED BY <1>2, <2>1, <3>1, <4>1
      <3>3. SameRows'
        BY <3>1 DEF SameRows, SameRow, storeVars
      <3>4. ShownOperations' = ShownOperations /\ approval' = approval
        BY DEF ShownOperations, newsVars
      <3>5. ShownAsNoted'
        BY <3>1, <3>2, <3>3, <3>4 DEF ShownAsNoted
      <3> QED BY <1>1, <2>2, <2>3, <3>5 DEF StreamInv
    <2> QED BY <1>6, <2>4, <2>5
  <1>7. CASE Disconnect
    <2>1. stream'.at = "off" /\ stream' \in [at : {"off", "waiting", "snapshot"},
                           seen : [event : Nat, approval : Nat, operation : Nat, record : Nat]]
      BY <1>7 DEF Disconnect, Nothing
    <2>2. NewsTypes' /\ NothingAhead' /\ ShownAsNoted'
      BY <2>1 DEF StreamInv, NewsTypes, NothingAhead, ShownAsNoted, Reading, newsVars
    <2> QED BY <1>1, <2>2 DEF StreamInv
  <1>8. CASE UNCHANGED <<stream, view>>
    <2>1. NewsTypes' /\ NothingAhead' /\ ShownAsNoted'
      BY <1>1, <1>8
      DEF StreamInv, NewsTypes, NothingAhead, ShownAsNoted, Reading, newsVars, storeVars, InTime,
          ShownOperations, Settled, SameRows, SameRow
    <2> QED BY <1>1, <2>1 DEF StreamInv
  <1> QED BY <1>5, <1>6, <1>7, <1>8

LEMMA StreamStep == StreamInv /\ [StreamNext]_streamVars => StreamInv'
  <1> SUFFICES ASSUME StreamInv, [StreamNext]_streamVars PROVE StreamInv'
    OBVIOUS
  <1>1. CASE Changes /\ UNCHANGED <<stream, view>>
    BY <1>1, NewsStep, RecordsStep DEF Changes
  <1>2. CASE Connect \/ Poll \/ Snapshot \/ SnapshotFails \/ Disconnect \/ UNCHANGED streamVars
    <2>1. UNCHANGED <<storeVars, newsVars>>
      BY <1>2 DEF Connect, Poll, Snapshot, SnapshotFails, Disconnect, streamVars
    <2> QED BY <1>2, <2>1, ReaderStep DEF streamVars
  <1> QED BY <1>1, <1>2 DEF StreamNext

LEMMA StreamInvShows == StreamInv => MessagesAreShown /\ OperationsAreShown /\ RecordsAreShown
  <1> SUFFICES ASSUME StreamInv, UpToDate
               PROVE  MessagesAreShown /\ OperationsAreShown /\ RecordsAreShown
    BY DEF MessagesAreShown, OperationsAreShown, RecordsAreShown
  <1>1. /\ Reading /\ stream.seen.event = eventSeq /\ stream.seen.operation = opSeq
        /\ stream.seen.record = LatestUpdate
    BY DEF UpToDate, Reading, LatestSeqs
  <1>2. MessagesAreShown
    BY <1>1 DEF StreamInv, ShownAsNoted, MessagesAreShown
  <1>3. OperationsAreShown
    <2> SUFFICES ASSUME unheard \cap {"operation", "resolution"} = {}
                 PROVE  /\ view.operations = ShownOperations
                        /\ Len(opRows) <= OperationLimit => ToSet(view.operations) = ToSet(opRows)
                        /\ approval.state = "resolved" /\ approval.linked =>
                               view.approval = "resolved"
      BY DEF OperationsAreShown
    <2>1. view.operations = ShownOperations
      BY <1>1 DEF StreamInv, ShownAsNoted
    <2>2. Len(opRows) <= OperationLimit => ShownOperations = opRows
      <3>1. opRows \in Seq(OpRow) /\ Len(opRows) \in Nat /\ OperationLimit \in Nat
        BY LenProperties, StreamAssumption DEF StreamInv, NewsTypes
      <3>2. SubSeq(opRows, 1, Len(opRows)) = opRows
        BY <3>1
      <3>3. Len(opRows) <= OperationLimit => Len(opRows) < OperationLimit \/ Len(opRows) = OperationLimit
        BY <3>1
      <3> QED BY <3>2, <3>3 DEF ShownOperations, Oldest
    <2>3. approval.state = "resolved" /\ approval.linked => view.approval = "resolved"
      BY <1>1 DEF StreamInv, ShownAsNoted, Settled
    <2> QED BY <2>1, <2>2, <2>3
  <1>4. RecordsAreShown
    BY <1>1 DEF StreamInv, ShownAsNoted, InTime, SameRows, SameRow, RecordsAreShown
  <1> QED BY <1>2, <1>3, <1>4

(* A reader that is up to date is shown every message, operation, approval   *)
(* and record, for any overlap of their writers with the polls, the failed   *)
(* snapshots and the reconnections (conversation_stream).                    *)
THEOREM ReaderIsUpToDate ==
    StreamSpec => [](MessagesAreShown /\ OperationsAreShown /\ RecordsAreShown)
  BY StreamBegins, StreamStep, StreamInvShows, PTL DEF StreamSpec

-----------------------------------------------------------------------------
(* The types of the stream.  No two operations have one id, because ids      *)
(* count the operations and a change only moves a row; and the numbers       *)
(* polled are within the times drawn.                                        *)
Apart(s) ==
    /\ \A i, j \in 1..Len(s) : s[i].id = s[j].id => i = j
    /\ \A i \in 1..Len(s) : s[i].id <= Len(s)

SeenSeqs == [event : Instants, approval : 0..1, operation : Nat, record : Instants]
Views == [good : BOOLEAN, said : Instants, approval : Approvals,
          operations : Seq(OpRow), records : Seq(Row)]

StreamKinds ==
    /\ messageCount <= clock
    /\ Apart(opRows)
    /\ unheard \subseteq News
    /\ stream.seen \in SeenSeqs
    /\ view \in Views

LEMMA StreamKindsBegin == StreamInit => StreamKinds
  <1> SUFFICES ASSUME StreamInit PROVE StreamKinds
    OBVIOUS
  <1>1. 0 \in Instants
    BY StoreAssumption DEF Instants
  <1>2. Nothing \in SeenSeqs
    BY <1>1 DEF Nothing, SeenSeqs
  <1>3. Blank \in Views
    BY <1>1 DEF Blank, Views, Approvals
  <1>4. messageCount <= clock /\ Apart(opRows)
    BY DEF StreamInit, StoreInit, Apart
  <1> QED BY <1>2, <1>3, <1>4 DEF StreamInit, StreamKinds

LEMMA MovedApart ==
    ASSUME opRows \in Seq(OpRow), Apart(opRows), NEW i \in DOMAIN opRows, NEW state \in OpStates
    PROVE  Apart(MovedRow(i, state))
  <1>1. PICK n : n = Len(opRows)
    OBVIOUS
  <1>2. PICK row : row = [opRows[i] EXCEPT !.state = state]
    OBVIOUS
  <1>3. PICK r : r = RemoveAt(opRows, i)
    OBVIOUS
  <1>4. /\ n \in Nat /\ i \in 1..n /\ \A k \in 1..n : opRows[k] \in OpRow
        /\ r \in Seq(OpRow) /\ Len(r) = n - 1
        /\ \A k \in 1..(n - 1) : r[k] = IF k < i THEN opRows[k] ELSE opRows[k + 1]
    <2>1. n \in Nat /\ i \in 1..n /\ \A k \in 1..n : opRows[k] \in OpRow
      BY <1>1, ElementOfSeq, LenProperties
    <2>2. opRows \in Seq(OpRow) /\ i \in 1..Len(opRows)
      BY <1>1, <2>1
    <2>3. /\ RemoveAt(opRows, i) \in Seq(OpRow)
          /\ Len(RemoveAt(opRows, i)) = Len(opRows) - 1
          /\ \A k \in 1..(Len(opRows) - 1) :
                RemoveAt(opRows, i)[k] = IF k < i THEN opRows[k] ELSE opRows[k + 1]
      BY <2>2, RemovedAt
    <2> QED BY <1>1, <1>3, <2>1, <2>3
  <1>5. row \in OpRow /\ row.id = opRows[i].id
    BY <1>2, <1>4 DEF OpRow
  <1>6. PICK s : s = MovedRow(i, state)
    OBVIOUS
  <1>7. /\ Len(s) = n /\ s[n] = row
        /\ \A k \in 1..(n - 1) : s[k] = r[k]
    <2>1. s = Append(r, row)
      BY <1>2, <1>3, <1>6 DEF MovedRow
    <2>2. /\ Len(s) = Len(r) + 1 /\ s[Len(r) + 1] = row
          /\ \A k \in 1..Len(r) : s[k] = r[k]
      BY <1>4, <1>5, <2>1, AppendProperties
    <2>3. n - 1 + 1 = n
      BY <1>4
    <2> QED BY <1>4, <2>2, <2>3
  (* Where a row comes from. *)
  <1> DEFINE From(k) == IF k = n THEN i ELSE IF k < i THEN k ELSE k + 1
  <1>8. \A k \in 1..n : From(k) \in 1..n /\ s[k].id = opRows[From(k)].id
    <2> SUFFICES ASSUME NEW k \in 1..n PROVE From(k) \in 1..n /\ s[k].id = opRows[From(k)].id
      OBVIOUS
    <2>1. CASE k = n
      BY <1>4, <1>5, <1>7, <2>1
    <2>2. CASE k # n
      <3>1. k \in 1..(n - 1) /\ k + 1 \in 1..n
        BY <1>4, <2>2
      <3>2. s[k] = opRows[From(k)]
        BY <1>4, <1>7, <2>2, <3>1
      <3> QED BY <2>2, <3>1, <3>2
    <2> QED BY <2>1, <2>2
  <1>9. \A k, l \in 1..n : From(k) = From(l) => k = l
    <2>1. n \in Nat /\ i \in 1..n
      BY <1>4
    <2> QED BY <2>1
  <1> HIDE DEF From
  <1>10. /\ \A k, l \in 1..n : opRows[k].id = opRows[l].id => k = l
         /\ \A k \in 1..n : opRows[k].id <= n
    BY <1>1 DEF Apart
  <1>11. /\ \A k, l \in 1..n : s[k].id = s[l].id => k = l
         /\ \A k \in 1..n : s[k].id <= n
    BY <1>8, <1>9, <1>10
  <1> QED BY <1>6, <1>7, <1>11 DEF Apart

(* A new row has the next id. *)
LEMMA StartedApart ==
    ASSUME opRows \in Seq(OpRow), Apart(opRows), NEW row \in OpRow, row.id = Len(opRows) + 1
    PROVE  Apart(Append(opRows, row))
  <1>1. PICK n : n = Len(opRows)
    OBVIOUS
  <1>2. PICK s : s = Append(opRows, row)
    OBVIOUS
  <1>3. /\ n \in Nat /\ Len(s) = n + 1 /\ s[n + 1] = row
        /\ \A k \in 1..n : s[k] = opRows[k] /\ opRows[k].id \in Nat
    <2>1. n \in Nat /\ \A k \in 1..n : opRows[k] \in OpRow
      BY <1>1, ElementOfSeq, LenProperties
    <2>2. \A k \in 1..n : opRows[k].id \in Nat
      BY <2>1, StreamAssumption DEF OpRow
    <2> QED BY <1>1, <1>2, <2>1, <2>2, AppendProperties
  <1>4. /\ \A k, l \in 1..n : opRows[k].id = opRows[l].id => k = l
        /\ \A k \in 1..n : opRows[k].id <= n
    BY <1>1 DEF Apart
  <1>5. \A k \in 1..(n + 1) : k = n + 1 \/ k \in 1..n
    BY <1>3
  <1>6. \A k \in 1..(n + 1) : s[k].id <= n + 1 /\ (s[k].id = n + 1 => k = n + 1)
    BY <1>1, <1>3, <1>4, <1>5
  <1>7. \A k, l \in 1..(n + 1) : s[k].id = s[l].id => k = l
    <2> SUFFICES ASSUME NEW k \in 1..(n + 1), NEW l \in 1..(n + 1), s[k].id = s[l].id PROVE k = l
      OBVIOUS
    <2>1. CASE k = n + 1 \/ l = n + 1
      <3>1. s[k].id = n + 1
        BY <1>1, <1>3, <2>1
      <3> QED BY <1>6, <3>1
    <2>2. CASE k \in 1..n /\ l \in 1..n
      BY <1>3, <1>4, <2>2
    <2> QED BY <1>5, <2>1, <2>2
  <1> QED BY <1>2, <1>3, <1>6, <1>7 DEF Apart

(* Messages are counted with the times, and the rows of operations are moved *)
(* or added. *)
LEMMA NewsKinds ==
    ASSUME StreamInv, StreamKinds,
           UNCHANGED <<entry, records, callerJobs, puts, given, blurs, stream, view>>,
           \/ MessageWritten \/ MessageAnnounced \/ MessageUnpublished
           \/ OperationStarts \/ RowEnds \/ OperationAnnounced
           \/ ApprovalAsked \/ ApprovalResolved \/ OperationFollows \/ ApprovalExpires
    PROVE  StreamKinds'
  <1>0. /\ messageCount \in Nat /\ clock \in Nat /\ opRows \in Seq(OpRow)
        /\ messageCount <= clock /\ Apart(opRows) /\ unheard \subseteq News
    BY StoreFacts DEF StreamInv, StoreInv, NewsTypes, StreamKinds
  <1>1. clock' = clock \/ clock' = clock + 1
    BY DEF MessageWritten, MessageAnnounced, MessageUnpublished, OperationStarts, RowEnds,
           OperationAnnounced, ApprovalAsked, ApprovalResolved, OperationFollows, ApprovalExpires,
           CountCall
  <1>2. messageCount' = messageCount \/ (messageCount' = messageCount + 1 /\ clock' = clock + 1)
    BY DEF MessageWritten, MessageAnnounced, MessageUnpublished, OperationStarts, RowEnds,
           OperationAnnounced, ApprovalAsked, ApprovalResolved, OperationFollows, ApprovalExpires,
           CountCall
  <1>3. messageCount' <= clock'
    BY <1>0, <1>1, <1>2
  <1>4. unheard' \subseteq unheard \cup {"message", "operation", "resolution"}
    BY DEF MessageWritten, MessageAnnounced, MessageUnpublished, OperationStarts, RowEnds,
           OperationAnnounced, ApprovalAsked, ApprovalResolved, OperationFollows, ApprovalExpires
  <1>5. unheard' \subseteq News
    BY <1>0, <1>4 DEF News
  <1>6. \/ opRows' = opRows
        \/ OperationStarts
        \/ \E i \in DOMAIN opRows, state \in OpStates : opRows' = MovedRow(i, state)
    BY DEF MessageWritten, MessageAnnounced, MessageUnpublished, RowEnds,
           OperationAnnounced, ApprovalAsked, ApprovalResolved, OperationFollows, ApprovalExpires,
           OpStates
  <1>7. Apart(opRows')
    <2>1. ASSUME OperationStarts PROVE Apart(opRows')
      <3>1. Len(opRows) + 1 \in 1..MaxOperations
        BY <1>0, <2>1, LenProperties, StreamAssumption DEF OperationStarts
      <3>2. PICK row : row = [id |-> Len(opRows) + 1, state |-> "running"]
        OBVIOUS
      <3>3. row \in OpRow /\ row.id = Len(opRows) + 1
        BY <3>1, <3>2 DEF OpRow, OpStates
      <3>4. opRows' = Append(opRows, row)
        BY <2>1, <3>2 DEF OperationStarts
      <3> QED BY <1>0, <3>3, <3>4, StartedApart
    <2>2. ASSUME NEW i \in DOMAIN opRows, NEW state \in OpStates, opRows' = MovedRow(i, state)
          PROVE  Apart(opRows')
      BY <1>0, <2>2, MovedApart
    <2> QED BY <1>0, <1>6, <2>1, <2>2
  <1> QED BY <1>3, <1>5, <1>7 DEF StreamKinds

LEMMA RecordKinds ==
    ASSUME StreamInv, StreamKinds, RecordCalls, UNCHANGED <<newsVars, stream, view>>
    PROVE  StreamKinds'
  <1>0. messageCount \in Nat /\ clock \in Nat /\ messageCount <= clock
    BY StoreFacts DEF StreamInv, StoreInv, NewsTypes, StreamKinds
  <1>1. PICK c \in StoreClients :
           \/ StartAppend(c) \/ AppendRecord(c)
           \/ ReadRecord(c) \/ TakeTime(c) \/ UpdateRecord(c) \/ MarkClosed(c)
           \/ FindRecord(c) \/ CloseRecord(c)
    BY DEF RecordCalls
  <1>2. clock' = clock \/ clock' = clock + 1
    BY <1>1 DEF StartAppend, AppendRecord, ReadRecord, TakeTime, UpdateRecord, MarkClosed,
                FindRecord, CloseRecord, CountCall
  <1>3. messageCount' <= clock'
    BY <1>0, <1>2 DEF newsVars
  <1> QED BY <1>3 DEF StreamKinds, newsVars

LEMMA ReaderKinds ==
    ASSUME StreamInv, StreamKinds, UNCHANGED <<storeVars, newsVars>>,
           Connect \/ Poll \/ Snapshot \/ SnapshotFails \/ Disconnect \/ UNCHANGED <<stream, view>>
    PROVE  StreamKinds'
  <1>0. /\ messageCount \in Nat /\ eventSeq \in Nat /\ opSeq \in Nat /\ eventSeq <= messageCount
        /\ clock \in Nat /\ clock <= MaxStoreCalls /\ messageCount <= clock
        /\ MaxStoreCalls \in Nat /\ records \in Seq(Row)
        /\ opRows \in Seq(OpRow) /\ approval \in [state : Approvals, linked : BOOLEAN]
    BY StoreFacts DEF StreamInv, StoreInv, NewsTypes, StreamKinds
  <1>1. messageCount' <= clock' /\ Apart(opRows)' /\ unheard' \subseteq News
    BY DEF StreamKinds, storeVars, newsVars
  <1>2. messageCount \in Instants /\ eventSeq \in Instants /\ 0 \in Instants
    BY <1>0 DEF Instants
  <1>3. LatestUpdate \in Instants
    <2>1. /\ LatestUpdate \in Nat
          /\ LatestUpdate # 0 => \E i \in DOMAIN records : records[i].updated = LatestUpdate
          /\ \A i \in DOMAIN records : records[i].updated <= clock
      BY LatestIs, StoreFacts DEF StreamInv, StoreInv
    <2>2. LatestUpdate = 0 \/ LatestUpdate <= clock
      BY <2>1
    <2> QED BY <1>0, <2>1, <2>2 DEF Instants
  <1>4. LatestSeqs \in SeenSeqs
    BY <1>0, <1>2, <1>3 DEF LatestSeqs, SeenSeqs
  <1>5. Nothing \in SeenSeqs
    BY <1>2 DEF Nothing, SeenSeqs
  <1>6. stream'.seen \in SeenSeqs
    <2>1. CASE Snapshot \/ SnapshotFails
      BY <2>1 DEF Snapshot, SnapshotFails, StreamKinds, StreamInv, NewsTypes
    <2>2. CASE Connect \/ Poll
      <3>1. stream'.seen = LatestSeqs
        BY <2>2 DEF Connect, Poll
      <3> QED BY <1>4, <3>1
    <2>3. CASE Disconnect \/ UNCHANGED <<stream, view>>
      BY <1>5, <2>3 DEF Disconnect, StreamKinds
    <2> QED BY <2>1, <2>2, <2>3
  <1>7. Blank \in Views
    BY <1>2 DEF Blank, Views, Approvals
  <1>8. ShownOperations \in Seq(OpRow)
    <2>1. PICK n : n = IF Len(opRows) < OperationLimit THEN Len(opRows) ELSE OperationLimit
      OBVIOUS
    <2>2. Len(opRows) \in Nat /\ OperationLimit \in Nat /\ n \in 0..Len(opRows) /\ n \in 1 - 1..Len(opRows)
      BY <1>0, <2>1, LenProperties, StreamAssumption
    <2>3. SubSeq(opRows, 1, n) \in Seq(OpRow)
      BY <1>0, <2>2, SubSeqProperties
    <2> QED BY <2>1, <2>3 DEF ShownOperations, Oldest
  <1>9. view' \in Views
    <2>1. CASE Snapshot
      <3>1. PICK shown : shown = ShownOperations
        OBVIOUS
      <3>2. view' = [good |-> TRUE, said |-> messageCount, approval |-> approval.state,
                     operations |-> shown, records |-> records]
        BY <2>1, <3>1 DEF Snapshot
      <3>3. approval.state \in Approvals
        BY <1>0
      <3> QED BY <1>0, <1>2, <1>8, <3>1, <3>2, <3>3 DEF Views
    <2>2. CASE SnapshotFails \/ Disconnect
      BY <1>7, <2>2 DEF SnapshotFails, Disconnect
    <2>3. CASE Connect \/ Poll \/ UNCHANGED <<stream, view>>
      BY <2>3 DEF Connect, Poll, StreamKinds
    <2> QED BY <2>1, <2>2, <2>3
  <1> QED BY <1>1, <1>6, <1>9 DEF StreamKinds

LEMMA StreamKindsStep == StreamInv /\ StreamKinds /\ [StreamNext]_streamVars => StreamKinds'
  <1> SUFFICES ASSUME StreamInv, StreamKinds, [StreamNext]_streamVars PROVE StreamKinds'
    OBVIOUS
  <1>1. CASE Changes /\ UNCHANGED <<stream, view>>
    BY <1>1, NewsKinds, RecordKinds DEF Changes
  <1>2. CASE Connect \/ Poll \/ Snapshot \/ SnapshotFails \/ Disconnect \/ UNCHANGED streamVars
    <2>1. UNCHANGED <<storeVars, newsVars>>
      BY <1>2 DEF Connect, Poll, Snapshot, SnapshotFails, Disconnect, streamVars
    <2> QED BY <1>2, <2>1, ReaderKinds DEF streamVars
  <1> QED BY <1>1, <1>2 DEF StreamNext

LEMMA StreamTypes == StreamInv /\ StreamKinds => StreamTypeOK
  <1> SUFFICES ASSUME StreamInv, StreamKinds PROVE StreamTypeOK
    OBVIOUS
  <1>0. /\ StoreTypeOK /\ messageCount \in Nat /\ eventSeq \in Nat /\ opSeq \in Nat
        /\ eventSeq <= messageCount
        /\ clock \in Nat /\ clock <= MaxStoreCalls /\ messageCount <= clock
        /\ MaxStoreCalls \in Nat
    BY StoreFacts DEF StreamInv, StoreInv, NewsTypes, StreamKinds
  <1>1. messageCount \in Instants /\ eventSeq \in Instants
    BY <1>0 DEF Instants
  <1>2. \A i, j \in DOMAIN opRows : opRows[i].id = opRows[j].id => i = j
    <2>1. opRows \in Seq(OpRow) /\ Apart(opRows)
      BY DEF StreamInv, NewsTypes, StreamKinds
    <2>2. DOMAIN opRows = 1..Len(opRows)
      BY <2>1, LenProperties
    <2> QED BY <2>1, <2>2 DEF Apart
  <1>3. stream \in [at : {"off", "waiting", "snapshot"}, seen : SeenSeqs]
    BY DEF StreamInv, NewsTypes, StreamKinds
  <1> QED BY <1>0, <1>1, <1>2, <1>3
          DEF StreamInv, NewsTypes, StreamKinds, StreamTypeOK, SeenSeqs, Views

(* The rows, the numbers and what the reader holds keep their types.         *)
THEOREM StreamKeepsTypes == StreamSpec => []StreamTypeOK
  <1>1. StreamSpec => [](StreamInv /\ StreamKinds)
    BY StreamBegins, StreamStep, StreamKindsBegin, StreamKindsStep, PTL DEF StreamSpec
  <1> QED BY <1>1, StreamTypes, PTL

-----------------------------------------------------------------------------
(* Memories (MemoryStore): lists in the order of their last change, budgets, *)
(* the matching of namespaces, and the accounts of what was done.            *)

(* What is computed one step after another: there is a function of the number *)
(* of steps. *)
Iterated(f, N, V, base, step) ==
    f \in [0..N -> V] /\ f[0] = base /\ \A n \in 1..N : f[n] = step[n][f[n - 1]]

LEMMA Iterates ==
    ASSUME NEW N \in Nat, NEW V, NEW base \in V, NEW step, step \in [1..N -> [V -> V]]
    PROVE  \E f : Iterated(f, N, V, base, step)
  <1> DEFINE Made(f, n) == f[0] = base /\ \A m \in 1..n : f[m] = step[m][f[m - 1]]
             Good == {n \in 0..N : \E f \in [0..n -> V] : Made(f, n)}
  <1>1. 0 \in Good
    <2> DEFINE f == [n \in 0..0 |-> base]
    <2>1. f \in [0..0 -> V] /\ f[0] = base
      OBVIOUS
    <2> HIDE DEF f
    <2>2. \E g \in [0..0 -> V] : Made(g, 0)
      BY <2>1
    <2> QED BY <2>2
  <1>2. ASSUME NEW n \in 0..N, n \in Good, n < N
        PROVE  n + 1 \in Good
    <2>1. PICK f \in [0..n -> V] : Made(f, n)
      BY <1>2
    <2> DEFINE g == [m \in 0..(n + 1) |-> IF m = n + 1 THEN step[n + 1][f[n]] ELSE f[m]]
    <2>2. f[n] \in V /\ n + 1 \in 1..N
      BY <1>2
    <2>3. step[n + 1][f[n]] \in V
      BY <2>2
    <2>4. g \in [0..(n + 1) -> V]
      BY <2>3
    <2>5. g[0] = base /\ g[n + 1] = step[n + 1][f[n]] /\ \A m \in 0..n : g[m] = f[m]
      BY <2>1
    <2> HIDE DEF g
    <2>6. ASSUME NEW m \in 1..(n + 1)
          PROVE  g[m] = step[m][g[m - 1]]
      <3>1. CASE m = n + 1
        <4>1. m - 1 = n /\ n \in 0..n
          BY <3>1
        <4> QED BY <2>5, <3>1, <4>1
      <3>2. CASE m # n + 1
        <4>1. m \in 1..n /\ m \in 0..n /\ m - 1 \in 0..n
          BY <3>2
        <4> QED BY <2>1, <2>5, <4>1
      <3> QED BY <3>1, <3>2
    <2> QED BY <2>2, <2>4, <2>5, <2>6
  <1>3. N \in Good
    <2> HIDE DEF Good
    <2>1. 0..N \subseteq Good
      BY <1>1, <1>2, UpTo
    <2> QED BY <2>1
  <1>4. PICK f \in [0..N -> V] : Made(f, N)
    BY <1>3
  <1> QED BY <1>4 DEF Iterated

(* The sum over a list is that over all but the last, and the last. *)
SumUpTo(f, noted, n) == IF n = 0 THEN 0 ELSE f[n - 1] + Chars(memories[noted[n]])

LEMMA SumIs ==
    ASSUME NEW N \in Nat, NEW noted \in [1..N -> Nat], Len(noted) = N
    PROVE  \E f \in [0..N -> Nat] :
              /\ SumOfChars(noted) = f[N] /\ f[0] = 0
              /\ \A n \in 1..N : f[n] = f[n - 1] + Chars(memories[noted[n]])
  <1> DEFINE step == [n \in 1..N |-> [m \in Nat |-> m + Chars(memories[noted[n]])]]
  <1>1. \A i : Chars(memories[i]) \in Nat
    BY DEF Chars
  <1>2. step \in [1..N -> [Nat -> Nat]]
    BY <1>1
  <1>3. PICK f \in [0..N -> Nat] : f[0] = 0 /\ \A n \in 1..N : f[n] = step[n][f[n - 1]]
    <2> DEFINE V == Nat
    <2>1. 0 \in V /\ step \in [1..N -> [V -> V]]
      BY <1>2
    <2> HIDE DEF step, V
    <2>2. \E f : Iterated(f, N, V, 0, step)
      BY <2>1, Iterates
    <2> QED BY <2>2 DEF V, Iterated
  <1>4. ASSUME NEW n \in 1..N PROVE f[n] = f[n - 1] + Chars(memories[noted[n]])
    <2>1. n - 1 \in 0..N
      OBVIOUS
    <2>2. f[n - 1] \in Nat
      BY <2>1
    <2> QED BY <1>3, <2>2
  <1>5. f = [n \in 0..Len(noted) |-> SumUpTo(f, noted, n)]
    <2>1. ASSUME NEW n \in 0..N PROVE f[n] = SumUpTo(f, noted, n)
      BY <1>3, <1>4 DEF SumUpTo
    <2> QED BY <2>1
  <1> DEFINE F == CHOOSE Sum : Sum = [n \in 0..Len(noted) |-> SumUpTo(Sum, noted, n)]
  <1>6. F = [n \in 0..Len(noted) |-> SumUpTo(F, noted, n)]
    BY <1>5
  <1>7. SumOfChars(noted) = F[N]
    BY DEF SumOfChars, SumUpTo
  <1> HIDE DEF F
  <1>8. \A n \in 0..N : F[n] = SumUpTo(F, noted, n)
    BY <1>6
  <1>9. F[0] = 0 /\ \A n \in 1..N : F[n] = F[n - 1] + Chars(memories[noted[n]])
    BY <1>8 DEF SumUpTo
  <1> DEFINE Good == {n \in 0..N : F[n] \in Nat}
  <1>10. 0..N \subseteq Good
    <2>1. 0 \in Good
      BY <1>9
    <2>2. \A n \in 0..N : n \in Good /\ n < N => n + 1 \in Good
      BY <1>1, <1>9
    <2> HIDE DEF Good
    <2> QED BY <2>1, <2>2, UpTo
  <1>11. F \in [0..N -> Nat]
    <2>1. \A n \in 0..N : F[n] \in Nat
      BY <1>10
    <2>2. F = [n \in 0..N |-> F[n]]
      BY <1>6
    <2> QED BY <2>1, <2>2
  <1> QED BY <1>7, <1>9, <1>11

LEMMA OrderedCovers ==
    ASSUME NEW N \in Nat, NEW S \in SUBSET (0..N)
    PROVE  LET c == Cardinality(S) IN
           /\ c \in Nat /\ Ordered(S) \in [1..c -> S]
           /\ \A i, j \in 1..c : i < j => Ordered(S)[i] < Ordered(S)[j]
           /\ \A m \in S : \E k \in 1..c : Ordered(S)[k] = m
  <1> DEFINE c == Cardinality(S)
             s == Ordered(S)
  <1>1. c \in Nat /\ s \in [1..c -> S] /\ \A i, j \in DOMAIN s : i < j => s[i] < s[j]
    BY CanBeOrdered DEF Ordered
  <1>2. IsFiniteSet(S)
    <2>1. IsFiniteSet(0..N)
      BY FS_Interval
    <2> QED BY <2>1, FS_Subset
  <1>3. IsFiniteSet(1..c) /\ Cardinality(1..c) = c
    BY <1>1, FS_Interval
  <1> HIDE DEF s
  <1>4. \A i, j \in 1..c : s[i] = s[j] => i = j
    <2> SUFFICES ASSUME NEW i \in 1..c, NEW j \in 1..c, s[i] = s[j], i # j
                 PROVE  FALSE
      OBVIOUS
    <2>1. s[i] \in 0..N /\ s[j] \in 0..N
      BY <1>1
    <2>2. i < j \/ j < i
      BY <1>1
    <2> QED BY <1>1, <2>1, <2>2
  <1>5. s \in Injection(1..c, S)
    BY <1>1, <1>4 DEF Injection, IsInjective
  <1>6. s \in Surjection(1..c, S)
    BY <1>2, <1>3, <1>5, FS_Injection
  <1>7. \A m \in S : \E k \in 1..c : s[k] = m
    BY <1>6 DEF Surjection
  <1> QED BY <1>1, <1>7 DEF s

(* Every memory has been touched once, last. *)
TouchedOnce(n) ==
    /\ n \in Nat /\ touched \in [1..n -> 1..n]
    /\ \A t, u \in 1..n : touched[t] = touched[u] => t = u
    /\ \A i \in 1..n : \E t \in 1..n : touched[t] = i

(* A list is of the memories of a set, each once, the last touched first. *)
ListsLatest(list, noted, n) ==
    \E c \in Nat :
       /\ list \in [1..c -> noted] /\ Len(list) = c
       /\ \A i \in noted : \E k \in 1..c : list[k] = i
       /\ \A k, l \in 1..c : \A t, u \in 1..n :
             k < l /\ touched[t] = list[k] /\ touched[u] = list[l] => u < t

LEMMA LatestOnes ==
    ASSUME NEW n, TouchedOnce(n), NEW noted \in SUBSET (1..n)
    PROVE  ListsLatest(Latest(noted), noted, n)
  <1> DEFINE T == {t \in 1..n : touched[t] \in noted}
             at == Ordered(T)
             c == Cardinality(T)
  <1>1. n \in Nat /\ DOMAIN touched = 1..n
    BY DEF TouchedOnce
  <1>2. T \in SUBSET (0..n)
    BY <1>1
  <1>3. /\ c \in Nat /\ at \in [1..c -> T]
        /\ \A i, j \in 1..c : i < j => at[i] < at[j]
        /\ \A t \in T : \E k \in 1..c : at[k] = t
    <2> HIDE DEF T
    <2> QED BY <1>1, <1>2, OrderedCovers
  <1>4. DOMAIN at = 1..c /\ Len(at) = c
    <2> HIDE DEF T, at
    <2>1. DOMAIN at = 1..c
      BY <1>3
    <2>2. at \in Seq(T)
      BY <1>3
    <2> QED BY <1>3, <2>1, <2>2, LenProperties
  <1>5. Latest(noted) = [k \in 1..c |-> touched[at[c + 1 - k]]]
    BY <1>1, <1>4 DEF Latest
  <1> HIDE DEF at
  <1>6. ASSUME NEW k \in 1..c
        PROVE  /\ c + 1 - k \in 1..c /\ at[c + 1 - k] \in 1..n
               /\ touched[at[c + 1 - k]] \in noted
               /\ Latest(noted)[k] = touched[at[c + 1 - k]]
    BY <1>3, <1>5
  <1>7. Latest(noted) \in [1..c -> noted] /\ Len(Latest(noted)) = c
    <2>1. Latest(noted) \in [1..c -> noted]
      <3>1. Latest(noted) = [k \in 1..c |-> Latest(noted)[k]]
        BY <1>5
      <3> QED BY <1>6, <3>1
    <2>2. Latest(noted) \in Seq(noted)
      BY <2>1, <1>3
    <2> QED BY <1>3, <2>1, <2>2, LenProperties
  <1>8. ASSUME NEW i \in noted
        PROVE  \E k \in 1..c : Latest(noted)[k] = i
    <2>1. PICK t \in 1..n : touched[t] = i
      BY DEF TouchedOnce
    <2>2. PICK k \in 1..c : at[k] = t
      BY <1>3, <2>1
    <2>3. c + 1 - k \in 1..c /\ c + 1 - (c + 1 - k) = k
      BY <1>3
    <2>4. Latest(noted)[c + 1 - k] = touched[at[k]]
      BY <1>6, <2>3
    <2> QED BY <2>1, <2>2, <2>3, <2>4
  <1>9. ASSUME NEW k \in 1..c, NEW l \in 1..c, NEW t \in 1..n, NEW u \in 1..n,
               k < l, touched[t] = Latest(noted)[k], touched[u] = Latest(noted)[l]
        PROVE  u < t
    <2>0. \A v, w \in 1..n : touched[v] = touched[w] => v = w
      BY DEF TouchedOnce
    <2>a. touched[t] = touched[at[c + 1 - k]] /\ at[c + 1 - k] \in 1..n
      BY <1>6, <1>9
    <2>b. touched[u] = touched[at[c + 1 - l]] /\ at[c + 1 - l] \in 1..n
      BY <1>6, <1>9
    <2>1. t = at[c + 1 - k]
      BY <2>0, <2>a
    <2>2. u = at[c + 1 - l]
      BY <2>0, <2>b
    <2>3. c + 1 - l < c + 1 - k /\ c + 1 - l \in 1..c /\ c + 1 - k \in 1..c
      BY <1>3, <1>9
    <2> QED BY <1>3, <2>1, <2>2, <2>3
  <1>10. \A k, l \in 1..c : \A t, u \in 1..n :
            k < l /\ touched[t] = Latest(noted)[k] /\ touched[u] = Latest(noted)[l] => u < t
    BY <1>9
  <1> HIDE DEF c
  <1> QED BY <1>3, <1>7, <1>8, <1>10 DEF ListsLatest

(* The first of a list. *)
ListOf(s, c, V) == c \in Nat /\ s \in [1..c -> V] /\ Len(s) = c

Fewer(c, m) == IF c < m THEN c ELSE m

LEMMA FirstNIs ==
    ASSUME NEW V, NEW c, NEW s, ListOf(s, c, V), NEW m \in Nat
    PROVE  /\ Fewer(c, m) \in Nat /\ Fewer(c, m) <= c
           /\ FirstN(s, m) = [k \in 1..Fewer(c, m) |-> s[k]]
           /\ ListOf(FirstN(s, m), Fewer(c, m), V)
           /\ FirstN(s, m) \in Seq(V)
  <1> DEFINE d == Fewer(c, m)
  <1>0. c \in Nat /\ s \in [1..c -> V] /\ Len(s) = c
    BY DEF ListOf
  <1>1. d \in Nat /\ d <= c
    BY <1>0 DEF Fewer
  <1>2. FirstN(s, m) = SubSeq(s, 1, d)
    BY <1>0 DEF FirstN, Fewer
  <1> HIDE DEF d
  <1>3. SubSeq(s, 1, d) = [k \in 1..d |-> s[k]]
    <2>1. s \in Seq(V)
      BY <1>0
    <2>2. SubSeq(s, 1, d) \in Seq(V) /\ Len(SubSeq(s, 1, d)) = d
          /\ \A k \in 1..d : SubSeq(s, 1, d)[k] = s[k]
      BY <1>0, <1>1, <2>1, SubSeqProperties
    <2>3. DOMAIN SubSeq(s, 1, d) = 1..d
      BY <2>2, LenProperties
    <2>4. SubSeq(s, 1, d) = [k \in 1..d |-> SubSeq(s, 1, d)[k]]
      BY <2>2, <2>3
    <2> QED BY <2>2, <2>4
  <1>4. [k \in 1..d |-> s[k]] \in [1..d -> V]
    BY <1>0, <1>1
  <1>5. FirstN(s, m) \in [1..d -> V]
    BY <1>2, <1>3, <1>4
  <1>6. FirstN(s, m) \in Seq(V)
    BY <1>1, <1>5
  <1>7. Len(FirstN(s, m)) = d
    BY <1>1, <1>5, <1>6, LenProperties
  <1> QED BY <1>1, <1>2, <1>3, <1>5, <1>6, <1>7 DEF d, ListOf

LEMMA RecallIs ==
    ASSUME NEW n, TouchedOnce(n), DOMAIN memories = 1..n
    PROVE  RecallMissesNothing /\ \A q \in Queries : RecallByNamespace(q) \in Seq(1..n)
  <1> SUFFICES ASSUME NEW q \in Queries
               PROVE  LET found == RecallByNamespace(q)
                          wanted == {i \in DOMAIN memories :
                                       /\ memories[i].owner = q.owner
                                       /\ memories[i].status = "active"
                                       /\ Asked(q, i)}
                          Time(i) == CHOOSE t \in DOMAIN touched : touched[t] = i
                      IN
                      /\ Range(found) \subseteq wanted
                      /\ \A i \in wanted \ Range(found) :
                            Len(found) = RecallLimit
                            /\ \A k \in DOMAIN found : Time(found[k]) > Time(i)
                      /\ found \in Seq(1..n)
    BY DEF RecallMissesNothing
  <1> DEFINE wanted == {i \in DOMAIN memories :
                          /\ memories[i].owner = q.owner /\ memories[i].status = "active"
                          /\ Asked(q, i)}
             all == Latest(wanted)
             found == RecallByNamespace(q)
             Time(i) == CHOOSE t \in DOMAIN touched : touched[t] = i
  <1>1. n \in Nat /\ DOMAIN touched = 1..n /\ RecallLimit \in Nat
    BY MemoryAssumption DEF TouchedOnce
  <1>2. wanted \in SUBSET (1..n)
    OBVIOUS
  <1>3. found = FirstN(all, RecallLimit)
    <2>1. wanted = {i \in Active(q.owner) : Asked(q, i)}
      BY DEF Active
    <2> QED BY <2>1 DEF RecallByNamespace
  <1>4. \A i \in 1..n : Time(i) \in 1..n /\ touched[Time(i)] = i
    BY <1>1 DEF TouchedOnce
  <1> HIDE DEF wanted, Time
  <1>5. ListsLatest(all, wanted, n)
    BY <1>2, LatestOnes
  <1>6. PICK c \in Nat :
           /\ all \in [1..c -> wanted] /\ Len(all) = c
           /\ \A i \in wanted : \E k \in 1..c : all[k] = i
           /\ \A k, l \in 1..c : \A t, u \in 1..n :
                 k < l /\ touched[t] = all[k] /\ touched[u] = all[l] => u < t
    BY <1>5 DEF ListsLatest
  <1> DEFINE d == Fewer(c, RecallLimit)
  <1>d. d = IF c < RecallLimit THEN c ELSE RecallLimit
    BY DEF Fewer
  <1> HIDE DEF all
  <1>e. ListOf(all, c, wanted)
    BY <1>6 DEF ListOf
  <1>f. /\ d \in Nat /\ d <= c /\ found = [k \in 1..d |-> all[k]]
        /\ ListOf(found, d, wanted) /\ found \in Seq(wanted)
    BY <1>1, <1>3, <1>e, FirstNIs
  <1> HIDE DEF d
  <1>7. /\ d \in Nat /\ d <= c /\ found = [k \in 1..d |-> all[k]]
        /\ found \in [1..d -> wanted] /\ Len(found) = d /\ found \in Seq(wanted)
    BY <1>f DEF ListOf
  <1> HIDE DEF found
  <1>8. Range(found) \subseteq wanted
    BY <1>7 DEF Range
  <1>9. ASSUME NEW i \in wanted \ Range(found)
        PROVE  Len(found) = RecallLimit /\ \A k \in DOMAIN found : Time(found[k]) > Time(i)
    <2>1. PICK l \in 1..c : all[l] = i
      BY <1>6, <1>9
    <2>2. l \notin 1..d
      BY <1>7, <1>9, <2>1 DEF Range
    <2>3. d < l /\ d = RecallLimit
      BY <1>1, <1>7, <1>d, <2>2
    <2>4. ASSUME NEW k \in 1..d
          PROVE  Time(found[k]) > Time(i)
      <3>1. found[k] = all[k] /\ k \in 1..c /\ k < l
        BY <1>7, <2>3
      <3>2. all[k] \in 1..n /\ i \in 1..n
        BY <1>2, <1>6, <1>9, <3>1
      <3>3. Time(i) < Time(all[k])
        BY <1>4, <1>6, <2>1, <3>1, <3>2
      <3>4. Time(i) \in 1..n /\ Time(all[k]) \in 1..n
        BY <1>4, <3>2
      <3> QED BY <3>1, <3>3, <3>4
    <2> QED BY <1>7, <2>3, <2>4
  <1>10. found \in Seq(1..n)
    <2>1. found \in [1..d -> 1..n]
      BY <1>2, <1>7
    <2> QED BY <1>7, <2>1
  <1> QED BY <1>8, <1>9, <1>10 DEF found, wanted, Time

(* The first m elements of a list. *)
Pre(s, m) == [k \in 1..m |-> s[k]]

LEMMA PreIs ==
    ASSUME NEW V, NEW c, NEW s, ListOf(s, c, V), NEW m \in 0..c
    PROVE  /\ SubSeq(s, 1, m) = Pre(s, m) /\ ListOf(Pre(s, m), m, V) /\ Pre(s, m) \in Seq(V)
           /\ \A k \in 0..m : Pre(Pre(s, m), k) = Pre(s, k)
           /\ m < c => Append(Pre(s, m), s[m + 1]) = Pre(s, m + 1)
  <1>1. c \in Nat /\ s \in [1..c -> V] /\ Len(s) = c /\ s \in Seq(V) /\ m \in Nat
    BY DEF ListOf
  <1>2. Pre(s, m) \in [1..m -> V]
    BY <1>1 DEF Pre
  <1>3. Pre(s, m) \in Seq(V)
    BY <1>1, <1>2
  <1>4. Len(Pre(s, m)) = m
    BY <1>1, <1>2, <1>3, LenProperties
  <1>5. SubSeq(s, 1, m) = Pre(s, m)
    <2>1. SubSeq(s, 1, m) \in Seq(V) /\ Len(SubSeq(s, 1, m)) = m
          /\ \A k \in 1..m : SubSeq(s, 1, m)[k] = s[k]
      BY <1>1, SubSeqProperties
    <2>2. DOMAIN SubSeq(s, 1, m) = 1..m
      BY <2>1, LenProperties
    <2>3. SubSeq(s, 1, m) = [k \in 1..m |-> SubSeq(s, 1, m)[k]]
      BY <2>1, <2>2
    <2> QED BY <2>1, <2>3 DEF Pre
  <1>6. ASSUME NEW k \in 0..m
        PROVE  Pre(Pre(s, m), k) = Pre(s, k)
    <2>1. \A l \in 1..k : Pre(s, m)[l] = s[l]
      BY <1>1 DEF Pre
    <2> QED BY <2>1 DEF Pre
  <1>7. ASSUME m < c
        PROVE  Append(Pre(s, m), s[m + 1]) = Pre(s, m + 1)
    <2> DEFINE t == Append(Pre(s, m), s[m + 1])
    <2>1. s[m + 1] \in V
      BY <1>1, <1>7
    <2>2. /\ t \in Seq(V) /\ Len(t) = m + 1 /\ t[m + 1] = s[m + 1]
          /\ \A k \in 1..m : t[k] = Pre(s, m)[k]
      BY <1>1, <1>3, <1>4, <2>1, AppendProperties
    <2>3. \A k \in 1..(m + 1) : t[k] = s[k]
      BY <1>1, <2>2 DEF Pre
    <2> HIDE DEF t
    <2>4. DOMAIN t = 1..(m + 1)
      BY <2>2, LenProperties
    <2>5. t = [k \in 1..(m + 1) |-> t[k]]
      BY <2>2, <2>4
    <2>6. t = Pre(s, m + 1)
      BY <2>3, <2>5 DEF Pre
    <2> QED BY <2>6 DEF t
  <1> QED BY <1>1, <1>2, <1>3, <1>4, <1>5, <1>6, <1>7 DEF ListOf

LEMMA SumIsNat ==
    ASSUME NEW c, NEW s, NEW n \in Nat, ListOf(s, c, 1..n)
    PROVE  SumOfChars(s) \in Nat
  <1>1. c \in Nat /\ Len(s) = c /\ s \in [1..c -> Nat]
    BY DEF ListOf
  <1>2. PICK f \in [0..c -> Nat] : SumOfChars(s) = f[c]
    BY <1>1, SumIs
  <1> QED BY <1>1, <1>2

(* What Assemble does with one more row. *)
Viewed(memView, row) == IF SumOfChars(memView) >= Budget THEN memView ELSE Append(memView, row)

ViewUpTo(f, memRows, k) == IF k = 0 THEN <<>> ELSE Viewed(f[k - 1], memRows[k])

(* A memView is what comes first, up to the one with which the budget is used up. *)
Fits1(memView, memRows, k) ==
    \E m \in 0..k :
       /\ memView = Pre(memRows, m)
       /\ m > 0 => SumOfChars(Pre(memRows, m - 1)) < Budget
       /\ m < k => SumOfChars(Pre(memRows, m)) >= Budget

LEMMA AssembleIs ==
    ASSUME NEW n, TouchedOnce(n), DOMAIN memories = 1..n
    PROVE  ContextsKeepTheBudget
  <1> SUFFICES ASSUME NEW owner \in Owners
               PROVE  /\ Assemble(owner) # <<>> => SumOfChars(Front(Assemble(owner))) < Budget
                      /\ IsPrefix(Assemble(owner), Latest(Active(owner)))
    BY DEF ContextsKeepTheBudget
  <1> DEFINE memRows == Latest(Active(owner))
  <1>1. n \in Nat /\ Budget \in Nat
    BY MemoryAssumption DEF TouchedOnce
  <1>2. PICK c \in Nat : ListOf(memRows, c, 1..n)
    <2>1. Active(owner) \in SUBSET (1..n)
      BY DEF Active
    <2>2. ListsLatest(memRows, Active(owner), n)
      BY <2>1, LatestOnes
    <2>3. PICK c \in Nat : memRows \in [1..c -> Active(owner)] /\ Len(memRows) = c
      BY <2>2 DEF ListsLatest
    <2> HIDE DEF memRows
    <2>4. memRows \in [1..c -> 1..n]
      BY <2>1, <2>3
    <2> QED BY <2>3, <2>4 DEF ListOf
  <1> DEFINE V == Seq(1..n)
             step == [k \in 1..c |-> [v \in V |-> Viewed(v, memRows[k])]]
             F == CHOOSE View : View = [k \in 0..Len(memRows) |-> ViewUpTo(View, memRows, k)]
  <1>3. Assemble(owner) = F[Len(memRows)] /\ Len(memRows) = c
    BY <1>2 DEF Assemble, ViewUpTo, Viewed, ListOf
  <1> HIDE DEF memRows
  <1>4. memRows \in [1..c -> 1..n]
    BY <1>2 DEF ListOf
  <1>5. step \in [1..c -> [V -> V]] /\ <<>> \in V
    <2>1. ASSUME NEW k \in 1..c, NEW v \in V PROVE Viewed(v, memRows[k]) \in V
      <3>1. memRows[k] \in 1..n /\ v \in Seq(1..n)
        BY <1>4
      <3>2. Append(v, memRows[k]) \in Seq(1..n)
        BY <3>1, AppendProperties
      <3> QED BY <3>1, <3>2 DEF Viewed
    <2> HIDE DEF V
    <2>2. step \in [1..c -> [V -> V]]
      BY <2>1
    <2> QED BY <2>2 DEF V
  <1>6. PICK f : Iterated(f, c, V, <<>>, step)
    <2> HIDE DEF step, V
    <2> QED BY <1>2, <1>5, Iterates
  <1>7. f = [k \in 0..c |-> ViewUpTo(f, memRows, k)]
    <2> HIDE DEF V
    <2>1. f \in [0..c -> V] /\ f[0] = <<>> /\ \A k \in 1..c : f[k] = step[k][f[k - 1]]
      BY <1>6 DEF Iterated
    <2>2. ASSUME NEW k \in 0..c PROVE f[k] = ViewUpTo(f, memRows, k)
      <3>1. CASE k = 0
        BY <2>1, <3>1 DEF ViewUpTo
      <3>2. CASE k # 0
        <4>1. k \in 1..c /\ k - 1 \in 0..c
          BY <3>2
        <4>2. f[k - 1] \in V
          BY <2>1, <4>1
        <4> QED BY <2>1, <4>1, <4>2 DEF ViewUpTo
      <3> QED BY <3>1, <3>2
    <2> HIDE DEF step
    <2> QED BY <2>1, <2>2
  <1>8. F = [k \in 0..c |-> ViewUpTo(F, memRows, k)]
    BY <1>3, <1>7, Zenon
  <1> HIDE DEF F
  <1>9. F[0] = <<>> /\ \A k \in 1..c : F[k] = Viewed(F[k - 1], memRows[k])
    BY <1>8 DEF ViewUpTo
  <1> DEFINE Good == {k \in 0..c : Fits1(F[k], memRows, k)}
  <1>10. 0 \in Good
    <2>1. Pre(memRows, 0) = <<>>
      BY DEF Pre
    <2>2. 0 \in 0..0 /\ 0 \in 0..c
      OBVIOUS
    <2> QED BY <1>9, <2>1, <2>2 DEF Fits1
  <1>11. ASSUME NEW k \in 0..c, k \in Good, k < c
         PROVE  k + 1 \in Good
    <2>1. PICK m \in 0..k :
             /\ F[k] = Pre(memRows, m)
             /\ m > 0 => SumOfChars(Pre(memRows, m - 1)) < Budget
             /\ m < k => SumOfChars(Pre(memRows, m)) >= Budget
      BY <1>11 DEF Fits1
    <2>2. k + 1 \in 1..c /\ k + 1 - 1 = k /\ m \in 0..c /\ m \in Nat
      BY <1>11
    <2>3. F[k + 1] = Viewed(Pre(memRows, m), memRows[k + 1])
      BY <1>9, <2>1, <2>2
    <2>4. SumOfChars(Pre(memRows, m)) \in Nat
      <3>1. ListOf(Pre(memRows, m), m, 1..n)
        BY <1>2, <2>2, PreIs
      <3> QED BY <1>1, <3>1, SumIsNat
    <2>5. CASE SumOfChars(Pre(memRows, m)) >= Budget
      <3>1. F[k + 1] = Pre(memRows, m) /\ m \in 0..(k + 1)
        BY <2>3, <2>5 DEF Viewed
      <3> QED BY <2>1, <2>2, <2>5, <3>1 DEF Fits1
    <2>6. CASE ~(SumOfChars(Pre(memRows, m)) >= Budget)
      <3>1. m = k /\ SumOfChars(Pre(memRows, k)) < Budget
        BY <1>1, <2>1, <2>4, <2>6
      <3>2. F[k + 1] = Append(Pre(memRows, k), memRows[k + 1])
        BY <2>3, <2>6, <3>1 DEF Viewed
      <3>3. F[k + 1] = Pre(memRows, k + 1)
        BY <1>2, <1>11, <2>2, <3>1, <3>2, PreIs
      <3>4. k + 1 \in 0..(k + 1) /\ k + 1 - 1 = k
        OBVIOUS
      <3> QED BY <2>2, <3>1, <3>3, <3>4 DEF Fits1
    <2> QED BY <2>5, <2>6
  <1>12. c \in Good
    <2> HIDE DEF Good
    <2>1. 0..c \subseteq Good
      BY <1>10, <1>11, UpTo
    <2> QED BY <2>1
  <1>13. PICK m \in 0..c :
            /\ Assemble(owner) = Pre(memRows, m)
            /\ m > 0 => SumOfChars(Pre(memRows, m - 1)) < Budget
    BY <1>3, <1>12 DEF Fits1
  <1>14. /\ SubSeq(memRows, 1, m) = Pre(memRows, m) /\ ListOf(Pre(memRows, m), m, 1..n)
         /\ \A k \in 0..m : Pre(Pre(memRows, m), k) = Pre(memRows, k)
    BY <1>2, PreIs
  <1>15. Len(Pre(memRows, m)) = m /\ m \in Nat
    BY <1>14 DEF ListOf
  <1>16. \A k \in 0..m : SubSeq(Pre(memRows, m), 1, k) = Pre(memRows, k)
    BY <1>14, PreIs
  <1>17. IsPrefix(Assemble(owner), memRows)
    <2>1. m \in 0..m
      BY <1>15
    <2> QED BY <1>3, <1>13, <1>14, <1>15, <1>16, <2>1 DEF IsPrefix
  <1>18. ASSUME Assemble(owner) # <<>>
         PROVE  SumOfChars(Front(Assemble(owner))) < Budget
    <2>1. m # 0
      BY <1>13, <1>18 DEF Pre
    <2>2. m - 1 \in 0..m /\ m > 0
      BY <1>15, <2>1
    <2>3. Front(Assemble(owner)) = Pre(memRows, m - 1)
      BY <1>13, <1>15, <1>16, <2>2 DEF Front
    <2> QED BY <1>13, <2>2, <2>3
  <1> QED BY <1>17, <1>18 DEF memRows

(* The places from which a segment and what follows it match. *)
Places(seg, last, next, value) ==
    IF seg = "**" THEN {j \in 1..Len(value) + 1 :
                          last \/ \E i \in j..Len(value) + 1 : i \in next}
    ELSE {j \in 1..Len(value) : seg \in {"*", value[j]} /\ j + 1 \in next}

PlacesUpTo(f, pattern, value, k) ==
    IF k = 0 THEN {Len(value) + 1}
    ELSE Places(pattern[Len(pattern) + 1 - k], k = 1, f[k - 1], value)

MatchedBy(F, p, v) ==
    /\ F[0] = {Len(v) + 1}
    /\ \A k \in 1..Len(p) : F[k] = Places(p[Len(p) + 1 - k], k = 1, F[k - 1], v)
    /\ Matches(p, v) <=> (p \in {<<"*">>, <<"**">>} \/ 1 \in F[Len(p)])

LEMMA MatchesIs ==
    ASSUME NEW p, NEW v, Len(p) \in Nat, Len(v) \in Nat
    PROVE  \E F : MatchedBy(F, p, v)
  <1> DEFINE n == Len(p)
             V == SUBSET (1..Len(v) + 1)
             base == {Len(v) + 1}
             step == [k \in 1..n |-> [s \in V |-> Places(p[n + 1 - k], k = 1, s, v)]]
             F == CHOOSE From : From = [k \in 0..Len(p) |-> PlacesUpTo(From, p, v, k)]
  <1>1. Matches(p, v) <=> (p \in {<<"*">>, <<"**">>} \/ 1 \in F[Len(p)])
    BY Zenon DEF Matches, PlacesUpTo, Places
  <1>2. base \in V /\ step \in [1..n -> [V -> V]]
    <2>1. ASSUME NEW k \in 1..n, NEW s \in V PROVE Places(p[n + 1 - k], k = 1, s, v) \in V
      BY DEF Places
    <2>2. base \in V
      OBVIOUS
    <2> HIDE DEF V
    <2>3. step \in [1..n -> [V -> V]]
      BY <2>1
    <2> QED BY <2>2, <2>3
  <1>3. PICK f : Iterated(f, n, V, base, step)
    <2> HIDE DEF step, V, base
    <2> QED BY <1>2, Iterates
  <1>4. f = [k \in 0..n |-> PlacesUpTo(f, p, v, k)]
    <2> HIDE DEF V
    <2>1. f \in [0..n -> V] /\ f[0] = base /\ \A k \in 1..n : f[k] = step[k][f[k - 1]]
      BY <1>3 DEF Iterated
    <2>2. ASSUME NEW k \in 0..n PROVE f[k] = PlacesUpTo(f, p, v, k)
      <3>1. CASE k = 0
        BY <2>1, <3>1 DEF PlacesUpTo
      <3>2. CASE k # 0
        <4>1. k \in 1..n /\ k - 1 \in 0..n
          BY <3>2
        <4>2. f[k - 1] \in V
          BY <2>1, <4>1
        <4>3. f[k] = Places(p[n + 1 - k], k = 1, f[k - 1], v)
          BY <2>1, <4>1, <4>2
        <4> QED BY <3>2, <4>3 DEF PlacesUpTo
      <3> QED BY <3>1, <3>2
    <2> HIDE DEF step
    <2> QED BY <2>1, <2>2
  <1>5. F = [k \in 0..n |-> PlacesUpTo(F, p, v, k)]
    BY <1>4, Zenon
  <1> HIDE DEF F
  <1>6. F[0] = {Len(v) + 1} /\ \A k \in 1..n : F[k] = Places(p[n + 1 - k], k = 1, F[k - 1], v)
    <2>1. \A k \in 0..n : F[k] = PlacesUpTo(F, p, v, k)
      BY <1>5
    <2> QED BY <2>1 DEF PlacesUpTo
  <1> QED BY <1>1, <1>6 DEF MatchedBy

(* A pattern of one name and what follows. *)
LEMMA FirstMatches ==
    ASSUME NEW s \in {"user", "agents", "interaction", "work", "conversation", "tmp"}, NEW v,
           Len(v) \in Nat, Matches(<<s, "**">>, v)
    PROVE  v[1] = s
  <1> DEFINE p == <<s, "**">>
  <1>1. Len(p) = 2 /\ p[1] = s /\ p[2] = "**" /\ p \notin {<<"*">>, <<"**">>}
    <2>1. Len(<<"*">>) = 1 /\ Len(<<"**">>) = 1
      OBVIOUS
    <2>2. Len(p) = 2 /\ p[1] = s /\ p[2] = "**"
      OBVIOUS
    <2> HIDE DEF p
    <2> QED BY <2>1, <2>2
  <1>a. Matches(p, v)
    OBVIOUS
  <1> HIDE DEF p
  <1>b. PICK F : MatchedBy(F, p, v)
    <2>1. Len(p) \in Nat
      BY <1>1
    <2> QED BY <2>1, MatchesIs
  <1>2. /\ F[1] = Places(p[2], TRUE, F[0], v) /\ F[2] = Places(p[1], FALSE, F[1], v)
        /\ Matches(p, v) <=> (p \in {<<"*">>, <<"**">>} \/ 1 \in F[2])
    <2>1. 1 \in 1..2 /\ 2 \in 1..2 /\ 2 + 1 - 1 = 2 /\ 2 + 1 - 2 = 1 /\ 1 - 1 = 0 /\ 2 - 1 = 1
      OBVIOUS
    <2>2. \A k \in 1..2 : F[k] = Places(p[2 + 1 - k], k = 1, F[k - 1], v)
      BY <1>1, <1>b DEF MatchedBy
    <2>3. F[1] = Places(p[2 + 1 - 1], 1 = 1, F[1 - 1], v)
      BY <2>1, <2>2
    <2>4. F[2] = Places(p[2 + 1 - 2], 2 = 1, F[2 - 1], v)
      BY <2>1, <2>2
    <2>5. (1 = 1) = TRUE /\ (2 = 1) = FALSE
      OBVIOUS
    <2> QED BY <1>1, <1>b, <2>1, <2>3, <2>4, <2>5 DEF MatchedBy
  <1>3. 1 \in F[2] /\ F[2] = Places(p[1], FALSE, F[1], v)
    BY <1>1, <1>2, <1>a
  <1> QED BY <1>1, <1>3 DEF Places

LEMMA FirstIsMatched ==
    ASSUME NEW s \in {"user", "agents", "interaction", "work", "conversation", "tmp"}, NEW v,
           Len(v) \in Nat \ {0}, v[1] = s
    PROVE  Matches(<<s, "**">>, v)
  <1> DEFINE p == <<s, "**">>
  <1>1. Len(p) = 2 /\ p[1] = s /\ p[2] = "**"
    OBVIOUS
  <1> HIDE DEF p
  <1>b. PICK F : MatchedBy(F, p, v)
    <2>1. Len(p) \in Nat
      BY <1>1
    <2> QED BY <2>1, MatchesIs
  <1>2. /\ F[1] = Places(p[2], TRUE, F[0], v) /\ F[2] = Places(p[1], FALSE, F[1], v)
        /\ Matches(p, v) <=> (p \in {<<"*">>, <<"**">>} \/ 1 \in F[2])
    <2>1. 1 \in 1..2 /\ 2 \in 1..2 /\ 2 + 1 - 1 = 2 /\ 2 + 1 - 2 = 1 /\ 1 - 1 = 0 /\ 2 - 1 = 1
      OBVIOUS
    <2>2. \A k \in 1..2 : F[k] = Places(p[2 + 1 - k], k = 1, F[k - 1], v)
      BY <1>1, <1>b DEF MatchedBy
    <2>3. F[1] = Places(p[2 + 1 - 1], 1 = 1, F[1 - 1], v)
      BY <2>1, <2>2
    <2>4. F[2] = Places(p[2 + 1 - 2], 2 = 1, F[2 - 1], v)
      BY <2>1, <2>2
    <2>5. (1 = 1) = TRUE /\ (2 = 1) = FALSE
      OBVIOUS
    <2> QED BY <1>1, <1>b, <2>1, <2>3, <2>4, <2>5 DEF MatchedBy
  <1>4. F[1] = 1..Len(v) + 1
    BY <1>1, <1>2 DEF Places
  <1>5. 1 \in F[2]
    BY <1>1, <1>2, <1>4 DEF Places
  <1> QED BY <1>2, <1>5 DEF p

(* How a segment stands for what is between two cuts. *)
Piece(seg, a, b, v) ==
    \/ seg = "**" /\ a <= b
    \/ b = a + 1 /\ seg \in {"*", v[b]}

IsCut(cut, p, v, k, j) ==
    /\ cut \in [0..k -> 0..Len(v)] /\ cut[0] = j - 1 /\ cut[k] = Len(v)
    /\ \A i \in 1..k : Piece(p[Len(p) - k + i], cut[i - 1], cut[i], v)

LEMMA NextPlace ==
    ASSUME NEW seg, NEW v, Len(v) \in Nat, NEW last \in BOOLEAN, NEW next \in SUBSET (1..Len(v) + 1),
           last => next = {Len(v) + 1}, NEW j \in 1..Len(v) + 1
    PROVE  j \in Places(seg, last, next, v) <=> \E i \in next : Piece(seg, j - 1, i - 1, v)
  <1>1. CASE seg = "**"
    <2>1. ASSUME j \in Places(seg, last, next, v) PROVE \E i \in next : Piece(seg, j - 1, i - 1, v)
      <3>1. \E i \in next : j <= i
        BY <1>1, <2>1 DEF Places
      <3> QED BY <1>1, <3>1 DEF Piece
    <2>2. ASSUME NEW i \in next, Piece(seg, j - 1, i - 1, v) PROVE j \in Places(seg, last, next, v)
      <3>1. j <= i /\ i \in j..Len(v) + 1
        BY <1>1, <2>2 DEF Piece
      <3> QED BY <1>1, <3>1 DEF Places
    <2> QED BY <2>1, <2>2
  <1>2. CASE seg # "**"
    <2>1. ASSUME j \in Places(seg, last, next, v) PROVE \E i \in next : Piece(seg, j - 1, i - 1, v)
      <3>1. j + 1 \in next /\ seg \in {"*", v[j]}
        BY <1>2, <2>1 DEF Places
      <3>2. j + 1 - 1 = j - 1 + 1 /\ j + 1 - 1 = j
        OBVIOUS
      <3>3. Piece(seg, j - 1, j + 1 - 1, v)
        BY <3>1, <3>2 DEF Piece
      <3> QED BY <3>1, <3>3
    <2>2. ASSUME NEW i \in next, Piece(seg, j - 1, i - 1, v) PROVE j \in Places(seg, last, next, v)
      <3>1. i - 1 = j - 1 + 1 /\ seg \in {"*", v[i - 1]}
        BY <1>2, <2>2 DEF Piece
      <3>2. i - 1 = j /\ i = j + 1 /\ j \in 1..Len(v)
        BY <3>1
      <3> QED BY <1>2, <3>1, <3>2 DEF Places
    <2> QED BY <2>1, <2>2
  <1> QED BY <1>1, <1>2

LEMMA CutsAre ==
    ASSUME NEW n \in Nat, NEW p, NEW v, Len(p) = n, Len(v) \in Nat, NEW F,
           F[0] = {Len(v) + 1},
           \A k \in 1..n : F[k] = Places(p[n + 1 - k], k = 1, F[k - 1], v)
    PROVE  \A j \in 1..Len(v) + 1 : j \in F[n] <=> \E cut : IsCut(cut, p, v, n, j)
  <1> DEFINE Cut(k, j) == \E cut : IsCut(cut, p, v, k, j)
             Good == {k \in 0..n : /\ F[k] \in SUBSET (1..Len(v) + 1)
                                   /\ \A j \in 1..Len(v) + 1 : j \in F[k] <=> Cut(k, j)}
  <1>1. 0 \in Good
    <2>1. ASSUME NEW j \in 1..Len(v) + 1, j \in F[0] PROVE Cut(0, j)
      <3> DEFINE cut == [i \in 0..0 |-> Len(v)]
      <3>1. IsCut(cut, p, v, 0, j)
        BY <2>1 DEF IsCut
      <3> QED BY <3>1
    <2>2. ASSUME NEW j \in 1..Len(v) + 1, Cut(0, j) PROVE j \in F[0]
      BY <2>2 DEF IsCut
    <2> HIDE DEF Cut
    <2>3. F[0] \in SUBSET (1..Len(v) + 1)
      OBVIOUS
    <2> QED BY <2>1, <2>2, <2>3
  <1>2. ASSUME NEW k \in 0..n, k \in Good, k < n
        PROVE  k + 1 \in Good
    <2> DEFINE seg == p[n - k]
    <2>1. /\ k + 1 \in 1..n /\ k + 1 - 1 = k /\ n + 1 - (k + 1) = n - k
          /\ k \in Nat /\ k + 1 \in 0..n
      BY <1>2
    <2>2. F[k + 1] = Places(seg, k + 1 = 1, F[k], v)
      BY <2>1
    <2>3. F[k] \in SUBSET (1..Len(v) + 1) /\ (k + 1 = 1 => F[k] = {Len(v) + 1})
      BY <1>2, <2>1
    <2>4. F[k + 1] \in SUBSET (1..Len(v) + 1)
      BY <2>2 DEF Places
    <2>5. ASSUME NEW j \in 1..Len(v) + 1
          PROVE  j \in F[k + 1] <=> \E i \in F[k] : Piece(seg, j - 1, i - 1, v)
      <3>1. (k + 1 = 1) \in BOOLEAN
        OBVIOUS
      <3> DEFINE last == k + 1 = 1
      <3>2. last \in BOOLEAN /\ (last => F[k] = {Len(v) + 1}) /\ F[k + 1] = Places(seg, last, F[k], v)
        BY <2>2, <2>3
      <3> HIDE DEF last, seg
      <3>3. j \in Places(seg, last, F[k], v) <=> \E i \in F[k] : Piece(seg, j - 1, i - 1, v)
        <4> DEFINE next == F[k]
        <4>1. next \in SUBSET (1..Len(v) + 1) /\ (last => next = {Len(v) + 1})
          BY <2>3, <3>2
        <4> HIDE DEF next
        <4>2. j \in Places(seg, last, next, v) <=> \E i \in next : Piece(seg, j - 1, i - 1, v)
          BY <3>2, <4>1, NextPlace
        <4> QED BY <4>2 DEF next
      <3> QED BY <3>2, <3>3
    <2>6. ASSUME NEW j \in 1..Len(v) + 1, j \in F[k + 1]
          PROVE  Cut(k + 1, j)
      <3>1. PICK i \in F[k] : Piece(seg, j - 1, i - 1, v)
        BY <2>5, <2>6
      <3>2. PICK old : IsCut(old, p, v, k, i)
        BY <1>2, <2>3, <3>1
      <3> DEFINE cut == [l \in 0..(k + 1) |-> IF l = 0 THEN j - 1 ELSE old[l - 1]]
      <3>3. /\ old \in [0..k -> 0..Len(v)] /\ old[0] = i - 1 /\ old[k] = Len(v)
            /\ \A l \in 1..k : Piece(p[n - k + l], old[l - 1], old[l], v)
        BY <3>2 DEF IsCut
      <3>4. cut[0] = j - 1 /\ \A l \in 1..(k + 1) : cut[l] = old[l - 1]
        BY <2>1
      <3>5. cut \in [0..(k + 1) -> 0..Len(v)]
        <4>1. \A l \in 0..(k + 1) : l # 0 => l - 1 \in 0..k
          BY <2>1
        <4>2. j - 1 \in 0..Len(v)
          OBVIOUS
        <4>3. \A l \in 0..(k + 1) : (IF l = 0 THEN j - 1 ELSE old[l - 1]) \in 0..Len(v)
          BY <3>3, <4>1, <4>2
        <4> QED BY <4>3
      <3> HIDE DEF cut
      <3>6. cut[k + 1] = Len(v)
        BY <2>1, <3>3, <3>4
      <3>7. ASSUME NEW l \in 1..(k + 1)
            PROVE  Piece(p[n - (k + 1) + l], cut[l - 1], cut[l], v)
        <4>1. CASE l = 1
          <5>1. n - (k + 1) + l = n - k /\ l - 1 = 0 /\ l \in 1..(k + 1)
            BY <4>1, <2>1
          <5>2. cut[l] = i - 1
            BY <3>3, <3>4, <5>1
          <5> QED BY <3>1, <3>4, <5>1, <5>2
        <4>2. CASE l # 1
          <5>1. /\ n - (k + 1) + l = n - k + (l - 1) /\ l - 1 \in 1..k /\ l - 1 \in 1..(k + 1)
            BY <4>2, <2>1
          <5>2. cut[l] = old[l - 1] /\ cut[l - 1] = old[l - 1 - 1]
            BY <3>4, <5>1
          <5> QED BY <3>3, <5>1, <5>2
        <4> QED BY <4>1, <4>2
      <3> QED BY <3>4, <3>5, <3>6, <3>7 DEF IsCut
    <2>7. ASSUME NEW j \in 1..Len(v) + 1, Cut(k + 1, j)
          PROVE  j \in F[k + 1]
      <3>1. PICK cut : IsCut(cut, p, v, k + 1, j)
        BY <2>7
      <3>2. /\ cut \in [0..(k + 1) -> 0..Len(v)] /\ cut[0] = j - 1 /\ cut[k + 1] = Len(v)
            /\ \A l \in 1..(k + 1) : Piece(p[n - (k + 1) + l], cut[l - 1], cut[l], v)
        BY <3>1 DEF IsCut
      <3> DEFINE rest == [l \in 0..k |-> cut[l + 1]]
      <3>3. \A l \in 0..k : l + 1 \in 0..(k + 1) /\ rest[l] = cut[l + 1]
        BY <2>1
      <3>4. rest \in [0..k -> 0..Len(v)] /\ rest[k] = Len(v)
        BY <2>1, <3>2, <3>3
      <3> HIDE DEF rest
      <3>5. ASSUME NEW l \in 1..k
            PROVE  Piece(p[n - k + l], rest[l - 1], rest[l], v)
        <4>1. PICK m : m = l + 1
          OBVIOUS
        <4>2. /\ n - (k + 1) + m = n - k + l /\ m \in 1..(k + 1) /\ m - 1 = l
              /\ l \in 0..k /\ l - 1 \in 0..k /\ l - 1 + 1 = l
          BY <4>1, <2>1
        <4>3. Piece(p[n - (k + 1) + m], cut[m - 1], cut[m], v)
          BY <3>2, <4>2
        <4>4. rest[l] = cut[m]
          BY <3>3, <4>1, <4>2
        <4>5. rest[l - 1] = cut[m - 1]
          <5>1. PICK x : x = l - 1
            OBVIOUS
          <5>2. x \in 0..k /\ x + 1 = m - 1
            BY <4>2, <5>1
          <5>3. rest[x] = cut[x + 1]
            BY <3>3, <5>2
          <5> QED BY <5>1, <5>2, <5>3
        <4> QED BY <4>2, <4>3, <4>4, <4>5
      <3> DEFINE i == cut[1] + 1
      <3>6. cut[1] \in 0..Len(v) /\ i \in 1..Len(v) + 1 /\ i - 1 = cut[1]
        <4>1. 1 \in 0..(k + 1)
          BY <2>1
        <4> QED BY <3>2, <4>1
      <3>7. rest[0] = i - 1
        BY <2>1, <3>3, <3>6
      <3> HIDE DEF i
      <3>8. IsCut(rest, p, v, k, i)
        BY <3>4, <3>5, <3>7 DEF IsCut
      <3>9. i \in F[k]
        BY <1>2, <3>6, <3>8
      <3>10. Piece(seg, j - 1, i - 1, v)
        <4>1. 1 \in 1..(k + 1) /\ n - (k + 1) + 1 = n - k /\ 1 - 1 = 0
          BY <2>1
        <4> QED BY <3>2, <3>6, <4>1
      <3> QED BY <2>5, <3>9, <3>10
    <2> HIDE DEF Cut
    <2> QED BY <2>1, <2>4, <2>6, <2>7
  <1>3. n \in Good
    <2> HIDE DEF Good
    <2>1. 0..n \subseteq Good
      BY <1>1, <1>2, UpTo
    <2> QED BY <2>1
  <1> QED BY <1>3

LEMMA PiecesMatch ==
    ASSUME Len(memories) = 1 => memories[1].ns \in Namespaces
    PROVE  PatternsMatchPieces
  <1> DEFINE Names == {"user", "a", "*", "**"}
  <1> SUFFICES ASSUME NEW ns \in Namespaces, NEW p \in SeqOf(Names, 3) \ {<<>>, <<"*">>}
               PROVE  Matches(p, ns) <=>
                        \E cut \in [0..Len(p) -> 0..Len(ns)] :
                           /\ cut[0] = 0 /\ cut[Len(p)] = Len(ns)
                           /\ \A i \in DOMAIN p :
                                 \/ p[i] = "**" /\ cut[i - 1] <= cut[i]
                                 \/ cut[i] = cut[i - 1] + 1 /\ p[i] \in {"*", ns[cut[i]]}
    BY DEF PatternsMatchPieces
  <1>1. Len(ns) \in Nat
    BY DEF Namespaces
  <1>2. PICK n \in 0..3 : p \in [1..n -> Names]
    BY DEF SeqOf
  <1> HIDE DEF Names
  <1>3. n \in Nat /\ p \in Seq(Names) /\ DOMAIN p = 1..n
    BY <1>2
  <1>4. Len(p) = n
    BY <1>3, LenProperties
  <1>a. PICK F : MatchedBy(F, p, ns)
    BY <1>1, <1>3, <1>4, MatchesIs
  <1>5. /\ F[0] = {Len(ns) + 1}
        /\ \A k \in 1..n : F[k] = Places(p[n + 1 - k], k = 1, F[k - 1], ns)
        /\ Matches(p, ns) <=> (p \in {<<"*">>, <<"**">>} \/ 1 \in F[n])
    BY <1>4, <1>a DEF MatchedBy
  <1>6. 1 \in F[n] <=> \E cut : IsCut(cut, p, ns, n, 1)
    <2>1. \A j \in 1..Len(ns) + 1 : j \in F[n] <=> \E cut : IsCut(cut, p, ns, n, j)
      BY <1>1, <1>3, <1>4, <1>5, CutsAre
    <2> QED BY <1>1, <2>1
  <1>7. (\E cut : IsCut(cut, p, ns, n, 1)) <=>
           \E cut \in [0..n -> 0..Len(ns)] :
              /\ cut[0] = 0 /\ cut[n] = Len(ns)
              /\ \A i \in 1..n : Piece(p[i], cut[i - 1], cut[i], ns)
    <2>1. \A i \in 1..n : n - n + i = i
      BY <1>3
    <2>2. 1 - 1 = 0
      OBVIOUS
    <2> QED BY <1>4, <2>1, <2>2 DEF IsCut
  <1>8. ASSUME p = <<"**">> PROVE \E cut : IsCut(cut, p, ns, n, 1)
    <2>1. n = 1 /\ p[1] = "**"
      BY <1>4, <1>8
    <2> DEFINE cut == [i \in 0..1 |-> IF i = 0 THEN 0 ELSE Len(ns)]
    <2>2. cut \in [0..1 -> 0..Len(ns)] /\ cut[0] = 0 /\ cut[1] = Len(ns)
      BY <1>1
    <2> HIDE DEF cut
    <2>3. Piece(p[1], cut[0], cut[1], ns)
      BY <1>1, <2>1, <2>2 DEF Piece
    <2>4. \A i \in 1..1 : i = 1 /\ i - 1 = 0 /\ 1 - 1 + i = 1
      OBVIOUS
    <2> QED BY <1>4, <2>1, <2>2, <2>3, <2>4 DEF IsCut
  <1>9. Matches(p, ns) <=> \E cut : IsCut(cut, p, ns, n, 1)
    <2>1. p # <<"*">>
      OBVIOUS
    <2> QED BY <1>5, <1>6, <1>8, <2>1
  <1> QED BY <1>3, <1>4, <1>7, <1>9 DEF Piece

LEMMA Grounded ==
    ASSUME \A i \in DOMAIN memories : memories[i].ns \in Namespaces /\ MayRemember(memories[i])
    PROVE  LongTermIsGrounded
  <1> SUFFICES ASSUME NEW i \in DOMAIN memories
               PROVE  /\ memories[i].ns[1] \notin {"conversation", "tmp"}
                      /\ memories[i].stability = "long_term" =>
                            /\ memories[i].sourced
                            /\ memories[i].ns[1] \in {"user", "agents", "interaction", "work"}
    BY DEF LongTermIsGrounded
  <1> DEFINE ns == memories[i].ns
  <1>1. Len(ns) \in Nat \ {0} /\ MayRemember(memories[i])
    BY DEF Namespaces
  <1>2. ns[1] \notin {"conversation", "tmp"}
    <2>1. ~IsForbidden(ns)
      BY <1>1 DEF MayRemember
    <2> HIDE DEF ns
    <2>2. ASSUME NEW s \in {"conversation", "tmp"}, ns[1] = s PROVE FALSE
      <3>1. Matches(<<s, "**">>, ns)
        BY <1>1, <2>2, FirstIsMatched
      <3> QED BY <2>1, <3>1 DEF IsForbidden, ForbiddenNamespaces
    <2> QED BY <2>2
  <1>3. ASSUME memories[i].stability = "long_term"
        PROVE  memories[i].sourced /\ ns[1] \in {"user", "agents", "interaction", "work"}
    <2>1. memories[i].sourced /\ IsTruthNamespace(ns)
      BY <1>1, <1>3 DEF MayRemember
    <2> HIDE DEF ns
    <2>2. PICK s \in {"user", "agents", "interaction", "work"} : Matches(<<s, "**">>, ns)
      BY <2>1 DEF IsTruthNamespace, TruthNamespaces
    <2> QED BY <1>1, <2>1, <2>2, FirstMatches
  <1> QED BY <1>2, <1>3

(* What the receipts of a memory say of its status while its review runs. *)
LastOf(i) == IF reviews[i] = <<>> THEN "active" ELSE Last(reviews[i]).new

IsChain(r) == \A k \in DOMAIN r : r[k].old = IF k = 1 THEN "active" ELSE r[k - 1].new

Accounted(i) ==
    /\ IsChain(reviews[i])
    /\ \A w, x \in Reviewing(i) : w = x
    /\ Reviewing(i) = {} => memories[i].status = LastOf(i)
    /\ \A w \in Reviewing(i) :
          /\ memJobs[w].old = LastOf(i)
          /\ memories[i].status = IF memJobs[w].at = "read" THEN memJobs[w].old
                                  ELSE memJobs[w].new

Receipts == Seq([old : MemoryStatuses, new : MemoryStatuses])

MemJobs == [at : {"idle", "inserted", "found", "read", "updated"}, id : 0..MaxMemories,
            old : MemoryStatuses \cup {"none"}, new : MemoryStatuses \cup {"none"},
            found : Seq(MemIds)]

(* A job that reviews is of a memory and has read a status. *)
JobIs(j, n) ==
    /\ j \in MemJobs
    /\ j.at \in {"read", "updated"} => j.id \in 1..n /\ {j.old, j.new} \subseteq MemoryStatuses

MayBe(r) == r \in MemoryRows /\ MayRemember(r)

RowsAre(n) ==
    /\ n \in Nat /\ n <= MaxMemories
    /\ DOMAIN memories = 1..n /\ memories \in Seq(MemoryRows) /\ Len(memories) = n
    /\ \A i \in 1..n : MayBe(memories[i])

ReceiptsAre(n) ==
    /\ reviews = [i \in MemIds |-> reviews[i]]
    /\ \A i \in MemIds : reviews[i] \in Receipts /\ (i \in 1..n \/ reviews[i] = <<>>)

JobsAre(n) ==
    /\ memJobs = [w \in MemWorkers |-> memJobs[w]]
    /\ \A w \in MemWorkers : JobIs(memJobs[w], n)

(* The strengthening.  Receipts account for the statuses only together with  *)
(* the reviews that are running: of a memory there is one at a time unless   *)
(* something was disturbed, and it knows the status its receipts led to.     *)
MemInvAt(n) ==
    /\ RowsAre(n) /\ TouchedOnce(n) /\ ReceiptsAre(n) /\ JobsAre(n)
    /\ memCalls \in 0..MaxMemCalls /\ disturbed \in BOOLEAN
    /\ ~disturbed => \A i \in 1..n : Accounted(i)

MemInv == MemInvAt(Len(memories))

LEMMA MemBounds ==
    /\ RecallLimit \in Nat /\ MaxMemories \in Nat \ {0} /\ MaxMemCalls \in Nat
    /\ MemIds = 1..MaxMemories
  BY MemoryAssumption DEF MemIds

(* A list of some memories is one of memories. *)
LEMMA MemList ==
    ASSUME NEW n \in Nat, n <= MaxMemories, NEW s \in Seq(1..n)
    PROVE  s \in Seq(MemIds)
  <1>1. Len(s) \in Nat /\ DOMAIN s = 1..Len(s) /\ \A k \in 1..Len(s) : s[k] \in 1..n
    BY LenProperties, ElementOfSeq
  <1>2. \A k \in 1..Len(s) : s[k] \in MemIds
    BY <1>1, MemBounds
  <1>3. s = [k \in 1..Len(s) |-> s[k]]
    BY <1>1, LenProperties
  <1>4. s \in [1..Len(s) -> MemIds]
    BY <1>2, <1>3
  <1> QED BY <1>1, <1>4

(* A text query, too, lists memories. *)
LEMMA FtsLists ==
    ASSUME NEW n \in Nat, n <= MaxMemories, DOMAIN memories = 1..n, NEW q \in Questions,
           NEW found \in RecallByFts(q)
    PROVE  found \in Seq(MemIds)
  <1>1. PICK s \in SUBSET (1..n) : found = SetToSeq(s)
    <2>1. Active(q.owner) \subseteq 1..n
      BY DEF Active
    <2> QED BY <2>1 DEF RecallByFts
  <1>2. IsFiniteSet(s)
    <2>1. IsFiniteSet(1..n)
      BY FS_Interval
    <2> QED BY <2>1, FS_Subset
  <1>3. Cardinality(s) \in Nat /\ \E f : f \in Bijection(1..Cardinality(s), s)
    <2>1. ExistsBijection(1..Cardinality(s), s) /\ Cardinality(s) \in Nat
      BY <1>2, FS_CardinalityType
    <2> QED BY <2>1 DEF ExistsBijection
  <1>4. PICK f : f \in Bijection(1..Cardinality(s), s)
    BY <1>3
  <1>5. f \in [1..Cardinality(s) -> s] /\ IsInjective(f)
    BY <1>4 DEF Bijection, Injection, IsInjective
  <1>6. SetToSeq(s) \in [1..Cardinality(s) -> s]
    BY <1>5 DEF SetToSeq
  <1>7. SetToSeq(s) \in [1..Cardinality(s) -> 1..n]
    BY <1>6
  <1>8. SetToSeq(s) \in Seq(1..n)
    BY <1>3, <1>7
  <1> QED BY <1>1, <1>8, MemList

-----------------------------------------------------------------------------
LEMMA MemInvTells == MemInv => MemTypeOK /\ RecallIsSound
  <1> SUFFICES ASSUME MemInv PROVE MemTypeOK /\ RecallIsSound
    OBVIOUS
  <1> DEFINE n == Len(memories)
  <1>1. /\ RowsAre(n) /\ TouchedOnce(n) /\ ReceiptsAre(n) /\ JobsAre(n)
        /\ memCalls \in 0..MaxMemCalls /\ disturbed \in BOOLEAN
        /\ ~disturbed => \A i \in 1..n : Accounted(i)
    BY DEF MemInv, MemInvAt
  <1> HIDE DEF n
  <1>2. n \in Nat /\ n <= MaxMemories /\ DOMAIN memories = 1..n /\ Len(memories) = n
        /\ memories \in Seq(MemoryRows) /\ \A i \in 1..n : MayBe(memories[i])
    BY <1>1 DEF RowsAre
  <1>3. MemTypeOK
    <2>1. ToSet(touched) = DOMAIN memories /\ Len(touched) = Len(memories)
      <3>1. touched \in Seq(1..n) /\ DOMAIN touched = 1..n
        BY <1>1, <1>2 DEF TouchedOnce
      <3>2. Len(touched) = n
        BY <1>2, <3>1, LenProperties
      <3>3. ToSet(touched) = 1..n
        <4>1. ToSet(touched) = {touched[i] : i \in 1..n}
          BY <3>1 DEF ToSet, Range
        <4>2. (\A t \in 1..n : touched[t] \in 1..n) /\ \A i \in 1..n : \E t \in 1..n : touched[t] = i
          BY <1>1 DEF TouchedOnce
        <4> QED BY <4>1, <4>2
      <3> QED BY <1>2, <3>2, <3>3
    <2>2. reviews \in [MemIds -> Receipts]
      <3>1. \A i \in MemIds : reviews[i] \in Receipts
        BY <1>1 DEF ReceiptsAre
      <3>2. reviews = [i \in MemIds |-> reviews[i]]
        BY <1>1 DEF ReceiptsAre
      <3> QED BY <3>1, <3>2
    <2>3. memJobs \in [MemWorkers -> MemJobs]
      <3>1. \A w \in MemWorkers : memJobs[w] \in MemJobs
        BY <1>1 DEF JobsAre, JobIs
      <3> QED BY <1>1, <3>1 DEF JobsAre
    <2> QED BY <1>1, <1>2, <2>1, <2>2, <2>3 DEF MemTypeOK, Receipts, MemJobs
  <1>4. PatternsMatchPieces
    <2>1. \A i \in 1..n : memories[i].ns \in Namespaces
      BY <1>2 DEF MayBe, MemoryRows
    <2>2. Len(memories) = 1 => memories[1].ns \in Namespaces
      BY <1>2, <2>1
    <2> QED BY <2>2, PiecesMatch
  <1>5. LongTermIsGrounded
    <2>1. \A i \in DOMAIN memories : memories[i].ns \in Namespaces /\ MayRemember(memories[i])
      BY <1>2 DEF MayBe, MemoryRows
    <2> QED BY <2>1, Grounded
  <1>6. ReviewsFormAChain
    BY <1>1, <1>2 DEF ReviewsFormAChain, Accounted, IsChain, LastOf
  <1>7. RecallMissesNothing
    BY <1>1, <1>2, RecallIs
  <1>8. ContextsKeepTheBudget
    BY <1>1, <1>2, AssembleIs
  <1> QED BY <1>3, <1>4, <1>5, <1>6, <1>7, <1>8 DEF RecallIsSound

LEMMA MemStarts == MemInit => MemInv
  <1> SUFFICES ASSUME MemInit PROVE MemInv
    OBVIOUS
  <1>1. Len(memories) = 0 /\ DOMAIN memories = 1..0 /\ memories \in Seq(MemoryRows)
    BY DEF MemInit
  <1>2. RowsAre(0)
    BY <1>1, MemBounds DEF RowsAre
  <1>3. TouchedOnce(0)
    BY DEF MemInit, TouchedOnce
  <1>4. ReceiptsAre(0)
    <2>1. <<>> \in Receipts
      BY DEF Receipts
    <2> QED BY <2>1 DEF ReceiptsAre, MemInit
  <1>5. JobsAre(0)
    <2>1. MemIdle \in MemJobs
      <3>1. 0 \in 0..MaxMemories
        BY MemBounds
      <3> QED BY <3>1 DEF MemIdle, MemJobs
    <2>2. JobIs(MemIdle, 0)
      BY <2>1 DEF JobIs, MemIdle
    <2> QED BY <2>2 DEF JobsAre, MemInit
  <1>6. memCalls \in 0..MaxMemCalls /\ disturbed \in BOOLEAN
    <2>1. 0 \in 0..MaxMemCalls
      BY MemBounds
    <2> QED BY <2>1 DEF MemInit
  <1> QED BY <1>1, <1>2, <1>3, <1>4, <1>5, <1>6 DEF MemInv, MemInvAt

(* How one process moves. *)
LEMMA MemJobMoves ==
    ASSUME NEW n, NEW m, n \in Nat, m \in Nat, n <= m, JobsAre(n), NEW w \in MemWorkers, NEW job,
           JobIs(job, m), Goes(w, job)
    PROVE  JobsAre(m)' /\ memJobs'[w] = job /\ \A x \in MemWorkers \ {w} : memJobs'[x] = memJobs[x]
  <1>1. memJobs = [x \in MemWorkers |-> memJobs[x]]
    BY DEF JobsAre
  <1>2. memJobs' = [x \in MemWorkers |-> IF x = w THEN job ELSE memJobs[x]]
    <2>1. memJobs' = [memJobs EXCEPT ![w] = job]
      BY DEF Goes
    <2> QED BY <1>1, <2>1
  <1>3. \A x \in MemWorkers : JobIs(memJobs[x], m)
    BY DEF JobsAre, JobIs
  <1>4. \A x \in MemWorkers : JobIs(memJobs'[x], m)
    BY <1>2, <1>3
  <1>5. memJobs' = [x \in MemWorkers |-> memJobs'[x]]
    BY <1>2
  <1> QED BY <1>2, <1>4, <1>5 DEF JobsAre

(* A job that does not review. *)
Elsewhere(j) == j.at \notin {"read", "updated"}

LEMMA SameReviewers ==
    ASSUME NEW w \in MemWorkers, Elsewhere(memJobs[w]), Elsewhere(memJobs'[w]),
           \A x \in MemWorkers \ {w} : memJobs'[x] = memJobs[x], NEW i
    PROVE  Reviewing(i)' = Reviewing(i) /\ \A x \in Reviewing(i) : memJobs'[x] = memJobs[x]
  BY DEF Reviewing, Elsewhere

(* A step that leaves a memory, its receipts and its reviewers alone. *)
LEMMA StaysAccounted ==
    ASSUME NEW i, Accounted(i), reviews'[i] = reviews[i], memories'[i].status = memories[i].status,
           Reviewing(i)' = Reviewing(i), \A x \in Reviewing(i) : memJobs'[x] = memJobs[x]
    PROVE  Accounted(i)'
  BY DEF Accounted, LastOf, IsChain

(* A process that reviews nothing, before or after. *)
LEMMA QuietKeeps ==
    ASSUME MemInv, NEW w \in MemWorkers, NEW job, Elsewhere(memJobs[w]), Elsewhere(job),
           job \in MemJobs, Goes(w, job), UNCHANGED <<memories, touched, reviews, disturbed>>,
           memCalls' \in 0..MaxMemCalls
    PROVE  MemInv'
  <1>a. PICK n : n = Len(memories)
    OBVIOUS
  <1>1. MemInvAt(n) /\ Len(memories') = n
    BY <1>a DEF MemInv
  <1>2. n \in Nat /\ JobIs(job, n)
    BY <1>1 DEF MemInvAt, RowsAre, JobIs, Elsewhere
  <1>3. JobsAre(n)' /\ memJobs'[w] = job /\ \A x \in MemWorkers \ {w} : memJobs'[x] = memJobs[x]
    <2>1. JobsAre(n) /\ n <= n
      BY <1>1, <1>2 DEF MemInvAt
    <2> QED BY <1>2, <2>1, MemJobMoves
  <1>4. ~disturbed' => \A i \in 1..n : Accounted(i)'
    <2> SUFFICES ASSUME ~disturbed', NEW i \in 1..n PROVE Accounted(i)'
      OBVIOUS
    <2>1. Reviewing(i)' = Reviewing(i) /\ \A x \in Reviewing(i) : memJobs'[x] = memJobs[x]
      BY <1>3, SameReviewers
    <2>2. Accounted(i)
      BY <1>1 DEF MemInvAt
    <2>3. reviews'[i] = reviews[i] /\ memories'[i].status = memories[i].status
      OBVIOUS
    <2> QED BY <2>1, <2>2, <2>3, StaysAccounted
  <1>5. RowsAre(n)' /\ TouchedOnce(n)' /\ ReceiptsAre(n)'
    BY <1>1 DEF MemInvAt, RowsAre, TouchedOnce, ReceiptsAre
  <1>6. disturbed' \in BOOLEAN
    BY <1>1 DEF MemInvAt
  <1>7. MemInvAt(n)'
    BY <1>3, <1>4, <1>5, <1>6 DEF MemInvAt
  <1> QED BY <1>1, <1>7 DEF MemInv

(* The jobs that are taken up. *)
LEMMA JobFinds ==
    ASSUME NEW a, NEW f
    PROVE  [MemIdle EXCEPT !.at = a, !.found = f] =
              [at |-> a, id |-> 0, old |-> "none", new |-> "none", found |-> f]
  <1> DEFINE k == [at |-> a, id |-> 0, old |-> "none", new |-> "none", found |-> <<>>]
  <1>1. [MemIdle EXCEPT !.at = a] = k
    BY DEF MemIdle
  <1>2. [k EXCEPT !.found = f] =
           [at |-> a, id |-> 0, old |-> "none", new |-> "none", found |-> f]
    OBVIOUS
  <1>3. [MemIdle EXCEPT !.at = a, !.found = f] = [[MemIdle EXCEPT !.at = a] EXCEPT !.found = f]
    BY Zenon
  <1> QED BY <1>1, <1>2, <1>3

LEMMA JobIsOf ==
    ASSUME NEW a, NEW i
    PROVE  [MemIdle EXCEPT !.at = a, !.id = i] =
              [at |-> a, id |-> i, old |-> "none", new |-> "none", found |-> <<>>]
  <1> DEFINE k == [at |-> a, id |-> 0, old |-> "none", new |-> "none", found |-> <<>>]
  <1>1. [MemIdle EXCEPT !.at = a] = k
    BY DEF MemIdle
  <1>2. [k EXCEPT !.id = i] = [at |-> a, id |-> i, old |-> "none", new |-> "none", found |-> <<>>]
    OBVIOUS
  <1>3. [MemIdle EXCEPT !.at = a, !.id = i] = [[MemIdle EXCEPT !.at = a] EXCEPT !.id = i]
    BY Zenon
  <1> QED BY <1>1, <1>2, <1>3

ReadsJob(a, i, o, m) == [MemIdle EXCEPT !.at = a, !.id = i, !.old = o, !.new = m]

LEMMA JobReads ==
    ASSUME NEW a, NEW i, NEW o, NEW m
    PROVE  ReadsJob(a, i, o, m) = [at |-> a, id |-> i, old |-> o, new |-> m, found |-> <<>>]
  <1> DEFINE k == [at |-> a, id |-> i, old |-> "none", new |-> "none", found |-> <<>>]
             l == [at |-> a, id |-> i, old |-> o, new |-> "none", found |-> <<>>]
  <1>1. /\ [k EXCEPT !.old = o] = l
        /\ [l EXCEPT !.new = m] = [at |-> a, id |-> i, old |-> o, new |-> m, found |-> <<>>]
    OBVIOUS
  <1>2. ReadsJob(a, i, o, m) =
           [[[MemIdle EXCEPT !.at = a, !.id = i] EXCEPT !.old = o] EXCEPT !.new = m]
    BY Zenon DEF ReadsJob
  <1> QED BY <1>1, <1>2, JobIsOf

(* What has been touched moves to the end. *)
LEMMA TouchKeeps ==
    ASSUME NEW n, TouchedOnce(n), NEW i \in 1..n, Touch(i)
    PROVE  TouchedOnce(n)'
  <1> DEFINE at == CHOOSE t \in DOMAIN touched : touched[t] = i
             rest == RemoveAt(touched, at)
  <1>1. /\ n \in Nat /\ touched \in [1..n -> 1..n] /\ DOMAIN touched = 1..n
        /\ \A t, u \in 1..n : touched[t] = touched[u] => t = u
        /\ \A k \in 1..n : \E t \in 1..n : touched[t] = k
    BY DEF TouchedOnce
  <1>2. at \in 1..n /\ touched[at] = i
    BY <1>1
  <1>3. touched \in Seq(1..n) /\ Len(touched) = n
    <2>1. n \in Nat /\ touched \in [1..n -> 1..n] /\ DOMAIN touched = 1..n
      BY <1>1
    <2>2. touched \in Seq(1..n)
      BY <2>1
    <2> QED BY <2>1, <2>2, LenProperties
  <1>4. touched' = Append(rest, i)
    BY DEF Touch
  <1> HIDE DEF at
  <1>5. /\ rest \in Seq(1..n) /\ Len(rest) = n - 1
        /\ \A k \in 1..(n - 1) : rest[k] = IF k < at THEN touched[k] ELSE touched[k + 1]
    <2>1. touched \in Seq(1..n) /\ at \in 1..Len(touched)
      BY <1>2, <1>3
    <2>2. /\ rest \in Seq(1..n) /\ Len(rest) = Len(touched) - 1
          /\ \A k \in 1..(Len(touched) - 1) :
                rest[k] = IF k < at THEN touched[k] ELSE touched[k + 1]
      BY <2>1, RemovedAt
    <2> HIDE DEF rest
    <2> QED BY <1>3, <2>2
  <1> HIDE DEF rest
  <1>6. /\ touched' \in Seq(1..n) /\ Len(touched') = n
        /\ touched'[n] = i /\ \A k \in 1..(n - 1) : touched'[k] = rest[k]
    <2>1. touched' = Append(rest, i)
      BY <1>4
    <2>2. /\ Append(rest, i) \in Seq(1..n) /\ Len(Append(rest, i)) = Len(rest) + 1
          /\ Append(rest, i)[Len(rest) + 1] = i
          /\ \A k \in 1..Len(rest) : Append(rest, i)[k] = rest[k]
      BY <1>5, AppendProperties
    <2>3. n - 1 + 1 = n
      BY <1>1
    <2> QED BY <1>5, <2>1, <2>2, <2>3
  <1>7. touched' \in [1..n -> 1..n]
    <2>1. DOMAIN touched' = 1..n
      BY <1>6, LenProperties
    <2>2. \A t \in 1..n : touched'[t] \in 1..n
      BY <1>6, ElementOfSeq
    <2>3. touched' = [t \in 1..n |-> touched'[t]]
      BY <1>6, <2>1, LenProperties
    <2> QED BY <2>2, <2>3
  (* Where a place moves to. *)
  <1> DEFINE From(t) == IF t = n THEN at ELSE IF t < at THEN t ELSE t + 1
  <1>8. \A t \in 1..n : From(t) \in 1..n /\ touched'[t] = touched[From(t)]
    <2> SUFFICES ASSUME NEW t \in 1..n PROVE From(t) \in 1..n /\ touched'[t] = touched[From(t)]
      OBVIOUS
    <2>1. CASE t = n
      BY <1>2, <1>6, <2>1
    <2>2. CASE t # n
      <3>1. t \in 1..(n - 1) /\ (t < at => t \in 1..n) /\ t + 1 \in 1..n
        BY <1>1, <2>2
      <3> QED BY <1>5, <1>6, <2>2, <3>1
    <2> QED BY <2>1, <2>2
  <1>9. \A t, u \in 1..n : From(t) = From(u) => t = u
    <2>1. n \in Nat /\ at \in 1..n
      BY <1>1, <1>2
    <2> QED BY <2>1
  <1>10. \A k \in 1..n : \E t \in 1..n : From(t) = k
    <2> SUFFICES ASSUME NEW k \in 1..n PROVE \E t \in 1..n : From(t) = k
      OBVIOUS
    <2>1. CASE k = at
      <3>1. n \in 1..n /\ From(n) = at
        BY <1>1, <1>2
      <3> QED BY <2>1, <3>1
    <2>2. CASE k < at
      <3>1. k # n /\ From(k) = k
        BY <1>1, <1>2, <2>2
      <3> QED BY <3>1
    <2>3. CASE k > at
      <3>1. k - 1 \in 1..n /\ k - 1 # n /\ ~(k - 1 < at) /\ k - 1 + 1 = k
        BY <1>1, <1>2, <2>3
      <3> QED BY <3>1
    <2> QED BY <1>2, <2>1, <2>2, <2>3
  <1> HIDE DEF From
  <1>11. \A t, u \in 1..n : touched'[t] = touched'[u] => t = u
    <2> SUFFICES ASSUME NEW t \in 1..n, NEW u \in 1..n, touched'[t] = touched'[u]
                 PROVE  t = u
      OBVIOUS
    <2>1. touched[From(t)] = touched[From(u)] /\ From(t) \in 1..n /\ From(u) \in 1..n
      BY <1>8
    <2>2. From(t) = From(u)
      BY <1>1, <2>1
    <2> QED BY <1>9, <2>2
  <1>12. ASSUME NEW k \in 1..n PROVE \E t \in 1..n : touched'[t] = k
    <2>1. PICK u \in 1..n : touched[u] = k
      BY <1>1
    <2>2. PICK t \in 1..n : From(t) = u
      BY <1>10
    <2> QED BY <1>8, <2>1, <2>2
  <1>13. n \in Nat
    BY <1>1
  <1> QED BY <1>7, <1>11, <1>12, <1>13 DEF TouchedOnce

LEMMA IdleIs == MemIdle \in MemJobs /\ Elsewhere(MemIdle)
  <1>1. 0 \in 0..MaxMemories
    BY MemBounds
  <1> QED BY <1>1 DEF MemIdle, MemJobs, Elsewhere

LEMMA WriteRememberReceiptKeeps ==
    ASSUME MemInv, NEW w \in MemWorkers, WriteRememberReceipt(w)
    PROVE  MemInv'
  <1>1. Elsewhere(memJobs[w]) /\ Goes(w, MemIdle)
        /\ UNCHANGED <<memories, touched, reviews, memCalls, disturbed>>
    BY DEF WriteRememberReceipt, Elsewhere
  <1>2. memCalls' \in 0..MaxMemCalls
    BY <1>1 DEF MemInv, MemInvAt
  <1> QED BY <1>1, <1>2, IdleIs, QuietKeeps

LEMMA WriteRecallReceiptKeeps ==
    ASSUME MemInv, NEW w \in MemWorkers, WriteRecallReceipt(w)
    PROVE  MemInv'
  <1>1. Elsewhere(memJobs[w]) /\ Goes(w, MemIdle)
        /\ UNCHANGED <<memories, touched, reviews, memCalls, disturbed>>
    BY DEF WriteRecallReceipt, Elsewhere
  <1>2. memCalls' \in 0..MaxMemCalls
    BY <1>1 DEF MemInv, MemInvAt
  <1> QED BY <1>1, <1>2, IdleIs, QuietKeeps

LEMMA CallCounts ==
    ASSUME MemInv, memCalls < MaxMemCalls, memCalls' = memCalls + 1
    PROVE  memCalls' \in 0..MaxMemCalls
  <1>1. memCalls \in 0..MaxMemCalls
    BY DEF MemInv, MemInvAt
  <1> QED BY <1>1, MemBounds

LEMMA RecallKeeps ==
    ASSUME MemInv, NEW w \in MemWorkers, Recall(w)
    PROVE  MemInv'
  <1>1. PICK n : n = Len(memories)
    OBVIOUS
  <1>2. RowsAre(n) /\ TouchedOnce(n)
    BY <1>1 DEF MemInv, MemInvAt
  <1>3. n \in Nat /\ n <= MaxMemories /\ DOMAIN memories = 1..n
    BY <1>2 DEF RowsAre
  <1>4. PICK found \in {RecallByNamespace(q) : q \in Queries}
                          \cup UNION {RecallByFts(q) : q \in Questions} :
           Goes(w, [MemIdle EXCEPT !.at = "found", !.found = found])
    BY DEF Recall
  <1>5. found \in Seq(MemIds)
    <2>1. CASE found \in {RecallByNamespace(q) : q \in Queries}
      <3>1. PICK q \in Queries : found = RecallByNamespace(q)
        BY <2>1
      <3>2. found \in Seq(1..n)
        BY <1>2, <1>3, <3>1, RecallIs
      <3> QED BY <1>3, <3>2, MemList
    <2>2. CASE found \in UNION {RecallByFts(q) : q \in Questions}
      <3>1. PICK q \in Questions : found \in RecallByFts(q)
        BY <2>2
      <3> QED BY <1>3, <3>1, FtsLists
    <2> QED BY <2>1, <2>2
  <1> DEFINE job == [at |-> "found", id |-> 0, old |-> "none", new |-> "none", found |-> found]
  <1>6. [MemIdle EXCEPT !.at = "found", !.found = found] = job
    BY JobFinds
  <1>7. job \in MemJobs /\ Elsewhere(job)
    <2>1. 0 \in 0..MaxMemories
      BY MemBounds
    <2> QED BY <1>5, <2>1 DEF MemJobs, Elsewhere
  <1>8. Goes(w, job)
    BY <1>4, <1>6
  <1> HIDE DEF job
  <1>9. Elsewhere(memJobs[w]) /\ UNCHANGED <<memories, touched, reviews, disturbed>>
    BY DEF Recall, FreeMemWorker, Elsewhere
  <1>10. memCalls' \in 0..MaxMemCalls
    BY CallCounts DEF Recall
  <1> QED BY <1>7, <1>8, <1>9, <1>10, QuietKeeps

LEMMA RememberKeeps ==
    ASSUME MemInv, NEW w \in MemWorkers, Remember(w)
    PROVE  MemInv'
  <1>1. PICK n : n = Len(memories)
    OBVIOUS
  <1>2. MemInvAt(n)
    BY <1>1 DEF MemInv
  <1>3. /\ n \in Nat /\ n < MaxMemories /\ DOMAIN memories = 1..n /\ memories \in Seq(MemoryRows)
        /\ Len(memories) = n /\ \A i \in 1..n : MayBe(memories[i])
    BY <1>1, <1>2 DEF MemInvAt, RowsAre, Remember
  <1>4. PICK r \in MemoryRows : r.status = "active" /\ MayRemember(r) /\ memories' = Append(memories, r)
    BY DEF Remember
  <1>5. /\ memories' \in Seq(MemoryRows) /\ Len(memories') = n + 1 /\ memories'[n + 1] = r
        /\ \A i \in 1..n : memories'[i] = memories[i]
    BY <1>3, <1>4, AppendProperties
  <1>6. DOMAIN memories' = 1..n + 1
    BY <1>5, LenProperties
  <1>7. RowsAre(n + 1)'
    <2>1. ASSUME NEW i \in 1..n + 1 PROVE MayBe(memories'[i])
      <3>1. CASE i = n + 1
        BY <1>4, <1>5, <3>1 DEF MayBe
      <3>2. CASE i # n + 1
        <4>1. i \in 1..n
          BY <1>3, <3>2
        <4> QED BY <1>3, <1>5, <4>1
      <3> QED BY <3>1, <3>2
    <2>2. n + 1 \in Nat /\ n + 1 <= MaxMemories
      BY <1>3, MemBounds
    <2> QED BY <1>5, <1>6, <2>1, <2>2 DEF RowsAre
  <1>8. TouchedOnce(n + 1)'
    <2>1. /\ touched \in [1..n -> 1..n]
          /\ \A t, u \in 1..n : touched[t] = touched[u] => t = u
          /\ \A i \in 1..n : \E t \in 1..n : touched[t] = i
      BY <1>2 DEF MemInvAt, TouchedOnce
    <2>2. touched \in Seq(1..n + 1) /\ Len(touched) = n
      <3>1. touched \in [1..n -> 1..n + 1]
        BY <1>3, <2>1
      <3>2. touched \in Seq(1..n + 1)
        BY <1>3, <3>1
      <3> QED BY <1>3, <2>1, <3>2, LenProperties
    <2>3. touched' = Append(touched, n + 1)
      BY <1>1 DEF Remember
    <2>4. /\ touched' \in Seq(1..n + 1) /\ Len(touched') = n + 1 /\ touched'[n + 1] = n + 1
          /\ \A t \in 1..n : touched'[t] = touched[t]
      BY <1>3, <2>2, <2>3, AppendProperties
    <2>5. touched' \in [1..n + 1 -> 1..n + 1]
      <3>1. DOMAIN touched' = 1..n + 1 /\ touched' = [t \in 1..n + 1 |-> touched'[t]]
        BY <2>4, LenProperties
      <3>2. \A t \in 1..n + 1 : touched'[t] \in 1..n + 1
        BY <2>4, ElementOfSeq
      <3> QED BY <3>1, <3>2
    <2>6. ASSUME NEW t \in 1..n + 1
          PROVE  \/ t \in 1..n /\ touched'[t] \in 1..n
                 \/ t = n + 1 /\ touched'[t] = n + 1
      <3>1. CASE t = n + 1
        BY <2>4, <3>1
      <3>2. CASE t # n + 1
        <4>1. t \in 1..n
          BY <1>3, <3>2
        <4>2. touched[t] \in 1..n
          BY <2>1, <4>1
        <4>3. touched'[t] = touched[t]
          BY <2>4, <4>1
        <4>4. touched'[t] \in 1..n
          BY <4>2, <4>3, Zenon
        <4> QED BY <4>1, <4>4, Zenon
      <3> QED BY <3>1, <3>2
    <2>7. \A t, u \in 1..n + 1 : touched'[t] = touched'[u] => t = u
      <3> SUFFICES ASSUME NEW t \in 1..n + 1, NEW u \in 1..n + 1, touched'[t] = touched'[u]
                   PROVE  t = u
        OBVIOUS
      <3>1. ~(n + 1 \in 1..n)
        BY <1>3
      <3> QED BY <2>1, <2>4, <2>6, <3>1
    <2>8. ASSUME NEW i \in 1..n + 1 PROVE \E t \in 1..n + 1 : touched'[t] = i
      <3>1. CASE i = n + 1
        BY <2>4, <3>1
      <3>2. CASE i # n + 1
        <4>1. i \in 1..n
          BY <1>3, <3>2
        <4>2. PICK t \in 1..n : touched[t] = i
          BY <2>1, <4>1
        <4>3. t \in 1..n + 1
          BY <1>3
        <4> QED BY <2>4, <4>2, <4>3
      <3> QED BY <3>1, <3>2
    <2>9. n + 1 \in Nat
      BY <1>3
    <2> QED BY <2>5, <2>7, <2>8, <2>9 DEF TouchedOnce
  <1>9. ReceiptsAre(n + 1)' /\ reviews' = reviews
    <2>1. reviews' = reviews
      BY DEF Remember
    <2>2. \A i \in 1..n : i \in 1..n + 1
      BY <1>3
    <2> QED BY <1>2, <2>1, <2>2 DEF MemInvAt, ReceiptsAre
  <1> DEFINE job == [at |-> "inserted", id |-> n + 1, old |-> "none", new |-> "none", found |-> <<>>]
  <1>10. Goes(w, job)
    <2>1. [MemIdle EXCEPT !.at = "inserted", !.id = n + 1] = job
      BY JobIsOf
    <2> QED BY <1>1, <2>1 DEF Remember
  <1>11. JobIs(job, n + 1) /\ Elsewhere(job)
    <2>1. n + 1 \in 0..MaxMemories
      BY <1>3, MemBounds
    <2> QED BY <2>1 DEF JobIs, MemJobs, Elsewhere
  <1> HIDE DEF job
  <1>12. JobsAre(n + 1)' /\ memJobs'[w] = job /\ \A x \in MemWorkers \ {w} : memJobs'[x] = memJobs[x]
    <2>1. JobsAre(n) /\ n + 1 \in Nat /\ n <= n + 1
      BY <1>2, <1>3 DEF MemInvAt
    <2> QED BY <1>3, <1>10, <1>11, <2>1, MemJobMoves
  <1>13. Elsewhere(memJobs[w])
    BY DEF Remember, FreeMemWorker, Elsewhere
  <1>14. disturbed' = disturbed /\ disturbed \in BOOLEAN /\ memCalls' \in 0..MaxMemCalls
    BY <1>2 DEF Remember, MemInvAt
  <1>15. ASSUME ~disturbed', NEW i \in 1..n + 1 PROVE Accounted(i)'
    <2>1. Reviewing(i)' = Reviewing(i) /\ \A x \in Reviewing(i) : memJobs'[x] = memJobs[x]
      BY <1>11, <1>12, <1>13, SameReviewers
    <2>2. CASE i \in 1..n
      <3>1. Accounted(i)
        BY <1>2, <1>14, <1>15, <2>2 DEF MemInvAt
      <3>2. reviews'[i] = reviews[i] /\ memories'[i].status = memories[i].status
        BY <1>5, <1>9, <2>2
      <3> QED BY <2>1, <3>1, <3>2, StaysAccounted
    <2>3. CASE i = n + 1
      <3>1. i \in MemIds /\ i \notin 1..n
        BY <1>3, <2>3, MemBounds
      <3>2. reviews'[i] = <<>>
        BY <1>2, <1>9, <3>1 DEF MemInvAt, ReceiptsAre
      <3>3. Reviewing(i) = {}
        <4>1. \A x \in MemWorkers : memJobs[x].at \in {"read", "updated"} => memJobs[x].id \in 1..n
          BY <1>2 DEF MemInvAt, JobsAre, JobIs
        <4> QED BY <3>1, <4>1 DEF Reviewing
      <3>4. memories'[i].status = "active"
        BY <1>4, <1>5, <2>3
      <3>5. Reviewing(i)' = {}
        BY <2>1, <3>3
      <3> QED BY <3>2, <3>4, <3>5 DEF Accounted, IsChain, LastOf
    <2> QED BY <2>2, <2>3, <1>3
  <1>16. MemInvAt(n + 1)'
    BY <1>7, <1>8, <1>9, <1>12, <1>14, <1>15 DEF MemInvAt
  <1> QED BY <1>5, <1>16 DEF MemInv

(* A review begins. *)
LEMMA ReadStatusKeeps ==
    ASSUME MemInv, NEW w \in MemWorkers, ReadStatus(w)
    PROVE  MemInv'
  <1>1. PICK n : n = Len(memories)
    OBVIOUS
  <1>2. MemInvAt(n)
    BY <1>1 DEF MemInv
  <1>3. n \in Nat /\ n <= MaxMemories /\ DOMAIN memories = 1..n /\ \A i \in 1..n : MayBe(memories[i])
    BY <1>2 DEF MemInvAt, RowsAre
  <1>4. PICK i \in 1..n, verb \in Verbs :
           /\ Goes(w, [MemIdle EXCEPT !.at = "read", !.id = i, !.old = memories[i].status,
                                      !.new = NewStatus(verb)])
           /\ disturbed' = (disturbed \/ Reviewing(i) # {})
    BY <1>3 DEF ReadStatus
  <1>5. PICK job : job = [at |-> "read", id |-> i, old |-> memories[i].status,
                          new |-> NewStatus(verb), found |-> <<>>]
    OBVIOUS
  <1>6. Goes(w, job)
    <2>1. PICK o, m : o = memories[i].status /\ m = NewStatus(verb)
      OBVIOUS
    <2>2. job = [at |-> "read", id |-> i, old |-> o, new |-> m, found |-> <<>>]
      BY <1>5, <2>1
    <2>3. ReadsJob("read", i, o, m) = job
      BY <2>2, JobReads
    <2>4. Goes(w, ReadsJob("read", i, o, m))
      BY <1>4, <2>1, Zenon DEF ReadsJob
    <2> QED BY <2>2, <2>3, <2>4
  <1>7. memories[i].status \in MemoryStatuses /\ NewStatus(verb) \in MemoryStatuses
    BY <1>3 DEF MayBe, MemoryRows, MemoryStatuses, NewStatus
  <1>8. JobIs(job, n)
    <2>1. i \in 0..MaxMemories
      BY <1>3, MemBounds
    <2> QED BY <1>5, <1>7, <2>1 DEF JobIs, MemJobs
  <1>9. JobsAre(n)' /\ memJobs'[w] = job /\ \A x \in MemWorkers \ {w} : memJobs'[x] = memJobs[x]
    <2>1. JobsAre(n) /\ n <= n
      BY <1>2, <1>3 DEF MemInvAt
    <2> QED BY <1>3, <1>6, <1>8, <2>1, MemJobMoves
  <1>10. UNCHANGED <<memories, touched, reviews>> /\ Elsewhere(memJobs[w])
    BY DEF ReadStatus, FreeMemWorker, Elsewhere
  <1>11. RowsAre(n)' /\ TouchedOnce(n)' /\ ReceiptsAre(n)'
    BY <1>2, <1>10 DEF MemInvAt, RowsAre, TouchedOnce, ReceiptsAre
  <1>12. memCalls' \in 0..MaxMemCalls /\ disturbed' \in BOOLEAN
    <2>1. memCalls' \in 0..MaxMemCalls
      BY CallCounts DEF ReadStatus
    <2> QED BY <1>2, <1>4, <2>1 DEF MemInvAt
  <1>13. ASSUME ~disturbed', NEW k \in 1..n PROVE Accounted(k)'
    <2>1. Accounted(k) /\ Reviewing(i) = {}
      BY <1>2, <1>4, <1>13 DEF MemInvAt
    <2>2. \A l : Reviewing(l)' = IF l = i THEN Reviewing(i) \cup {w} ELSE Reviewing(l)
      <3>1. w \notin Reviewing(k) /\ \A l : w \notin Reviewing(l)
        BY <1>10 DEF Reviewing, Elsewhere
      <3>2. job.at = "read" /\ job.id = i
        BY <1>5
      <3> QED BY <1>9, <3>1, <3>2 DEF Reviewing
    <2>3. CASE k = i
      <3>1. Reviewing(k)' = {w}
        BY <2>1, <2>2, <2>3
      <3>2. memories[k].status = LastOf(k) /\ IsChain(reviews[k])
        BY <2>1, <2>3 DEF Accounted
      <3>3. memJobs'[w].at = "read" /\ memJobs'[w].old = memories[k].status
        BY <1>5, <1>9, <2>3
      <3> QED BY <1>10, <3>1, <3>2, <3>3 DEF Accounted, LastOf, IsChain
    <2>4. CASE k # i
      <3>1. Reviewing(k)' = Reviewing(k) /\ \A x \in Reviewing(k) : memJobs'[x] = memJobs[x]
        <4>1. \A x \in Reviewing(k) : x \in MemWorkers \ {w}
          BY <1>10 DEF Reviewing, Elsewhere
        <4> QED BY <1>9, <2>2, <2>4, <4>1
      <3>2. reviews'[k] = reviews[k] /\ memories'[k].status = memories[k].status
        BY <1>10
      <3> QED BY <2>1, <3>1, <3>2, StaysAccounted
    <2> QED BY <2>3, <2>4
  <1>14. MemInvAt(n)' /\ Len(memories') = n
    BY <1>1, <1>9, <1>10, <1>11, <1>12, <1>13 DEF MemInvAt
  <1> QED BY <1>14 DEF MemInv

(* What a job that reviews knows. *)
LEMMA ReviewIs ==
    ASSUME NEW n, MemInvAt(n), NEW w \in MemWorkers, ~Elsewhere(memJobs[w])
    PROVE  /\ n \in Nat /\ n <= MaxMemories /\ memJobs[w] \in MemJobs /\ memJobs[w].id \in 1..n
           /\ {memJobs[w].old, memJobs[w].new} \subseteq MemoryStatuses
           /\ w \in Reviewing(memJobs[w].id)
           /\ \A i : i # memJobs[w].id => w \notin Reviewing(i)
           /\ ~disturbed => Reviewing(memJobs[w].id) = {w} /\ Accounted(memJobs[w].id)
  <1>1. JobIs(memJobs[w], n) /\ memJobs[w].at \in {"read", "updated"}
    BY DEF MemInvAt, JobsAre, Elsewhere
  <1>2. /\ memJobs[w] \in MemJobs /\ memJobs[w].id \in 1..n
        /\ {memJobs[w].old, memJobs[w].new} \subseteq MemoryStatuses
    BY <1>1 DEF JobIs
  <1>3. w \in Reviewing(memJobs[w].id) /\ \A i : i # memJobs[w].id => w \notin Reviewing(i)
    BY <1>1 DEF Reviewing
  <1>4. ~disturbed => Reviewing(memJobs[w].id) = {w} /\ Accounted(memJobs[w].id)
    BY <1>2, <1>3 DEF MemInvAt, Accounted
  <1> QED BY <1>2, <1>3, <1>4 DEF MemInvAt, RowsAre

(* The reviewers of the others stay while one process goes on with its review. *)
LEMMA OthersReview ==
    ASSUME NEW w \in MemWorkers, NEW k, w \notin Reviewing(k), w \notin Reviewing(k)',
           \A x \in MemWorkers \ {w} : memJobs'[x] = memJobs[x]
    PROVE  Reviewing(k)' = Reviewing(k) /\ \A x \in Reviewing(k) : memJobs'[x] = memJobs[x]
  BY DEF Reviewing

LEMMA StatusWritten ==
    ASSUME NEW n, RowsAre(n), NEW i \in 1..n, NEW status \in MemoryStatuses,
           memories' = [memories EXCEPT ![i].status = status]
    PROVE  /\ RowsAre(n)' /\ memories'[i].status = status
           /\ \A k \in 1..n \ {i} : memories'[k] = memories[k]
  <1>1. /\ n \in Nat /\ n <= MaxMemories /\ DOMAIN memories = 1..n /\ memories \in Seq(MemoryRows)
        /\ Len(memories) = n /\ \A k \in 1..n : MayBe(memories[k])
    BY DEF RowsAre
  <1>2. PICK r : r = [memories[i] EXCEPT !.status = status]
    OBVIOUS
  <1>3. MayBe(r) /\ r.status = status
    <2>1. PICK o \in MemoryRows : o = memories[i] /\ MayRemember(o)
      BY <1>1 DEF MayBe
    <2>2. r \in MemoryRows /\ r.status = status /\ r.ns = o.ns /\ r.stability = o.stability
          /\ r.sourced = o.sourced
      BY <1>2, <2>1 DEF MemoryRows
    <2> QED BY <2>1, <2>2 DEF MayBe, MayRemember
  <1>4. memories' = [memories EXCEPT ![i] = r]
    BY <1>2
  <1>5. /\ DOMAIN memories' = 1..n /\ memories'[i] = r
        /\ \A k \in 1..n \ {i} : memories'[k] = memories[k]
    BY <1>1, <1>4
  <1>6. \A k \in 1..n : MayBe(memories'[k])
    BY <1>1, <1>3, <1>5
  <1>7. memories' \in Seq(MemoryRows) /\ Len(memories') = n
    <2>1. memories' \in Seq(MemoryRows)
      <3>1. r \in MemoryRows
        BY <1>3 DEF MayBe
      <3> QED BY <1>1, <1>4, <3>1, ExceptSeq
    <2> QED BY <1>1, <1>5, <2>1, LenProperties
  <1> QED BY <1>1, <1>3, <1>5, <1>6, <1>7 DEF RowsAre

(* ...the status is written... *)
LEMMA UpdateStatusKeeps ==
    ASSUME MemInv, NEW w \in MemWorkers, UpdateStatus(w)
    PROVE  MemInv'
  <1>1. PICK n : n = Len(memories)
    OBVIOUS
  <1>2. MemInvAt(n)
    BY <1>1 DEF MemInv
  <1>3. PICK j : j = memJobs[w]
    OBVIOUS
  <1>4. /\ j.at = "read" /\ memories' = [memories EXCEPT ![j.id].status = j.new] /\ Touch(j.id)
        /\ Goes(w, [j EXCEPT !.at = "updated"])
        /\ UNCHANGED <<reviews, memCalls, disturbed>>
    BY <1>3 DEF UpdateStatus
  <1>5. /\ n \in Nat /\ n <= MaxMemories /\ j \in MemJobs /\ j.id \in 1..n
        /\ {j.old, j.new} \subseteq MemoryStatuses
        /\ w \in Reviewing(j.id)
        /\ \A i : i # j.id => w \notin Reviewing(i)
        /\ ~disturbed => Reviewing(j.id) = {w} /\ Accounted(j.id)
    <2>1. ~Elsewhere(memJobs[w])
      BY <1>3, <1>4 DEF Elsewhere
    <2> QED BY <1>2, <1>3, <2>1, ReviewIs
  <1>6. /\ RowsAre(n)' /\ memories'[j.id].status = j.new
        /\ \A k \in 1..n \ {j.id} : memories'[k] = memories[k]
    <2>1. RowsAre(n)
      BY <1>2 DEF MemInvAt
    <2>2. PICK i \in 1..n, status \in MemoryStatuses : i = j.id /\ status = j.new
      BY <1>5
    <2>3. memories' = [memories EXCEPT ![i].status = status]
      BY <1>4, <2>2
    <2>4. /\ RowsAre(n)' /\ memories'[i].status = status
          /\ \A k \in 1..n \ {i} : memories'[k] = memories[k]
      BY <2>1, <2>3, StatusWritten, Zenon
    <2> QED BY <2>2, <2>4
  <1>7. TouchedOnce(n)'
    BY <1>2, <1>4, <1>5, TouchKeeps DEF MemInvAt
  <1>8. PICK job : job = [j EXCEPT !.at = "updated"]
    OBVIOUS
  <1>9. /\ job.at = "updated" /\ job.id = j.id /\ job.old = j.old /\ job.new = j.new
        /\ JobIs(job, n)
    BY <1>5, <1>8 DEF JobIs, MemJobs
  <1>10. JobsAre(n)' /\ memJobs'[w] = job /\ \A x \in MemWorkers \ {w} : memJobs'[x] = memJobs[x]
    <2>1. JobsAre(n) /\ n <= n /\ Goes(w, job)
      BY <1>2, <1>4, <1>5, <1>8 DEF MemInvAt
    <2> QED BY <1>5, <1>9, <2>1, MemJobMoves
  <1>11. ReceiptsAre(n)' /\ memCalls' \in 0..MaxMemCalls /\ disturbed' \in BOOLEAN
    BY <1>2, <1>4 DEF MemInvAt, ReceiptsAre
  <1>12. ASSUME ~disturbed', NEW k \in 1..n PROVE Accounted(k)'
    <2>1. Accounted(k) /\ reviews' = reviews
      BY <1>2, <1>4, <1>12 DEF MemInvAt
    <2>2. CASE k = j.id
      <3>1. Reviewing(k) = {w}
        BY <1>4, <1>5, <1>12, <2>2
      <3>2. Reviewing(k)' = {w}
        BY <1>9, <1>10, <2>2, <3>1 DEF Reviewing
      <3>3. j.old = LastOf(k)
        BY <1>3, <2>1, <3>1 DEF Accounted
      <3>4. memJobs'[w].at = "updated" /\ memJobs'[w].old = j.old
            /\ memories'[k].status = memJobs'[w].new
        BY <1>6, <1>9, <1>10, <2>2
      <3> QED BY <2>1, <3>2, <3>3, <3>4 DEF Accounted, LastOf, IsChain
    <2>3. CASE k # j.id
      <3>1. w \notin Reviewing(k) /\ w \notin Reviewing(k)'
        BY <1>5, <1>9, <1>10, <2>3 DEF Reviewing
      <3>2. Reviewing(k)' = Reviewing(k) /\ \A x \in Reviewing(k) : memJobs'[x] = memJobs[x]
        BY <1>10, <3>1, OthersReview
      <3>3. reviews'[k] = reviews[k] /\ memories'[k].status = memories[k].status
        BY <1>6, <2>1, <2>3
      <3> QED BY <2>1, <3>2, <3>3, StaysAccounted
    <2> QED BY <2>2, <2>3
  <1>13. MemInvAt(n)'
    BY <1>6, <1>7, <1>10, <1>11, <1>12 DEF MemInvAt
  <1>14. Len(memories') = n
    BY <1>6 DEF RowsAre
  <1> QED BY <1>13, <1>14 DEF MemInv

(* ...and the receipt leads on from where the last one led. *)
LEMMA WriteReviewReceiptKeeps ==
    ASSUME MemInv, NEW w \in MemWorkers, WriteReviewReceipt(w)
    PROVE  MemInv'
  <1>1. PICK n : n = Len(memories)
    OBVIOUS
  <1>2. MemInvAt(n)
    BY <1>1 DEF MemInv
  <1>3. PICK j : j = memJobs[w]
    OBVIOUS
  <1>4. /\ j.at = "updated" /\ Goes(w, MemIdle)
        /\ reviews' = [reviews EXCEPT ![j.id] = Append(@, [old |-> j.old, new |-> j.new])]
        /\ UNCHANGED <<memories, touched, memCalls, disturbed>>
    BY <1>3 DEF WriteReviewReceipt
  <1>5. /\ n \in Nat /\ n <= MaxMemories /\ j \in MemJobs /\ j.id \in 1..n
        /\ {j.old, j.new} \subseteq MemoryStatuses
        /\ w \in Reviewing(j.id)
        /\ \A i : i # j.id => w \notin Reviewing(i)
        /\ ~disturbed => Reviewing(j.id) = {w} /\ Accounted(j.id)
    <2>1. ~Elsewhere(memJobs[w])
      BY <1>3, <1>4 DEF Elsewhere
    <2> QED BY <1>2, <1>3, <2>1, ReviewIs
  <1>6. j.id \in MemIds
    BY <1>5, MemBounds
  <1>7. PICK r : r = [old |-> j.old, new |-> j.new]
    OBVIOUS
  <1>8. PICK old : old = reviews[j.id]
    OBVIOUS
  <1>9. /\ reviews = [i \in MemIds |-> reviews[i]] /\ old \in Receipts
        /\ \A i \in MemIds : reviews[i] \in Receipts /\ (i \in 1..n \/ reviews[i] = <<>>)
    BY <1>2, <1>6, <1>8 DEF MemInvAt, ReceiptsAre
  <1>10. /\ reviews' = [i \in MemIds |-> IF i = j.id THEN Append(old, r) ELSE reviews[i]]
    BY <1>4, <1>7, <1>8, <1>9
  <1>11. /\ Append(old, r) \in Receipts /\ Len(old) \in Nat /\ Len(Append(old, r)) = Len(old) + 1
         /\ DOMAIN Append(old, r) = 1..Len(old) + 1 /\ DOMAIN old = 1..Len(old)
         /\ Append(old, r)[Len(old) + 1] = r /\ \A k \in 1..Len(old) : Append(old, r)[k] = old[k]
    <2> DEFINE R == [old : MemoryStatuses, new : MemoryStatuses]
    <2>1. r \in R /\ old \in Seq(R)
      BY <1>5, <1>7, <1>9 DEF Receipts
    <2> HIDE DEF R
    <2>2. /\ Append(old, r) \in Seq(R) /\ Len(Append(old, r)) = Len(old) + 1
          /\ Append(old, r)[Len(old) + 1] = r /\ \A k \in 1..Len(old) : Append(old, r)[k] = old[k]
      BY <2>1, AppendProperties
    <2>3. Len(old) \in Nat /\ DOMAIN old = 1..Len(old)
          /\ DOMAIN Append(old, r) = 1..Len(Append(old, r))
      BY <2>1, <2>2, LenProperties
    <2> QED BY <2>2, <2>3 DEF R, Receipts
  <1>12. ReceiptsAre(n)'
    <2>1. reviews' = [i \in MemIds |-> reviews'[i]]
      BY <1>10
    <2>2. \A i \in MemIds : reviews'[i] \in Receipts /\ (i \in 1..n \/ reviews'[i] = <<>>)
      BY <1>5, <1>9, <1>10, <1>11
    <2> QED BY <2>1, <2>2 DEF ReceiptsAre
  <1>13. JobIs(MemIdle, n)
    BY IdleIs DEF JobIs, Elsewhere
  <1>14. JobsAre(n)' /\ memJobs'[w] = MemIdle /\ \A x \in MemWorkers \ {w} : memJobs'[x] = memJobs[x]
    <2>1. JobsAre(n) /\ n <= n
      BY <1>2, <1>5 DEF MemInvAt
    <2> QED BY <1>4, <1>5, <1>13, <2>1, MemJobMoves
  <1>15. RowsAre(n)' /\ TouchedOnce(n)' /\ memCalls' \in 0..MaxMemCalls /\ disturbed' \in BOOLEAN
    BY <1>2, <1>4 DEF MemInvAt, RowsAre, TouchedOnce
  <1>16. \A k : w \notin Reviewing(k)'
    BY <1>14, IdleIs DEF Reviewing, Elsewhere
  <1>17. ASSUME ~disturbed', NEW k \in 1..n PROVE Accounted(k)'
    <2>1. Accounted(k) /\ memories' = memories /\ k \in MemIds
      BY <1>2, <1>4, <1>5, <1>17, MemBounds DEF MemInvAt
    <2>2. CASE k = j.id
      <3>1. Reviewing(k) = {w}
        BY <1>4, <1>5, <1>17, <2>2
      <3>2. Reviewing(k)' = {}
        <4>1. \A x \in MemWorkers \ {w} : x \notin Reviewing(k)
          BY <3>1
        <4>2. \A x \in MemWorkers \ {w} : x \notin Reviewing(k)'
          BY <1>14, <4>1 DEF Reviewing
        <4> QED BY <1>16, <4>2 DEF Reviewing
      <3>3. j.old = LastOf(k) /\ memories[k].status = j.new /\ IsChain(old)
        BY <1>3, <1>4, <1>8, <2>1, <2>2, <3>1 DEF Accounted
      <3>4. reviews'[k] = Append(old, r)
        BY <1>10, <2>1, <2>2
      <3>5. IsChain(Append(old, r))
        <4> SUFFICES ASSUME NEW l \in 1..Len(old) + 1
                     PROVE  Append(old, r)[l].old = IF l = 1 THEN "active"
                                                    ELSE Append(old, r)[l - 1].new
          BY <1>11 DEF IsChain
        <4>1. CASE l = Len(old) + 1
          <5>1. Append(old, r)[l].old = LastOf(k)
            BY <1>7, <1>11, <3>3, <4>1
          <5>2. CASE Len(old) = 0
            <6>1. old = <<>> /\ l = 1
              BY <1>9, <1>11, <4>1, <5>2, EmptySeq DEF Receipts
            <6> QED BY <1>8, <2>2, <5>1, <6>1 DEF LastOf
          <5>3. CASE Len(old) # 0
            <6>1. old # <<>> /\ l # 1 /\ l - 1 = Len(old) /\ Len(old) \in 1..Len(old)
              BY <1>11, <4>1, <5>3
            <6>2. LastOf(k) = old[Len(old)].new
              BY <1>8, <2>2, <6>1 DEF LastOf, Last
            <6> QED BY <1>11, <5>1, <6>1, <6>2
          <5> QED BY <5>2, <5>3
        <4>2. CASE l # Len(old) + 1
          <5>1. l \in 1..Len(old) /\ (l # 1 => l - 1 \in 1..Len(old))
            BY <1>11, <4>2
          <5>2. old[l].old = IF l = 1 THEN "active" ELSE old[l - 1].new
            BY <1>11, <3>3, <5>1 DEF IsChain
          <5> QED BY <1>11, <5>1, <5>2
        <4> QED BY <4>1, <4>2
      <3>6. LastOf(k)' = j.new
        <4>1. Append(old, r) # <<>>
          BY <1>11
        <4> QED BY <1>7, <1>11, <3>4, <4>1 DEF LastOf, Last
      <3> QED BY <2>1, <3>2, <3>3, <3>4, <3>5, <3>6 DEF Accounted
    <2>3. CASE k # j.id
      <3>1. w \notin Reviewing(k)
        BY <1>5, <2>3
      <3>2. Reviewing(k)' = Reviewing(k) /\ \A x \in Reviewing(k) : memJobs'[x] = memJobs[x]
        BY <1>14, <1>16, <3>1, OthersReview
      <3>3. reviews'[k] = reviews[k] /\ memories'[k].status = memories[k].status
        BY <1>10, <2>1, <2>3
      <3> QED BY <2>1, <3>2, <3>3, StaysAccounted
    <2> QED BY <2>2, <2>3
  <1>18. MemInvAt(n)'
    BY <1>12, <1>14, <1>15, <1>17 DEF MemInvAt
  <1>19. Len(memories') = n
    BY <1>15 DEF RowsAre
  <1> QED BY <1>18, <1>19 DEF MemInv

(* What was read and not written leaves no trace; what was written and not   *)
(* receipted disturbs. *)
LEMMA StopsKeeps ==
    ASSUME MemInv, NEW w \in MemWorkers, Stops(w)
    PROVE  MemInv'
  <1>1. PICK n : n = Len(memories)
    OBVIOUS
  <1>2. MemInvAt(n)
    BY <1>1 DEF MemInv
  <1>3. PICK j : j = memJobs[w]
    OBVIOUS
  <1>4. /\ Goes(w, MemIdle) /\ disturbed' = (disturbed \/ j.at = "updated")
        /\ UNCHANGED <<memories, touched, reviews, memCalls>>
    BY <1>3 DEF Stops
  <1>5. n \in Nat /\ JobIs(MemIdle, n)
    BY <1>2, IdleIs DEF JobIs, Elsewhere, MemInvAt, RowsAre
  <1>6. JobsAre(n)' /\ memJobs'[w] = MemIdle /\ \A x \in MemWorkers \ {w} : memJobs'[x] = memJobs[x]
    <2>1. JobsAre(n) /\ n <= n
      BY <1>2, <1>5 DEF MemInvAt
    <2> QED BY <1>4, <1>5, <2>1, MemJobMoves
  <1>7. RowsAre(n)' /\ TouchedOnce(n)' /\ ReceiptsAre(n)' /\ memCalls' \in 0..MaxMemCalls
        /\ disturbed' \in BOOLEAN
    BY <1>2, <1>4 DEF MemInvAt, RowsAre, TouchedOnce, ReceiptsAre
  <1>8. \A k : w \notin Reviewing(k)'
    BY <1>6, IdleIs DEF Reviewing, Elsewhere
  <1>9. ASSUME ~disturbed', NEW k \in 1..n PROVE Accounted(k)'
    <2>1. Accounted(k) /\ memories' = memories /\ reviews' = reviews /\ ~disturbed /\ j.at # "updated"
      BY <1>2, <1>4, <1>9 DEF MemInvAt
    <2>2. CASE w \in Reviewing(k)
      <3>1. Reviewing(k) = {w} /\ j.at = "read"
        BY <1>3, <2>1, <2>2 DEF Accounted, Reviewing
      <3>2. Reviewing(k)' = {}
        <4>1. \A x \in MemWorkers \ {w} : x \notin Reviewing(k)
          BY <3>1
        <4>2. \A x \in MemWorkers \ {w} : x \notin Reviewing(k)'
          BY <1>6, <4>1 DEF Reviewing
        <4> QED BY <1>8, <4>2 DEF Reviewing
      <3>3. memories[k].status = LastOf(k)
        BY <1>3, <2>1, <3>1 DEF Accounted
      <3> QED BY <2>1, <3>2, <3>3 DEF Accounted, LastOf
    <2>3. CASE w \notin Reviewing(k)
      <3>1. Reviewing(k)' = Reviewing(k) /\ \A x \in Reviewing(k) : memJobs'[x] = memJobs[x]
        BY <1>6, <1>8, <2>3, OthersReview
      <3>2. reviews'[k] = reviews[k] /\ memories'[k].status = memories[k].status
        BY <2>1
      <3> QED BY <2>1, <3>1, <3>2, StaysAccounted
    <2> QED BY <2>2, <2>3
  <1>10. MemInvAt(n)'
    BY <1>6, <1>7, <1>9 DEF MemInvAt
  <1>11. Len(memories') = n
    BY <1>7 DEF RowsAre
  <1> QED BY <1>10, <1>11 DEF MemInv

LEMMA MemStep == MemInv /\ [MemNext]_memVars => MemInv'
  <1> SUFFICES ASSUME MemInv, [MemNext]_memVars PROVE MemInv'
    OBVIOUS
  <1>1. ASSUME NEW w \in MemWorkers, Remember(w) PROVE MemInv'
    BY <1>1, RememberKeeps
  <1>2. ASSUME NEW w \in MemWorkers, WriteRememberReceipt(w) PROVE MemInv'
    BY <1>2, WriteRememberReceiptKeeps
  <1>3. ASSUME NEW w \in MemWorkers, ReadStatus(w) PROVE MemInv'
    BY <1>3, ReadStatusKeeps
  <1>4. ASSUME NEW w \in MemWorkers, UpdateStatus(w) PROVE MemInv'
    BY <1>4, UpdateStatusKeeps
  <1>5. ASSUME NEW w \in MemWorkers, WriteReviewReceipt(w) PROVE MemInv'
    BY <1>5, WriteReviewReceiptKeeps
  <1>6. ASSUME NEW w \in MemWorkers, Recall(w) PROVE MemInv'
    BY <1>6, RecallKeeps
  <1>7. ASSUME NEW w \in MemWorkers, WriteRecallReceipt(w) PROVE MemInv'
    BY <1>7, WriteRecallReceiptKeeps
  <1>8. ASSUME NEW w \in MemWorkers, Stops(w) PROVE MemInv'
    BY <1>8, StopsKeeps
  <1>9. CASE UNCHANGED memVars
    <2>1. PICK n : n = Len(memories)
      OBVIOUS
    <2>2. MemInvAt(n)
      BY <2>1 DEF MemInv
    <2>3. /\ memories' = memories /\ touched' = touched /\ reviews' = reviews
          /\ memJobs' = memJobs /\ memCalls' = memCalls /\ disturbed' = disturbed
      BY <1>9 DEF memVars
    <2>4. RowsAre(n)' /\ TouchedOnce(n)' /\ ReceiptsAre(n)' /\ JobsAre(n)'
      BY <2>2, <2>3 DEF MemInvAt, RowsAre, TouchedOnce, ReceiptsAre, JobsAre
    <2>5. \A i : Reviewing(i)' = Reviewing(i)
      BY <2>3 DEF Reviewing
    <2>6. \A i : Accounted(i) => Accounted(i)'
      BY <2>3, <2>5, StaysAccounted
    <2>7. MemInvAt(n)'
      BY <2>2, <2>3, <2>4, <2>6 DEF MemInvAt
    <2> QED BY <2>1, <2>3, <2>7 DEF MemInv
  <1> QED BY <1>1, <1>2, <1>3, <1>4, <1>5, <1>6, <1>7, <1>8, <1>9 DEF MemNext

THEOREM MemoryAccounts == MemSpec => [](MemTypeOK /\ RecallIsSound)
  <1>1. MemSpec => []MemInv
    BY MemStarts, MemStep, PTL DEF MemSpec
  <1> QED BY <1>1, MemInvTells, PTL
=============================================================================
