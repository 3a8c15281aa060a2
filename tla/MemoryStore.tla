----------------------------- MODULE MemoryStore -----------------------------
(***************************************************************************)
(* The memory extension (assets/extensions/memory): memories of owners     *)
(* with a policy of what may be written where, their review, recall, and   *)
(* the context that is put together for an agent.                          *)
(*                                                                         *)
(* A worker process handles one invocation at a time, statement by         *)
(* statement; the pool may run several processes over the one database.    *)
(* Namespaces are sequences of segments.  The kind of a memory stands for  *)
(* its content: a fact is short, an observation long, and a text query     *)
(* finds one or the other; titles, summaries, tags and confidences are     *)
(* left out.  Episodes and context frames have no writer among the         *)
(* methods, so their tables are empty.                                     *)
(***************************************************************************)
EXTENDS Integers, Sequences, FiniteSets, SequencesExt, Listings

CONSTANTS
    MemWorkers,   \* processes of the memory extension
    Owners,       \* owners of memories
    RecallLimit,  \* how many memories a query asks for
    Budget,       \* how many characters a context may have before it is full
    MaxMemories,  \* bound on the memories
    MaxMemCalls   \* bound on the other invocations

ASSUME MemoryAssumption ==
    {RecallLimit, Budget, MaxMemories, MaxMemCalls} \subseteq Nat \ {0}

VARIABLES
    memories,  \* the rows, in the order of their insertion
    touched,   \* their numbers, in the order of updated_at
    reviews,   \* the review receipts of each memory
    memJobs,   \* what each process is doing
    memCalls,  \* reviews and recalls so far
    disturbed  \* whether reviews have overlapped or one was cut short

memVars == <<memories, touched, reviews, memJobs, memCalls, disturbed>>

-----------------------------------------------------------------------------
(* Policy *)

(* GlobPattern: segment by segment, where * stands for one of them and ** for*)
(* any number; a single * matches everything.  From[k] holds the places of   *)
(* the value from which the last k segments of the pattern match it.         *)
Matches(pattern, value) ==
    LET n == Len(pattern)
        From[k \in 0..n] ==
          IF k = 0 THEN {Len(value) + 1}
          ELSE IF pattern[n + 1 - k] = "**"
               THEN {j \in 1..Len(value) + 1 :
                       k = 1 \/ \E i \in j..Len(value) + 1 : i \in From[k - 1]}
          ELSE {j \in 1..Len(value) : pattern[n + 1 - k] \in {"*", value[j]}
                                     /\ j + 1 \in From[k - 1]}
    IN  pattern \in {<<"*">>, <<"**">>} \/ 1 \in From[n]

TruthNamespaces     == {<<s, "**">> : s \in {"user", "agents", "interaction", "work"}}
ForbiddenNamespaces == {<<s, "**">> : s \in {"conversation", "tmp"}}

IsTruthNamespace(ns) == \E p \in TruthNamespaces : Matches(p, ns)
IsForbidden(ns)      == \E p \in ForbiddenNamespaces : Matches(p, ns)

Namespaces == {<<"user", "a">>, <<"workflow", "c">>, <<"tmp">>}

-----------------------------------------------------------------------------
Kinds    == {"fact", "observation"}
Chars(m) == IF m.kind = "fact" THEN 1 ELSE 2
Verbs    == {"approve", "reject", "supersede", "retire"}
MemoryStatuses == {"active", "superseded", "retired"}
MemIds   == 1..MaxMemories
MemoryRows     == [owner : Owners, ns : Namespaces, kind : Kinds,
             stability : {"working", "long_term"}, sourced : BOOLEAN, status : MemoryStatuses]
MemIdle  == [at |-> "idle", id |-> 0, old |-> "none", new |-> "none", found |-> <<>>]

(* validate_remember *)
MayRemember(r) ==
    /\ ~IsForbidden(r.ns)
    /\ r.stability = "long_term" => IsTruthNamespace(r.ns) /\ r.sourced

(* The status a verdict leads to, whatever it was. *)
NewStatus(verb) ==
    CASE verb = "approve" -> "active" [] verb = "supersede" -> "superseded"
      [] OTHER -> "retired"

-----------------------------------------------------------------------------
(* Recall *)

FirstN(s, n) == SubSeq(s, 1, IF Len(s) < n THEN Len(s) ELSE n)

(* Memories in the order in which they were touched, the last one first. *)
Latest(ids) ==
    LET at == Ordered({t \in DOMAIN touched : touched[t] \in ids}) IN
    [k \in DOMAIN at |-> touched[at[Len(at) + 1 - k]]]

(* Active memories of an owner. *)
Active(owner) ==
    {i \in DOMAIN memories : memories[i].owner = owner /\ memories[i].status = "active"}

Asked(q, i) == IsPrefix(q.prefix, memories[i].ns) /\ q.kind \in {"any", memories[i].kind}

(* recall_by_namespace, also the hybrid mode *)
RecallByNamespace(q) ==
    FirstN(Latest({i \in Active(q.owner) : Asked(q, i)}), RecallLimit)

(* recall_by_fts: by rank, which is anyone's; namespace and kind are not     *)
(* looked at. *)
RecallByFts(q) ==
    LET hits == {i \in Active(q.owner) : memories[i].kind = q.text} IN
    {SetToSeq(s) : s \in {t \in SUBSET hits :
        Cardinality(t) = IF Cardinality(hits) < RecallLimit THEN Cardinality(hits)
                         ELSE RecallLimit}}

(* recall: without a text the full text mode is that by namespace.           *)
Queries   == [owner : Owners, prefix : {<<>>, <<"user">>}, kind : {"any", "fact"}]
Questions == [owner : Owners, text : Kinds]

SumOfChars(ids) ==
    LET Sum[n \in 0..Len(ids)] == IF n = 0 THEN 0 ELSE Sum[n - 1] + Chars(memories[ids[n]])
    IN  Sum[Len(ids)]

(* assemble_context: one by one until the budget is used up, so that the last *)
(* one may exceed it. *)
Assemble(owner) ==
    LET rows == Latest(Active(owner))
        View[n \in 0..Len(rows)] ==
          IF n = 0 THEN <<>>
          ELSE IF SumOfChars(View[n - 1]) >= Budget THEN View[n - 1]
          ELSE Append(View[n - 1], rows[n])
    IN  View[Len(rows)]

-----------------------------------------------------------------------------
MemTypeOK ==
    /\ memories \in Seq(MemoryRows) /\ Len(memories) <= MaxMemories
    /\ ToSet(touched) = DOMAIN memories /\ Len(touched) = Len(memories)
    /\ reviews \in [MemIds -> Seq([old : MemoryStatuses, new : MemoryStatuses])]
    /\ memJobs \in [MemWorkers ->
          [at : {"idle", "inserted", "found", "read", "updated"}, id : 0..MaxMemories,
           old : MemoryStatuses \cup {"none"}, new : MemoryStatuses \cup {"none"},
           found : Seq(MemIds)]]
    /\ memCalls \in 0..MaxMemCalls /\ disturbed \in BOOLEAN

MemInit ==
    /\ memories = <<>> /\ touched = <<>>
    /\ reviews = [i \in MemIds |-> <<>>]
    /\ memJobs = [w \in MemWorkers |-> MemIdle]
    /\ memCalls = 0
    /\ disturbed = FALSE

FreeMemWorker(w) == memJobs[w].at = "idle"
Goes(w, job)     == memJobs' = [memJobs EXCEPT ![w] = job]

(* updated_at is set. *)
Touch(i) ==
    LET at == CHOOSE t \in DOMAIN touched : touched[t] = i IN
    touched' = Append(RemoveAt(touched, at), i)

Reviewing(i) == {w \in MemWorkers : memJobs[w].at \in {"read", "updated"} /\ memJobs[w].id = i}

(* memory.ingest: the row... *)
Remember(w) ==
    /\ FreeMemWorker(w) /\ Len(memories) < MaxMemories
    /\ \E r \in MemoryRows :
          /\ r.status = "active" /\ MayRemember(r)
          /\ r.sourced => r.stability = "long_term"   \* of others the sources do not matter
          /\ memories' = Append(memories, r)
    /\ touched' = Append(touched, Len(memories) + 1)
    /\ Goes(w, [MemIdle EXCEPT !.at = "inserted", !.id = Len(memories) + 1])
    /\ UNCHANGED <<reviews, memCalls, disturbed>>

(* ...and its receipt, which nothing reads. *)
WriteRememberReceipt(w) ==
    /\ memJobs[w].at = "inserted"
    /\ Goes(w, MemIdle)
    /\ UNCHANGED <<memories, touched, reviews, memCalls, disturbed>>

(* memory.review: the status is read... *)
ReadStatus(w) ==
    /\ FreeMemWorker(w) /\ memCalls < MaxMemCalls /\ memCalls' = memCalls + 1
    /\ \E i \in DOMAIN memories, verb \in Verbs :
          /\ Goes(w, [MemIdle EXCEPT !.at = "read", !.id = i, !.old = memories[i].status,
                                  !.new = NewStatus(verb)])
          /\ disturbed' = (disturbed \/ Reviewing(i) # {})
    /\ UNCHANGED <<memories, touched, reviews>>

(* A mutant: what is retired stays so. *)
UpdateUnlessRetired(w) ==
    LET j == memJobs[w] IN
    /\ j.at = "read"
    /\ memories' = IF memories[j.id].status = "retired" THEN memories
                   ELSE [memories EXCEPT ![j.id].status = j.new]
    /\ Touch(j.id)
    /\ Goes(w, [j EXCEPT !.at = "updated"])
    /\ UNCHANGED <<reviews, memCalls, disturbed>>

(* ...the new one written, whatever it is by now... *)
UpdateStatus(w) ==
    LET j == memJobs[w] IN
    /\ j.at = "read"
    /\ memories' = [memories EXCEPT ![j.id].status = j.new]
    /\ Touch(j.id)
    /\ Goes(w, [j EXCEPT !.at = "updated"])
    /\ UNCHANGED <<reviews, memCalls, disturbed>>

(* ...and the receipt says from what to what. *)
WriteReviewReceipt(w) ==
    LET j == memJobs[w] IN
    /\ j.at = "updated"
    /\ reviews' = [reviews EXCEPT ![j.id] = Append(@, [old |-> j.old, new |-> j.new])]
    /\ Goes(w, MemIdle)
    /\ UNCHANGED <<memories, touched, memCalls, disturbed>>

(* memory.query: the memories are read... *)
Recall(w) ==
    /\ FreeMemWorker(w) /\ memCalls < MaxMemCalls /\ memCalls' = memCalls + 1
    /\ \E found \in {RecallByNamespace(q) : q \in Queries}
                         \cup UNION {RecallByFts(q) : q \in Questions} :
          Goes(w, [MemIdle EXCEPT !.at = "found", !.found = found])
    /\ UNCHANGED <<memories, touched, reviews, disturbed>>

(* ...and a receipt tells which; nothing reads it. *)
WriteRecallReceipt(w) ==
    /\ memJobs[w].at = "found"
    /\ Goes(w, MemIdle)
    /\ UNCHANGED <<memories, touched, reviews, memCalls, disturbed>>

(* A statement fails, or the process dies: what has been written stays.      *)
Stops(w) ==
    /\ memJobs[w].at # "idle"
    /\ Goes(w, MemIdle)
    /\ disturbed' = (disturbed \/ memJobs[w].at = "updated")
    /\ UNCHANGED <<memories, touched, reviews, memCalls>>

MemNext ==
    \E w \in MemWorkers :
       \/ Remember(w) \/ WriteRememberReceipt(w)
       \/ ReadStatus(w) \/ UpdateStatus(w) \/ WriteReviewReceipt(w)
       \/ Recall(w) \/ WriteRecallReceipt(w)
       \/ Stops(w)

MemSpec == MemInit /\ [][MemNext]_memVars

-----------------------------------------------------------------------------
(* Properties *)

(* A pattern matches what can be cut into pieces such that each segment of   *)
(* the pattern stands for its piece; only a * by itself is more than that.   *)
PatternsMatchPieces ==
    (Len(memories) = 1 /\ memCalls = 0) =>
       LET ns == memories[1].ns IN
       \A p \in SeqOf({"user", "a", "*", "**"}, 3) \ {<<>>, <<"*">>} :
          Matches(p, ns) <=>
             \E cut \in [0..Len(p) -> 0..Len(ns)] :
                /\ cut[0] = 0 /\ cut[Len(p)] = Len(ns)
                /\ \A i \in DOMAIN p :
                      \/ p[i] = "**" /\ cut[i - 1] <= cut[i]
                      \/ cut[i] = cut[i - 1] + 1 /\ p[i] \in {"*", ns[cut[i]]}

(* What is kept for long can be traced to a source, and nothing is kept for  *)
(* long outside the namespaces of truth or at all in a forbidden one,        *)
(* however it has been reviewed since.                                       *)
LongTermIsGrounded ==
    \A i \in DOMAIN memories :
       /\ memories[i].ns[1] \notin {"conversation", "tmp"}
       /\ memories[i].stability = "long_term" =>
             memories[i].sourced /\ memories[i].ns[1] \in {"user", "agents", "interaction", "work"}

(* Unless reviews of one memory overlap or one stops half-way, the receipts  *)
(* of a memory lead from its first status to the present one.                *)
ReviewsFormAChain ==
    \A i \in DOMAIN memories :
       (~disturbed /\ Reviewing(i) = {}) =>
          LET r == reviews[i] IN
          /\ \A k \in DOMAIN r : r[k].old = IF k = 1 THEN "active" ELSE r[k - 1].new
          /\ memories[i].status = IF r = <<>> THEN "active" ELSE Last(r).new

(* A recall by namespace misses nothing it was asked for as long as there is *)
(* room, and takes the latest first.                                         *)
RecallMissesNothing ==
    \A q \in Queries :
       LET found == RecallByNamespace(q)
           wanted == {i \in DOMAIN memories :
                        /\ memories[i].owner = q.owner /\ memories[i].status = "active"
                        /\ Asked(q, i)}
           Time(i) == CHOOSE t \in DOMAIN touched : touched[t] = i
       IN
       /\ Range(found) \subseteq wanted
       /\ \A i \in wanted \ Range(found) :
             Len(found) = RecallLimit /\ \A k \in DOMAIN found : Time(found[k]) > Time(i)

(* The context of an agent is never more than one memory over its budget,    *)
(* and leaves out no memory that is newer than one it has.                   *)
ContextsKeepTheBudget ==
    \A owner \in Owners :
       LET view == Assemble(owner) IN
       /\ view # <<>> => SumOfChars(Front(view)) < Budget
       /\ IsPrefix(view, Latest(Active(owner)))

(* What is remembered, recalled and assembled into a context can be accounted*)
(* for, over overlapping reviews and failing statements. *)
RecallIsSound ==
    /\ PatternsMatchPieces
    /\ LongTermIsGrounded
    /\ ReviewsFormAChain
    /\ RecallMissesNothing
    /\ ContextsKeepTheBudget
=============================================================================
