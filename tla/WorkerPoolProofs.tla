-------------------------- MODULE WorkerPoolProofs --------------------------
(***************************************************************************)
(* Theorems about WorkerPool, for every number of calls, extensions,       *)
(* workers of a pool and rebuilds, and every relation of who calls whom.   *)
(***************************************************************************)
EXTENDS WorkerPool, TLAPS

(* The inductive invariant. *)

Using == {"acquire", "scan"} \cup Leased

(* Types: of what the threads share, and of the threads, which have a pool   *)
(* once they go by one.                                                      *)
StoreOK ==
    /\ disk \in [Extensions -> Versions]
    /\ cache \in [Extensions -> Rpcs \cup {None}]
    /\ lock \in Rpcs \cup {None}
    /\ pools \in [Rpcs -> Pools]
    /\ worker \in [Slots -> Workers]
    /\ waiter \in [Rpcs -> {"none", "waiting", "terminate", "closing", "over"}]
    /\ closing \in [Closers -> SUBSET Slots]
    /\ stale \subseteq Extensions \X Rpcs

ThreadsOK ==
    /\ rpc \in [Rpcs -> Threads]
    /\ \A r \in Rpcs : rpc[r].step \in Leased => rpc[r].slot \in Slots
    /\ \A r \in Rpcs : rpc[r].step \in {"recheck", "replace"} \cup Using => rpc[r].pool \in Rpcs

(* While a host call is waited for, the call that made it stands still, and  *)
(* makes no other.                                                           *)
Waited(r) == waiter[r] \notin {"none", "over"} /\ rpc[r].parent \in Rpcs

CallersStand ==
    \A r \in Rpcs :
        /\ Waited(r) => rpc[rpc[r].parent].step = "hostcall"
        /\ \A q \in Rpcs : Waited(r) /\ Waited(q) /\ rpc[r].parent = rpc[q].parent => r = q
        /\ rpc[r].step = "idle" => waiter[r] = "none"

(* A leased worker is marked as busy. *)
LeasedAreBusy == \A r \in Rpcs : HasLease(r) => worker[rpc[r].slot].busy

(* The name of a worker that was not started yet is nowhere in use. *)
Unstarted(r, t) ==
    \/ rpc[r].step = "idle"
    \/ ~HasLease(r) /\ rpc[r].step # "done" /\ rpc[r].try <= t
    \/ HasLease(r) /\ rpc[r].try < t

Unused(s) == \A q \in Rpcs : rpc[q].slot # s /\ s \notin rpc[q].left /\ s \notin pools[q].slots

NewWorkersAreNew == \A r \in Rpcs, t \in {1, 2} : Unstarted(r, t) => Unused(<<r, t>>)

LeaseInv ==
    /\ StoreOK
    /\ ThreadsOK
    /\ CallersStand
    /\ LeasedAreBusy
    /\ NewWorkersAreNew
    /\ LeasesAreExclusive

(* Neither is the name of a pool. *)
Poolless == {"idle", "lookup", "relock", "create", "recheck", "replace", "closing", "insert"}

NewPoolsAreNew ==
    \A r \in Rpcs : rpc[r].step \in Poolless
        => \A q \in Rpcs, e \in Extensions : rpc[q].pool # r /\ cache[e] # r

(* No version is newer than the disk's. *)
DiskIsNewest ==
    /\ \A r \in Rpcs : rpc[r].version <= disk[rpc[r].ext]
    /\ \A e \in Extensions : cache[e] \in Rpcs => pools[cache[e]].version <= disk[e]
    /\ \A r \in Rpcs : rpc[r].pool \in Rpcs => pools[rpc[r].pool].version <= disk[rpc[r].ext]

(* A call uses a pool no older than itself, which has workers no older than  *)
(* the pool.                                                                 *)
UsedAreCurrent ==
    /\ \A r \in Rpcs : rpc[r].step \in Using => rpc[r].version <= pools[rpc[r].pool].version
    /\ \A p \in Rpcs : \A s \in pools[p].slots : pools[p].version <= worker[s].version
    /\ \A r \in Rpcs : \A s \in rpc[r].left : rpc[r].version <= worker[s].version

VersionInv ==
    /\ NewPoolsAreNew
    /\ DiskIsNewest
    /\ UsedAreCurrent
    /\ NoStaleBinary

PoolInv == LeaseInv /\ VersionInv

LEMMA PoolInitially == Init => PoolInv
  <1> SUFFICES ASSUME Init PROVE PoolInv
    OBVIOUS
  <1> USE PoolAssumption DEF Init
  <1>1. PICK e \in Extensions : rpc = [r \in Rpcs |-> Thread("idle", e, Client, 0)]
    OBVIOUS
  <1>2. StoreOK
    BY DEF StoreOK, Pools, Workers, Versions, Closers
  <1>3. ThreadsOK /\ CallersStand
    BY <1>1 DEF ThreadsOK, CallersStand, Waited, Using, Leased, Steps, Thread, Threads, Versions
  <1>4. LeasedAreBusy /\ NewWorkersAreNew /\ LeasesAreExclusive
    BY <1>1 DEF LeasedAreBusy, NewWorkersAreNew, LeasesAreExclusive, HasLease, Leased, Thread,
                Unused, NoSlot
  <1>5. VersionInv
    BY <1>1 DEF VersionInv, NewPoolsAreNew, DiskIsNewest, UsedAreCurrent, NoStaleBinary, Poolless,
                HasLease, Using, Leased, Thread
  <1> QED
    BY <1>2, <1>3, <1>4, <1>5 DEF PoolInv, LeaseInv

-----------------------------------------------------------------------------
(* Threads: what an update of one does to each of its fields and to the rest. *)

LEMMA ThreadTypes ==
    ASSUME NEW t \in Threads
    PROVE  /\ t.step \in Steps /\ t.ext \in Extensions /\ t.parent \in Rpcs \cup {Client}
           /\ t.version \in Versions /\ t.pool \in Rpcs \cup {None}
           /\ t.slot \in Slots \cup {NoSlot} /\ t.left \subseteq Slots
           /\ t.room \in BOOLEAN /\ t.try \in {1, 2}
  BY DEF Threads

LEMMA ThreadMoves ==
    ASSUME NEW f \in [Rpcs -> Threads], NEW r \in Rpcs, NEW t \in Threads
    PROVE  /\ [f EXCEPT ![r] = t] \in [Rpcs -> Threads]
           /\ [f EXCEPT ![r] = t][r] = t
           /\ \A q \in Rpcs \ {r} : [f EXCEPT ![r] = t][q] = f[q]
  OBVIOUS

(* What stays of a thread for good. *)
Alike(t, u) == t.ext = u.ext /\ t.parent = u.parent

LEMMA StepIs ==
    ASSUME rpc \in [Rpcs -> Threads], NEW r \in Rpcs, NEW step \in Steps, Step(r, step)
    PROVE  /\ rpc' \in [Rpcs -> Threads]
           /\ \A q \in Rpcs \ {r} : rpc'[q] = rpc[q]
           /\ Alike(rpc'[r], rpc[r])
           /\ rpc'[r].step = step /\ rpc'[r].version = rpc[r].version
           /\ rpc'[r].pool = rpc[r].pool /\ rpc'[r].slot = rpc[r].slot
           /\ rpc'[r].left = rpc[r].left /\ rpc'[r].try = rpc[r].try
  <1> DEFINE t == [rpc[r] EXCEPT !.step = step]
  <1>1. rpc[r] \in Threads
    OBVIOUS
  <1>2. /\ t \in Threads /\ Alike(t, rpc[r])
        /\ t.step = step /\ t.version = rpc[r].version
        /\ t.pool = rpc[r].pool /\ t.slot = rpc[r].slot
        /\ t.left = rpc[r].left /\ t.try = rpc[r].try
    BY <1>1 DEF Threads, Alike
  <1>3. rpc' = [rpc EXCEPT ![r] = t]
    BY DEF Step
  <1> QED
    BY <1>2, <1>3, ThreadMoves

LEMMA GoByIs ==
    ASSUME rpc \in [Rpcs -> Threads], NEW r \in Rpcs, NEW step \in Steps,
           NEW p \in Rpcs \cup {None}, GoBy(r, step, p)
    PROVE  /\ rpc' \in [Rpcs -> Threads]
           /\ \A q \in Rpcs \ {r} : rpc'[q] = rpc[q]
           /\ Alike(rpc'[r], rpc[r])
           /\ rpc'[r].step = step /\ rpc'[r].version = rpc[r].version
           /\ rpc'[r].pool = p /\ rpc'[r].slot = rpc[r].slot
           /\ rpc'[r].left = rpc[r].left /\ rpc'[r].try = rpc[r].try
  <1> DEFINE t == [rpc[r] EXCEPT !.step = step, !.pool = p]
  <1>1. rpc[r] \in Threads
    OBVIOUS
  <1>2. /\ t \in Threads /\ Alike(t, rpc[r])
        /\ t.step = step /\ t.version = rpc[r].version
        /\ t.pool = p /\ t.slot = rpc[r].slot
        /\ t.left = rpc[r].left /\ t.try = rpc[r].try
    BY <1>1 DEF Threads, Alike
  <1>3. rpc' = [rpc EXCEPT ![r] = t]
    BY DEF GoBy
  <1> QED
    BY <1>2, <1>3, ThreadMoves

LEMMA WalkIs ==
    ASSUME rpc \in [Rpcs -> Threads], NEW r \in Rpcs, NEW left \in SUBSET Slots, Walk(r, left)
    PROVE  /\ rpc' \in [Rpcs -> Threads]
           /\ \A q \in Rpcs \ {r} : rpc'[q] = rpc[q]
           /\ Alike(rpc'[r], rpc[r])
           /\ rpc'[r].step = rpc[r].step /\ rpc'[r].version = rpc[r].version
           /\ rpc'[r].pool = rpc[r].pool /\ rpc'[r].slot = rpc[r].slot
           /\ rpc'[r].left = left /\ rpc'[r].try = rpc[r].try
  <1> DEFINE t == [rpc[r] EXCEPT !.left = left]
  <1>1. rpc[r] \in Threads
    OBVIOUS
  <1>2. /\ t \in Threads /\ Alike(t, rpc[r])
        /\ t.step = rpc[r].step /\ t.version = rpc[r].version
        /\ t.pool = rpc[r].pool /\ t.slot = rpc[r].slot
        /\ t.left = left /\ t.try = rpc[r].try
    BY <1>1 DEF Threads, Alike
  <1>3. rpc' = [rpc EXCEPT ![r] = t]
    BY DEF Walk
  <1> QED
    BY <1>2, <1>3, ThreadMoves

LEMMA ScanIs ==
    ASSUME rpc \in [Rpcs -> Threads], NEW r \in Rpcs, Scan(r), pools[rpc[r].pool].slots \subseteq Slots
    PROVE  /\ rpc' \in [Rpcs -> Threads]
           /\ \A q \in Rpcs \ {r} : rpc'[q] = rpc[q]
           /\ Alike(rpc'[r], rpc[r])
           /\ rpc'[r].step = "scan" /\ rpc'[r].version = rpc[r].version
           /\ rpc'[r].pool = rpc[r].pool /\ rpc'[r].slot = rpc[r].slot
           /\ rpc'[r].left = pools[rpc[r].pool].slots /\ rpc'[r].try = rpc[r].try
  <1> DEFINE slots == pools[rpc[r].pool].slots
             room  == Cardinality(slots) < MaxSize
             t     == [rpc[r] EXCEPT !.step = "scan", !.left = slots, !.room = room]
  <1>1. rpc[r] \in Threads /\ slots \in SUBSET Slots
    OBVIOUS
  <1>2. room \in BOOLEAN
    OBVIOUS
  <1> HIDE DEF room
  <1>3. t \in Threads
    BY <1>1, <1>2 DEF Threads, Steps
  <1>4. /\ Alike(t, rpc[r])
        /\ t.step = "scan" /\ t.version = rpc[r].version
        /\ t.pool = rpc[r].pool /\ t.slot = rpc[r].slot
        /\ t.left = slots /\ t.try = rpc[r].try
    BY <1>1 DEF Threads, Alike
  <1>5. rpc' = [rpc EXCEPT ![r] = t]
    BY DEF Scan, room
  <1> QED
    BY <1>3, <1>4, <1>5, ThreadMoves

LEMMA LeaseIs ==
    ASSUME rpc \in [Rpcs -> Threads], NEW r \in Rpcs, NEW s \in Slots, Lease(r, s)
    PROVE  /\ rpc' \in [Rpcs -> Threads]
           /\ \A q \in Rpcs \ {r} : rpc'[q] = rpc[q]
           /\ Alike(rpc'[r], rpc[r])
           /\ rpc'[r].step = "invoke" /\ rpc'[r].version = rpc[r].version
           /\ rpc'[r].pool = rpc[r].pool /\ rpc'[r].slot = s
           /\ rpc'[r].left = {} /\ rpc'[r].try = rpc[r].try
  <1> DEFINE t == [rpc[r] EXCEPT !.step = "invoke", !.slot = s, !.left = {}, !.room = FALSE]
  <1>1. rpc[r] \in Threads
    OBVIOUS
  <1>2. /\ t \in Threads /\ Alike(t, rpc[r])
        /\ t.step = "invoke" /\ t.version = rpc[r].version
        /\ t.pool = rpc[r].pool /\ t.slot = s
        /\ t.left = {} /\ t.try = rpc[r].try
    BY <1>1 DEF Threads, Alike, Steps, Leased
  <1>3. rpc' = [rpc EXCEPT ![r] = t]
    BY DEF Lease
  <1> QED
    BY <1>2, <1>3, ThreadMoves

LEMMA FinishIs ==
    ASSUME rpc \in [Rpcs -> Threads], NEW r \in Rpcs, Finish(r)
    PROVE  /\ rpc' \in [Rpcs -> Threads]
           /\ \A q \in Rpcs \ {r} : rpc'[q] = rpc[q]
           /\ Alike(rpc'[r], rpc[r])
           /\ rpc'[r].step = "done" /\ rpc'[r].version = 0
           /\ rpc'[r].pool = None /\ rpc'[r].slot = NoSlot
           /\ rpc'[r].left = {} /\ rpc'[r].try = 1
  <1> DEFINE t == Thread("done", rpc[r].ext, rpc[r].parent, 0)
  <1>1. rpc[r] \in Threads
    OBVIOUS
  <1>2. /\ t \in Threads /\ Alike(t, rpc[r])
        /\ t.step = "done" /\ t.version = 0
        /\ t.pool = None /\ t.slot = NoSlot
        /\ t.left = {} /\ t.try = 1
    BY <1>1, PoolAssumption DEF Thread, Threads, Alike, Steps, Versions
  <1>3. rpc' = [rpc EXCEPT ![r] = t]
    BY DEF Finish
  <1> QED
    BY <1>2, <1>3, ThreadMoves

LEMMA DiscardIs ==
    ASSUME rpc \in [Rpcs -> Threads], NEW r \in Rpcs, Discard(r)
    PROVE  /\ rpc' \in [Rpcs -> Threads]
           /\ \A q \in Rpcs \ {r} : rpc'[q] = rpc[q]
           /\ Alike(rpc'[r], rpc[r])
           /\ rpc'[r].step = "acquire" /\ rpc'[r].version = rpc[r].version
           /\ rpc'[r].pool = rpc[r].pool /\ rpc'[r].slot = NoSlot
           /\ rpc'[r].left = rpc[r].left /\ rpc'[r].try = 2
  <1> DEFINE t == [rpc[r] EXCEPT !.step = "acquire", !.slot = NoSlot, !.try = 2]
  <1>1. rpc[r] \in Threads
    OBVIOUS
  <1>2. /\ t \in Threads /\ Alike(t, rpc[r])
        /\ t.step = "acquire" /\ t.version = rpc[r].version
        /\ t.pool = rpc[r].pool /\ t.slot = NoSlot
        /\ t.left = rpc[r].left /\ t.try = 2
    BY <1>1 DEF Threads, Alike, Steps
  <1>3. rpc' = [rpc EXCEPT ![r] = t]
    BY DEF Discard
  <1> QED
    BY <1>2, <1>3, ThreadMoves

(* A call starts a thread, and the worker that makes it waits. *)
LEMMA CallIs ==
    ASSUME rpc \in [Rpcs -> Threads], disk \in [Extensions -> Versions],
           NEW r \in Rpcs, NEW e \in Extensions, NEW accepted \in BOOLEAN, Call(r, e, accepted)
    PROVE  /\ rpc' \in [Rpcs -> Threads]
           /\ rpc'[r].step \in {"lookup", "done"} /\ rpc'[r].ext = e
           /\ rpc'[r].version <= disk[e]
           /\ rpc'[r].pool = None /\ rpc'[r].slot = NoSlot
           /\ rpc'[r].left = {} /\ rpc'[r].try = 1
           /\ rpc'[r].parent \in Rpcs => /\ rpc'[r].parent # r
                                         /\ rpc[rpc'[r].parent].step = "serving"
           /\ \A q \in Rpcs \ {r} :
                 /\ Alike(rpc'[q], rpc[q])
                 /\ rpc'[q].step = IF q = rpc'[r].parent THEN "hostcall" ELSE rpc[q].step
                 /\ rpc'[q].version = rpc[q].version
                 /\ rpc'[q].pool = rpc[q].pool /\ rpc'[q].slot = rpc[q].slot
                 /\ rpc'[q].left = rpc[q].left /\ rpc'[q].try = rpc[q].try
  <1>1. PICK q \in Rpcs \cup {Client} :
          LET started == [rpc EXCEPT ![r] = IF accepted THEN Thread("lookup", e, q, disk[e])
                                            ELSE Thread("done", e, q, 0)] IN
          \/ q = Client /\ rpc' = started
          \/ /\ q \in Rpcs /\ rpc[q].step = "serving"
             /\ rpc' = [started EXCEPT ![q] = [@ EXCEPT !.step = "hostcall"]]
    BY DEF Call
  <1> DEFINE t == IF accepted THEN Thread("lookup", e, q, disk[e]) ELSE Thread("done", e, q, 0)
             f == [rpc EXCEPT ![r] = t]
  <1>2. /\ t \in Threads /\ t.step \in {"lookup", "done"} /\ t.ext = e /\ t.parent = q
        /\ t.version <= disk[e] /\ t.pool = None /\ t.slot = NoSlot /\ t.left = {} /\ t.try = 1
    BY PoolAssumption DEF Thread, Threads, Steps, Versions
  <1> HIDE DEF t
  <1>3. f \in [Rpcs -> Threads] /\ f[r] = t /\ \A p \in Rpcs \ {r} : f[p] = rpc[p]
    BY <1>2, ThreadMoves
  <1>4. CASE q = Client /\ rpc' = f
    BY <1>2, <1>3, <1>4, PoolAssumption DEF Alike
  <1>5. CASE /\ q \in Rpcs /\ rpc[q].step = "serving"
             /\ rpc' = [f EXCEPT ![q] = [@ EXCEPT !.step = "hostcall"]]
    <2>1. q # r
      BY <1>5 DEF Call
    <2> DEFINE u == [rpc[q] EXCEPT !.step = "hostcall"]
    <2>2. rpc[q] \in Threads
      BY <1>5
    <2>3. /\ u \in Threads /\ Alike(u, rpc[q])
          /\ u.step = "hostcall" /\ u.version = rpc[q].version
          /\ u.pool = rpc[q].pool /\ u.slot = rpc[q].slot
          /\ u.left = rpc[q].left /\ u.try = rpc[q].try
      BY <2>2 DEF Threads, Alike, Steps, Leased
    <2>4. rpc' = [f EXCEPT ![q] = u]
      BY <1>3, <1>5, <2>1
    <2> HIDE DEF f, u
    <2>5. rpc' \in [Rpcs -> Threads] /\ rpc'[q] = u /\ \A p \in Rpcs \ {q} : rpc'[p] = f[p]
      BY <1>3, <1>5, <2>3, <2>4, ThreadMoves
    <2> QED
      BY <1>2, <1>3, <1>5, <2>1, <2>3, <2>5 DEF Alike
  <1> QED
    BY <1>1, <1>4, <1>5 DEF t

(* The worker that made a call goes on. *)
LEMMA AnsweredIs ==
    ASSUME rpc \in [Rpcs -> Threads], NEW r \in Rpcs, Answered(r)
    PROVE  /\ rpc' \in [Rpcs -> Threads]
           /\ \A q \in Rpcs :
                 /\ Alike(rpc'[q], rpc[q])
                 /\ rpc'[q].step = IF q = rpc[r].parent THEN "serving" ELSE rpc[q].step
                 /\ rpc'[q].version = rpc[q].version
                 /\ rpc'[q].pool = rpc[q].pool /\ rpc'[q].slot = rpc[q].slot
                 /\ rpc'[q].left = rpc[q].left /\ rpc'[q].try = rpc[q].try
  <1>1. rpc[r].parent \in Rpcs \cup {Client}
    BY ThreadTypes
  <1>2. CASE rpc[r].parent = Client /\ UNCHANGED rpc
    BY <1>2, PoolAssumption DEF Alike
  <1>3. CASE rpc[r].parent # Client /\ Step(rpc[r].parent, "serving")
    <2>1. rpc[r].parent \in Rpcs /\ "serving" \in Steps
      BY <1>1, <1>3 DEF Steps, Leased
    <2> HIDE DEF Step
    <2> QED
      BY <1>3, <2>1, StepIs DEF Alike
  <1> QED
    BY <1>2, <1>3 DEF Answered

-----------------------------------------------------------------------------
(* What the threads share: the flags and the lists. *)

LEMMA MarkIs ==
    ASSUME worker \in [Slots -> Workers], NEW s \in Slots, NEW b \in BOOLEAN,
           worker' = [worker EXCEPT ![s] = [@ EXCEPT !.busy = b]]
    PROVE  /\ worker' \in [Slots -> Workers]
           /\ \A x \in Slots : worker'[x].version = worker[x].version
           /\ worker'[s].busy = b
           /\ \A x \in Slots \ {s} : worker'[x].busy = worker[x].busy
  <1> DEFINE w == [worker[s] EXCEPT !.busy = b]
  <1>1. worker[s] \in Workers
    OBVIOUS
  <1>2. w \in Workers /\ w.version = worker[s].version /\ w.busy = b
    BY <1>1 DEF Workers
  <1>3. worker' = [worker EXCEPT ![s] = w]
    OBVIOUS
  <1> HIDE DEF w
  <1> QED
    BY <1>2, <1>3

LEMMA KilledIs ==
    ASSUME worker \in [Slots -> Workers], NEW s \in Slots,
           worker' = [worker EXCEPT ![s] = [@ EXCEPT !.alive = FALSE]]
    PROVE  /\ worker' \in [Slots -> Workers]
           /\ \A x \in Slots : worker'[x].version = worker[x].version /\ worker'[x].busy = worker[x].busy
  <1> DEFINE w == [worker[s] EXCEPT !.alive = FALSE]
  <1>1. worker[s] \in Workers
    OBVIOUS
  <1>2. w \in Workers /\ w.version = worker[s].version /\ w.busy = worker[s].busy
    BY <1>1 DEF Workers
  <1>3. worker' = [worker EXCEPT ![s] = w]
    OBVIOUS
  <1> HIDE DEF w
  <1> QED
    BY <1>2, <1>3

LEMMA ListIs ==
    ASSUME pools \in [Rpcs -> Pools], NEW p \in Rpcs, NEW slots \in SUBSET Slots, List(p, slots)
    PROVE  /\ pools' \in [Rpcs -> Pools]
           /\ \A q \in Rpcs : pools'[q].version = pools[q].version
           /\ pools'[p].slots = slots
           /\ \A q \in Rpcs \ {p} : pools'[q].slots = pools[q].slots
  <1> DEFINE l == [pools[p] EXCEPT !.slots = slots]
  <1>1. pools[p] \in Pools
    OBVIOUS
  <1>2. l \in Pools /\ l.version = pools[p].version /\ l.slots = slots
    BY <1>1 DEF Pools
  <1>3. pools' = [pools EXCEPT ![p] = l]
    BY DEF List
  <1> HIDE DEF l
  <1> QED
    BY <1>2, <1>3

LEMMA RemoveIs ==
    ASSUME pools \in [Rpcs -> Pools], NEW p \in Rpcs, NEW s \in Slots, Remove(p, s)
    PROVE  /\ pools' \in [Rpcs -> Pools]
           /\ \A q \in Rpcs : /\ pools'[q].version = pools[q].version
                              /\ pools'[q].slots \subseteq pools[q].slots
  <1> DEFINE slots == pools[p].slots \ {s}
  <1>1. pools[p] \in Pools
    OBVIOUS
  <1>2. slots \in SUBSET Slots /\ slots \subseteq pools[p].slots
    BY <1>1 DEF Pools
  <1>3. List(p, slots)
    BY DEF Remove
  <1> HIDE DEF slots
  <1> QED
    BY <1>2, <1>3, ListIs

LEMMA StartClosingIs ==
    ASSUME closing \in [Closers -> SUBSET Slots], pools \in [Rpcs -> Pools],
           NEW a \in Closers, NEW p \in Rpcs, StartClosing(a, p)
    PROVE  closing' \in [Closers -> SUBSET Slots]
  <1>1. pools[p].slots \in SUBSET Slots
    BY DEF Pools
  <1> QED
    BY <1>1 DEF StartClosing

LEMMA PutPoolIs ==
    ASSUME rpc \in [Rpcs -> Threads], pools \in [Rpcs -> Pools], NEW r \in Rpcs, PutPool(r)
    PROVE  /\ pools' \in [Rpcs -> Pools]
           /\ pools'[r].version = rpc[r].version /\ pools'[r].slots = {}
           /\ \A q \in Rpcs \ {r} : pools'[q] = pools[q]
  BY ThreadTypes DEF PutPool, Pools

-----------------------------------------------------------------------------
(* The steps of the pool. *)
LEMMA PoolSteps ==
    ASSUME [Next]_vars
    PROVE  \/ \E r \in Rpcs, e \in Extensions, accepted \in BOOLEAN : Call(r, e, accepted)
           \/ \E r \in Rpcs : \/ Lookup(r) \/ Create(r) \/ Recheck(r) \/ Replace(r) \/ Replaced(r)
                              \/ Insert(r) \/ Scan(r) \/ Sleep(r) \/ Invoke(r) \/ Respond(r)
                              \/ Fail(r) \/ Discard(r) \/ Release(r)
                              \/ Answer(r) \/ Timeout(r) \/ Abandon(r) \/ Terminate(r) \/ Terminated(r)
           \/ \E r \in Rpcs, s \in Slots : Skip(r, s) \/ Acquire(r, s) \/ Bury(r, s)
           \/ \E r \in Rpcs, started \in BOOLEAN : Spawn(r, started)
           \/ \E a \in Closers, s \in Slots : Kill(a, s)
           \/ \E gone \in SUBSET Removable : Inspect(gone)
           \/ \E e \in Extensions, p \in Rpcs : RemoveStale(e, p)
           \/ \E e \in Extensions : Rebuild(e)
           \/ \E s \in Slots : Die(s)
           \/ UNCHANGED vars
  <1>1. CASE \E r \in Rpcs : ThreadStep(r)
    BY <1>1 DEF ThreadStep, PoolStep, LeaseStep, InvokeStep, CloseStep, Closers
  <1>2. CASE \E r \in Rpcs : WaiterStep(r)
    BY <1>2 DEF WaiterStep, CloseStep, Closers
  <1>3. CASE RefreshStep
    BY <1>3 DEF RefreshStep, CloseStep, Closers
  <1> QED
    BY <1>1, <1>2, <1>3 DEF Next

(* Types. *)
LEMMA ThreadsNext ==
    ASSUME StoreOK, ThreadsOK, CallersStand, [Next]_vars
    PROVE  ThreadsOK'
  <1>0. /\ rpc \in [Rpcs -> Threads]
        /\ disk \in [Extensions -> Versions]
        /\ cache \in [Extensions -> Rpcs \cup {None}]
        /\ \A p \in Rpcs : pools[p].slots \subseteq Slots
        /\ ThreadsOK
    BY DEF StoreOK, ThreadsOK, Pools
  <1>b. rpc \in [Rpcs -> Threads] /\ disk \in [Extensions -> Versions]
    BY <1>0
  <1>a. \A r \in Rpcs : /\ rpc[r].ext \in Extensions /\ rpc[r].left \subseteq Slots
                        /\ rpc[r].try \in {1, 2}
    BY <1>0, ThreadTypes
  <1>1. ASSUME NEW r \in Rpcs, NEW e \in Extensions, NEW accepted \in BOOLEAN, Call(r, e, accepted)
        PROVE  ThreadsOK'
    <2>1. /\ rpc' \in [Rpcs -> Threads]
          /\ rpc'[r].step \in {"lookup", "done"}
          /\ \A q \in Rpcs \ {r} : /\ rpc'[q].slot = rpc[q].slot /\ rpc'[q].pool = rpc[q].pool
                                   /\ rpc'[q].step = IF q = rpc'[r].parent THEN "hostcall" ELSE rpc[q].step
      BY <1>b, <1>1, CallIs
    <2>2. rpc'[r].parent \in Rpcs => rpc[rpc'[r].parent].step = "serving"
      BY <1>b, <1>1, CallIs
    <2> QED
      BY <1>0, <2>1, <2>2 DEF ThreadsOK, Using, Leased
  <1>2. ASSUME NEW r \in Rpcs, Lookup(r) PROVE ThreadsOK'
    <2> DEFINE p == cache[rpc[r].ext]
    <2>1. p \in Rpcs \cup {None} /\ {"create", "relock", "acquire"} \subseteq Steps
      BY <1>0, <1>a DEF Steps
    <2>2. \/ Step(r, "create") \/ Step(r, "relock")
          \/ p # None /\ GoBy(r, "acquire", p)
      BY <1>2 DEF Lookup
    <2> HIDE DEF p
    <2>3. CASE Step(r, "create") \/ Step(r, "relock")
      BY <1>0, <2>1, <2>3, StepIs DEF ThreadsOK, Using, Leased
    <2>4. CASE p # None /\ GoBy(r, "acquire", p)
      BY <1>0, <2>1, <2>4, GoByIs DEF ThreadsOK, Using, Leased
    <2> QED
      BY <2>2, <2>3, <2>4
  <1>3. ASSUME NEW r \in Rpcs, Create(r) PROVE ThreadsOK'
    <2> DEFINE p == cache[rpc[r].ext]
    <2>1. p \in Rpcs \cup {None} /\ {"recheck", "acquire"} \subseteq Steps
      BY <1>0, <1>a DEF Steps
    <2>2. PICK q \in {p, r}, step \in {"recheck", "acquire"} : q # None /\ GoBy(r, step, q)
      BY <1>3, PoolAssumption DEF Create, PutPool
    <2> HIDE DEF p
    <2> QED
      BY <1>0, <2>1, <2>2, GoByIs DEF ThreadsOK, Using, Leased
  <1>4. ASSUME NEW r \in Rpcs, Recheck(r) PROVE ThreadsOK'
    <2>1. PICK step \in {"acquire", "replace"} : Step(r, step)
      BY <1>4 DEF Recheck
    <2>2. step \in Steps
      BY DEF Steps
    <2> QED
      BY <1>0, <1>4, <2>1, <2>2, StepIs DEF Recheck, ThreadsOK, Using, Leased
  <1>5. ASSUME NEW r \in Rpcs, Replace(r) PROVE ThreadsOK'
    BY <1>0, <1>5, StepIs DEF Replace, Steps, ThreadsOK, Using, Leased
  <1>6. ASSUME NEW r \in Rpcs, Replaced(r) PROVE ThreadsOK'
    BY <1>0, <1>6, StepIs DEF Replaced, Steps, ThreadsOK, Using, Leased
  <1>7. ASSUME NEW r \in Rpcs, Insert(r) PROVE ThreadsOK'
    BY <1>0, <1>7, GoByIs DEF Insert, PutPool, Steps, ThreadsOK, Using, Leased
  <1>8. ASSUME NEW r \in Rpcs, Scan(r) PROVE ThreadsOK'
    <2>1. rpc[r].step = "acquire" /\ rpc[r].pool \in Rpcs
      BY <1>0, <1>8 DEF Scan, ThreadsOK, Using
    <2> QED
      BY <1>0, <1>8, <2>1, ScanIs DEF ThreadsOK, Using, Leased
  <1>9. ASSUME NEW r \in Rpcs, Sleep(r) PROVE ThreadsOK'
    BY <1>0, <1>9, StepIs DEF Sleep, Steps, ThreadsOK, Using, Leased
  <1>10. ASSUME NEW r \in Rpcs, NEW s \in Slots, Skip(r, s) \/ Bury(r, s) PROVE ThreadsOK'
    <2>1. rpc[r].left \ {s} \in SUBSET Slots /\ Walk(r, rpc[r].left \ {s})
      BY <1>a, <1>10 DEF Skip, Bury
    <2> QED
      BY <1>0, <2>1, WalkIs DEF ThreadsOK, Using, Leased
  <1>11. ASSUME NEW r \in Rpcs, NEW s \in Slots, Acquire(r, s) PROVE ThreadsOK'
    BY <1>0, <1>11, LeaseIs DEF Acquire, ThreadsOK, Using, Leased
  <1>12. ASSUME NEW r \in Rpcs, NEW started \in BOOLEAN, Spawn(r, started) PROVE ThreadsOK'
    <2>1. <<r, rpc[r].try>> \in Slots
      BY <1>a DEF Slots
    <2>2. CASE Lease(r, <<r, rpc[r].try>>)
      BY <1>0, <1>12, <2>1, <2>2, LeaseIs DEF Spawn, ThreadsOK, Using, Leased
    <2>3. CASE Finish(r)
      BY <1>0, <2>3, FinishIs DEF ThreadsOK, Using, Leased
    <2> QED
      BY <1>12, <2>2, <2>3 DEF Spawn
  <1>13. ASSUME NEW r \in Rpcs, Invoke(r) \/ Respond(r) \/ Fail(r) PROVE ThreadsOK'
    BY <1>0, <1>13, StepIs DEF Invoke, Respond, Fail, Steps, ThreadsOK, Using, Leased
  <1>14. ASSUME NEW r \in Rpcs, Discard(r) PROVE ThreadsOK'
    <2>1. rpc[r].step = "failed"
      BY <1>14 DEF Discard
    <2> QED
      BY <1>0, <1>14, <2>1, DiscardIs DEF ThreadsOK, Using, Leased
  <1>15. ASSUME NEW r \in Rpcs, Release(r) PROVE ThreadsOK'
    BY <1>0, <1>15, FinishIs DEF Release, ThreadsOK, Using, Leased
  <1>16. ASSUME NEW r \in Rpcs, Answer(r) \/ Terminated(r) \/ Terminate(r) PROVE ThreadsOK'
    <2>1. CASE Answered(r) /\ waiter[r] \notin {"none", "over"}
      <3>1. rpc[r].parent \in Rpcs => rpc[rpc[r].parent].step = "hostcall"
        BY <2>1 DEF CallersStand, Waited
      <3> QED
        BY <1>0, <2>1, <3>1, AnsweredIs DEF ThreadsOK, Using, Leased
    <2>2. CASE UNCHANGED rpc
      BY <1>0, <2>2 DEF ThreadsOK, Using, Leased
    <2> QED
      BY <1>16, <2>1, <2>2 DEF Answer, Terminated, Terminate
  <1>17. CASE UNCHANGED rpc
    BY <1>0, <1>17 DEF ThreadsOK, Using, Leased
  <1> QED
    BY <1>1, <1>2, <1>3, <1>4, <1>5, <1>6, <1>7, <1>8, <1>9, <1>10, <1>11, <1>12, <1>13,
       <1>14, <1>15, <1>16, <1>17, PoolSteps
       DEF Timeout, Abandon, Kill, Inspect, RemoveStale, Rebuild, Die, vars

LEMMA StoreNext ==
    ASSUME StoreOK, ThreadsOK, [Next]_vars
    PROVE  StoreOK'
  <1> USE DEF StoreOK
  <1>0. /\ rpc \in [Rpcs -> Threads]
        /\ \A r \in Rpcs : /\ rpc[r].ext \in Extensions /\ rpc[r].version \in Versions
                           /\ rpc[r].try \in {1, 2}
        /\ \A p \in Rpcs : pools[p].slots \subseteq Slots
        /\ \A r \in Rpcs : rpc[r].step \in Using => rpc[r].pool \in Rpcs
        /\ \A r \in Rpcs : rpc[r].step \in Leased => rpc[r].slot \in Slots
    BY ThreadTypes DEF ThreadsOK, Pools
  <1>1. ASSUME NEW r \in Rpcs, NEW e \in Extensions, NEW accepted \in BOOLEAN, Call(r, e, accepted)
        PROVE  StoreOK'
    BY <1>1 DEF Call
  <1>2. ASSUME NEW r \in Rpcs, Lookup(r) PROVE StoreOK'
    BY <1>2 DEF Lookup
  <1>3. ASSUME NEW r \in Rpcs, Create(r) \/ Insert(r) PROVE StoreOK'
    <2>1. UNCHANGED <<disk, lock, worker, waiter, closing, stale>>
      BY <1>3 DEF Create, Insert
    <2>2. CASE PutPool(r)
      <3>1. pools' \in [Rpcs -> Pools]
        BY <1>0, <2>2, PutPoolIs
      <3> QED
        BY <1>0, <2>1, <2>2, <3>1 DEF PutPool
    <2>3. CASE UNCHANGED <<cache, pools>>
      BY <2>1, <2>3
    <2> QED
      BY <1>3, <2>2, <2>3 DEF Create, Insert
  <1>4. ASSUME NEW r \in Rpcs, Replace(r) PROVE StoreOK'
    <2>1. rpc[r].pool \in Rpcs
      BY <1>4 DEF Replace, ThreadsOK
    <2> QED
      BY <1>0, <1>4, <2>1 DEF Replace, StartClosing, Closers
  <1>5. ASSUME NEW r \in Rpcs, Recheck(r) \/ Replaced(r) \/ Scan(r) \/ Sleep(r)
                             \/ Invoke(r) \/ Respond(r) \/ Fail(r)
        PROVE  StoreOK'
    BY <1>5 DEF Recheck, Replaced, Scan, Sleep, Invoke, Respond, Fail
  <1>6. ASSUME NEW r \in Rpcs, NEW s \in Slots, Skip(r, s) \/ Acquire(r, s) PROVE StoreOK'
    <2>1. worker' \in [Slots -> Workers]
      BY <1>6, MarkIs DEF Skip, Acquire
    <2> QED
      BY <1>6, <2>1 DEF Skip, Acquire
  <1>7. ASSUME NEW r \in Rpcs, NEW s \in Slots, Bury(r, s) PROVE StoreOK'
    <2>1. worker' \in [Slots -> Workers]
      BY <1>7, MarkIs DEF Bury
    <2>2. rpc[r].pool \in Rpcs
      BY <1>0, <1>7 DEF Bury, Using
    <2>3. pools' \in [Rpcs -> Pools]
      BY <1>7, <2>2, RemoveIs DEF Bury
    <2> QED
      BY <1>7, <2>1, <2>3 DEF Bury
  <1>8. ASSUME NEW r \in Rpcs, NEW started \in BOOLEAN, Spawn(r, started) PROVE StoreOK'
    <2> DEFINE s    == <<r, rpc[r].try>>
               list == pools[rpc[r].pool].slots \cup {s}
    <2>1. s \in Slots /\ list \in SUBSET Slots /\ rpc[r].pool \in Rpcs
      BY <1>0, <1>8 DEF Slots, Spawn, Using
    <2>2. UNCHANGED <<disk, cache, lock, waiter, closing, stale>>
      BY <1>8 DEF Spawn
    <2>3. CASE /\ worker' = [worker EXCEPT ![s] = [alive |-> TRUE, busy |-> TRUE,
                                                    version |-> disk[rpc[r].ext]]]
               /\ List(rpc[r].pool, list)
      <3>0. [alive |-> TRUE, busy |-> TRUE, version |-> disk[rpc[r].ext]] \in Workers
        BY <1>0 DEF Workers
      <3>1. worker' \in [Slots -> Workers]
        BY <2>1, <2>3, <3>0
      <3> HIDE DEF list
      <3>3. pools' \in [Rpcs -> Pools]
        BY <2>1, <2>3, ListIs
      <3> QED
        BY <2>2, <3>1, <3>3
    <2>4. CASE UNCHANGED <<worker, pools>>
      BY <2>2, <2>4
    <2> QED
      BY <1>8, <2>3, <2>4 DEF Spawn
  <1>9. ASSUME NEW r \in Rpcs, Discard(r) \/ Release(r) PROVE StoreOK'
    <2>1. rpc[r].slot \in Slots /\ rpc[r].pool \in Rpcs
      BY <1>0, <1>9 DEF Discard, Release, Using, Leased
    <2>2. CASE Discard(r)
      <3>1. worker' \in [Slots -> Workers]
        BY <2>1, <2>2, KilledIs DEF Discard
      <3>2. pools' \in [Rpcs -> Pools]
        BY <2>1, <2>2, RemoveIs DEF Discard
      <3> QED
        BY <2>2, <3>1, <3>2 DEF Discard
    <2>3. CASE Release(r)
      <3>1. worker' \in [Slots -> Workers]
        BY <2>1, <2>3, MarkIs DEF Release
      <3> QED
        BY <2>3, <3>1 DEF Release
    <2> QED
      BY <1>9, <2>2, <2>3
  <1>10. ASSUME NEW r \in Rpcs, Answer(r) \/ Timeout(r) \/ Abandon(r) \/ Terminated(r) PROVE StoreOK'
    BY <1>10 DEF Answer, Timeout, Abandon, Terminated, Answered
  <1>11. ASSUME NEW r \in Rpcs, Terminate(r) PROVE StoreOK'
    <2>1. /\ cache' \in [Extensions -> Rpcs \cup {None}]
          /\ waiter' \in [Rpcs -> {"none", "waiting", "terminate", "closing", "over"}]
      BY <1>0, <1>11 DEF Terminate, Answered
    <2>2. \/ StartClosing(<<r, "waiter">>, cache[rpc[r].ext]) /\ cache[rpc[r].ext] \in Rpcs
          \/ UNCHANGED closing
      BY <1>0, <1>11 DEF Terminate
    <2>3. closing' \in [Closers -> SUBSET Slots]
      BY <2>2, StartClosingIs DEF Closers
    <2> QED
      BY <1>11, <2>1, <2>3 DEF Terminate
  <1>12. ASSUME NEW a \in Closers, NEW s \in Slots, Kill(a, s) PROVE StoreOK'
    <2>1. worker' \in [Slots -> Workers]
      BY <1>12, KilledIs DEF Kill
    <2> QED
      BY <1>12, <2>1 DEF Kill
  <1>13. ASSUME NEW gone \in SUBSET Removable, Inspect(gone) PROVE StoreOK'
    BY <1>13, PoolAssumption DEF Inspect
  <1>14. ASSUME NEW e \in Extensions, NEW p \in Rpcs, RemoveStale(e, p) PROVE StoreOK'
    <2>1. StartClosing(Refresher, p) \/ UNCHANGED closing
      BY <1>14 DEF RemoveStale
    <2>2. closing' \in [Closers -> SUBSET Slots]
      BY <2>1, StartClosingIs DEF Closers
    <2> QED
      BY <1>14, <2>2 DEF RemoveStale
  <1>15. ASSUME NEW e \in Extensions, Rebuild(e) PROVE StoreOK'
    BY <1>15, PoolAssumption DEF Rebuild, Versions
  <1>16. ASSUME NEW s \in Slots, Die(s) PROVE StoreOK'
    <2>1. worker' \in [Slots -> Workers]
      BY <1>16, KilledIs DEF Die
    <2> QED
      BY <1>16, <2>1 DEF Die
  <1>17. CASE UNCHANGED vars
    BY <1>17 DEF vars
  <1> HIDE DEF StoreOK
  <1> QED
    BY <1>1, <1>2, <1>3, <1>4, <1>5, <1>6, <1>7, <1>8, <1>9, <1>10, <1>11, <1>12, <1>13,
       <1>14, <1>15, <1>16, <1>17, PoolSteps

-----------------------------------------------------------------------------
(* Leases. *)

(* Names that were unused stay so when no list, slot or walk gains any. *)
LEMMA NamesKept ==
    ASSUME NewWorkersAreNew,
           \A q \in Rpcs : rpc'[q].slot \in {rpc[q].slot, NoSlot} \cup rpc[q].left,
           \A q \in Rpcs : \/ rpc'[q].left \subseteq rpc[q].left
                           \/ \E p \in Rpcs : rpc'[q].left \subseteq pools[p].slots,
           \A q \in Rpcs : pools'[q].slots \subseteq pools[q].slots,
           \A q \in Rpcs, t \in {1, 2} : Unstarted(q, t)' => Unstarted(q, t)
    PROVE  NewWorkersAreNew'
  <1> SUFFICES ASSUME NEW r \in Rpcs, NEW t \in {1, 2}, Unstarted(r, t)'
               PROVE  Unused(<<r, t>>)'
    BY DEF NewWorkersAreNew
  <1>1. Unused(<<r, t>>) /\ <<r, t>> # NoSlot
    BY PoolAssumption DEF NewWorkersAreNew, NoSlot
  <1> QED
    BY <1>1 DEF Unused

(* Leases stay exclusive when none is taken and none of them is freed. *)
LEMMA LeasesKept ==
    ASSUME LeasedAreBusy, LeasesAreExclusive,
           \A q \in Rpcs : rpc'[q].step \in Leased =>
              /\ rpc[q].step \in Leased /\ rpc'[q].slot = rpc[q].slot
              /\ worker[rpc[q].slot].busy => worker'[rpc[q].slot].busy
    PROVE  LeasedAreBusy' /\ LeasesAreExclusive'
  BY DEF LeasedAreBusy, LeasesAreExclusive, HasLease

(* A thread's step is nothing to those who wait for host calls. *)
LEMMA CallersKept ==
    ASSUME CallersStand, NEW r \in Rpcs, UNCHANGED waiter,
           \A q \in Rpcs \ {r} : rpc'[q] = rpc[q],
           Alike(rpc'[r], rpc[r]),
           rpc[r].step \notin {"idle", "hostcall"}, rpc'[r].step \notin {"idle", "hostcall"}
    PROVE  CallersStand'
  BY DEF CallersStand, Waited, Alike

(* What a thread does that neither takes a worker nor gives one up. *)
LEMMA QuietStep ==
    ASSUME LeaseInv, NEW r \in Rpcs, UNCHANGED waiter,
           \A q \in Rpcs \ {r} : rpc'[q] = rpc[q],
           Alike(rpc'[r], rpc[r]),
           rpc[r].step \notin {"idle", "hostcall", "done"},
           rpc'[r].step \notin {"idle", "hostcall", "done"},
           rpc'[r].step \in Leased <=> rpc[r].step \in Leased,
           rpc'[r].slot = rpc[r].slot, rpc'[r].try = rpc[r].try,
           \/ rpc'[r].left \subseteq rpc[r].left
           \/ \E p \in Rpcs : rpc'[r].left \subseteq pools[p].slots,
           \A p \in Rpcs : pools'[p].slots \subseteq pools[p].slots,
           \A s \in Slots : worker[s].busy => worker'[s].busy
    PROVE  CallersStand' /\ LeasedAreBusy' /\ NewWorkersAreNew' /\ LeasesAreExclusive'
  <1>1. CallersStand'
    BY CallersKept DEF LeaseInv
  <1>2. LeasedAreBusy' /\ LeasesAreExclusive'
    BY LeasesKept DEF LeaseInv, ThreadsOK
  <1>3. NewWorkersAreNew'
    BY NamesKept DEF LeaseInv, Unstarted, HasLease
  <1> QED
    BY <1>1, <1>2, <1>3

LEMMA LeaseNext ==
    ASSUME LeaseInv, [Next]_vars
    PROVE  CallersStand' /\ LeasedAreBusy' /\ NewWorkersAreNew' /\ LeasesAreExclusive'
  <1> DEFINE Goal == CallersStand' /\ LeasedAreBusy' /\ NewWorkersAreNew' /\ LeasesAreExclusive'
  <1>0. /\ rpc \in [Rpcs -> Threads] /\ disk \in [Extensions -> Versions]
        /\ pools \in [Rpcs -> Pools] /\ worker \in [Slots -> Workers]
    BY DEF LeaseInv, StoreOK, ThreadsOK
  <1>a. \A r \in Rpcs : rpc[r].step \in Using => rpc[r].pool \in Rpcs
    BY DEF LeaseInv, ThreadsOK
  <1>b. \A r \in Rpcs : rpc[r].left \subseteq Slots /\ pools[r].slots \subseteq Slots
    BY <1>0, ThreadTypes DEF Pools
  <1>c. \A r \in Rpcs : cache[rpc[r].ext] \in Rpcs \cup {None}
    BY <1>0, ThreadTypes DEF LeaseInv, StoreOK
  <1> HIDE DEF Goal
  <1>1. ASSUME NEW r \in Rpcs, NEW step \in Steps \ {"idle", "hostcall", "done"}, Step(r, step),
               rpc[r].step \notin {"idle", "hostcall", "done"},
               step \in Leased <=> rpc[r].step \in Leased,
               UNCHANGED <<pools, worker, waiter>>
        PROVE  Goal
    BY <1>0, <1>1, StepIs, QuietStep DEF Goal
  <1>2. ASSUME NEW r \in Rpcs, NEW step \in {"acquire", "recheck"}, NEW p \in Rpcs, GoBy(r, step, p),
               rpc[r].step \in {"lookup", "create", "insert"},
               PutPool(r) \/ UNCHANGED pools, UNCHANGED <<worker, waiter>>
        PROVE  Goal
    <2>1. step \in Steps
      BY DEF Steps
    <2>2. \A q \in Rpcs : pools'[q].slots \subseteq pools[q].slots
      BY <1>0, <1>2, PutPoolIs
    <2> QED
      BY <1>0, <1>2, <2>1, <2>2, GoByIs, QuietStep DEF Goal, Leased
  <1>3. ASSUME NEW r \in Rpcs, Lookup(r) PROVE Goal
    <2> DEFINE p == cache[rpc[r].ext]
    <2>1. /\ rpc[r].step = "lookup" /\ UNCHANGED <<pools, worker, waiter>>
          /\ \/ Step(r, "create") \/ Step(r, "relock")
             \/ p # None /\ GoBy(r, "acquire", p)
      BY <1>3 DEF Lookup
    <2>2. {"create", "relock"} \subseteq Steps /\ {"create", "relock", "lookup"} \cap Leased = {}
      BY DEF Steps, Leased
    <2>3. CASE Step(r, "create") \/ Step(r, "relock")
      BY <1>1, <2>1, <2>2, <2>3
    <2>4. CASE p # None /\ GoBy(r, "acquire", p)
      BY <1>2, <1>c, <2>1, <2>4
    <2> QED
      BY <2>1, <2>3, <2>4
  <1>4. ASSUME NEW r \in Rpcs, Create(r) \/ Insert(r) PROVE Goal
    <2>1. rpc[r].step \in {"create", "insert"} /\ UNCHANGED <<worker, waiter>>
      BY <1>4 DEF Create, Insert
    <2>2. CASE PutPool(r)
      BY <1>2, <2>1, <2>2 DEF PutPool
    <2>3. ASSUME NEW p \in Rpcs, GoBy(r, "recheck", p), UNCHANGED pools PROVE Goal
      BY <1>2, <2>1, <2>3
    <2> QED
      BY <1>4, <1>c, <2>2, <2>3 DEF Create, Insert
  <1>5. ASSUME NEW r \in Rpcs, Recheck(r) \/ Replace(r) \/ Replaced(r) \/ Sleep(r) PROVE Goal
    <2>1. /\ {"acquire", "replace", "closing", "insert"} \subseteq Steps
          /\ {"acquire", "replace", "closing", "insert", "recheck", "scan"} \cap Leased = {}
      BY DEF Steps, Leased
    <2> QED
      BY <1>1, <1>5, <2>1 DEF Recheck, Replace, Replaced, Sleep
  <1>6. ASSUME NEW r \in Rpcs, Invoke(r) \/ Respond(r) \/ Fail(r) PROVE Goal
    <2>1. /\ {"serving", "failed", "release"} \subseteq Steps
          /\ {"invoke", "serving", "failed", "release"} \subseteq Leased
      BY DEF Steps, Leased
    <2> QED
      BY <1>1, <1>6, <2>1 DEF Invoke, Respond, Fail
  <1>7. ASSUME NEW r \in Rpcs, Scan(r) PROVE Goal
    <2>1. rpc[r].step = "acquire" /\ UNCHANGED <<pools, worker, waiter>>
      BY <1>7 DEF Scan
    <2>2. rpc[r].pool \in Rpcs
      BY <1>a, <2>1 DEF Using
    <2>3. /\ \A q \in Rpcs \ {r} : rpc'[q] = rpc[q]
          /\ Alike(rpc'[r], rpc[r]) /\ rpc'[r].step = "scan"
          /\ rpc'[r].slot = rpc[r].slot /\ rpc'[r].try = rpc[r].try
          /\ rpc'[r].left = pools[rpc[r].pool].slots
      BY <1>0, <1>7, <1>b, <2>2, ScanIs
    <2> QED
      BY <2>1, <2>2, <2>3, QuietStep DEF Goal, Leased
  <1>8. ASSUME NEW r \in Rpcs, NEW s \in Slots, Skip(r, s) \/ Bury(r, s) PROVE Goal
    <2>1. rpc[r].step = "scan" /\ UNCHANGED waiter /\ Walk(r, rpc[r].left \ {s})
      BY <1>8 DEF Skip, Bury
    <2>2. rpc[r].pool \in Rpcs /\ rpc[r].left \ {s} \in SUBSET Slots
      BY <1>a, <1>b, <2>1 DEF Using
    <2>3. \A p \in Rpcs : pools'[p].slots \subseteq pools[p].slots
      BY <1>0, <1>8, <2>2, RemoveIs DEF Skip, Bury
    <2>4. \A x \in Slots : worker[x].busy => worker'[x].busy
      BY <1>0, <1>8, MarkIs DEF Skip, Bury
    <2>5. /\ \A q \in Rpcs \ {r} : rpc'[q] = rpc[q]
          /\ Alike(rpc'[r], rpc[r]) /\ rpc'[r].step = "scan"
          /\ rpc'[r].slot = rpc[r].slot /\ rpc'[r].try = rpc[r].try
          /\ rpc'[r].left = rpc[r].left \ {s}
      BY <1>0, <2>1, <2>2, WalkIs
    <2> QED
      BY <2>1, <2>3, <2>4, <2>5, QuietStep DEF Goal, Leased
  <1>9. ASSUME NEW r \in Rpcs, NEW s \in Slots, Acquire(r, s) PROVE Goal
    <2>1. /\ rpc[r].step = "scan" /\ s \in rpc[r].left /\ ~worker[s].busy
          /\ Lease(r, s) /\ UNCHANGED <<pools, waiter>>
      BY <1>9 DEF Acquire
    <2>2. /\ \A q \in Rpcs \ {r} : rpc'[q] = rpc[q]
          /\ Alike(rpc'[r], rpc[r]) /\ rpc'[r].step = "invoke"
          /\ rpc'[r].slot = s /\ rpc'[r].try = rpc[r].try /\ rpc'[r].left = {}
      BY <1>0, <2>1, LeaseIs
    <2>3. worker'[s].busy /\ \A x \in Slots \ {s} : worker'[x].busy = worker[x].busy
      BY <1>0, <1>9, MarkIs DEF Acquire
    <2>4. \A q \in Rpcs : rpc[q].step \in Leased =>
             worker[rpc[q].slot].busy /\ rpc[q].slot \in Slots \ {s}
      BY <2>1 DEF LeaseInv, ThreadsOK, LeasedAreBusy, HasLease
    <2>5. CallersStand'
      BY <2>1, <2>2, CallersKept DEF LeaseInv
    <2>6. LeasedAreBusy' /\ LeasesAreExclusive'
      BY <2>2, <2>3, <2>4 DEF LeaseInv, LeasedAreBusy, LeasesAreExclusive, HasLease
    <2>7. NewWorkersAreNew'
      <3>1. rpc[r].try \in {1, 2}
        BY <1>0, ThreadTypes
      <3> QED
        BY <2>1, <2>2, <3>1, NamesKept DEF LeaseInv, Unstarted, HasLease, Leased
    <2> QED
      BY <2>5, <2>6, <2>7 DEF Goal
  <1>10. ASSUME NEW r \in Rpcs, NEW started \in BOOLEAN, Spawn(r, started) PROVE Goal
    <2> DEFINE s == <<r, rpc[r].try>>
               p == rpc[r].pool
    <2>1. /\ rpc[r].step = "scan" /\ UNCHANGED waiter
          /\ \/ /\ worker' = [worker EXCEPT ![s] = [alive |-> TRUE, busy |-> TRUE,
                                                    version |-> disk[rpc[r].ext]]]
                /\ List(p, pools[p].slots \cup {s}) /\ Lease(r, s)
             \/ Finish(r) /\ UNCHANGED <<worker, pools>>
      BY <1>10 DEF Spawn
    <2>2. rpc[r].try \in {1, 2} /\ s \in Slots /\ p \in Rpcs /\ pools[p].slots \cup {s} \in SUBSET Slots
      BY <1>0, <1>a, <1>b, <2>1, ThreadTypes DEF Slots, Using
    <2>3. CASE Finish(r) /\ UNCHANGED <<worker, pools>>
      <3>1. /\ \A q \in Rpcs \ {r} : rpc'[q] = rpc[q]
            /\ Alike(rpc'[r], rpc[r]) /\ rpc'[r].step = "done"
            /\ rpc'[r].slot = NoSlot /\ rpc'[r].left = {}
        BY <1>0, <2>3, FinishIs
      <3>2. CallersStand'
        BY <2>1, <3>1, CallersKept DEF LeaseInv
      <3>3. LeasedAreBusy' /\ LeasesAreExclusive'
        BY <2>3, <3>1, LeasesKept DEF LeaseInv, Leased
      <3>4. NewWorkersAreNew'
        BY <2>3, <3>1, NamesKept DEF LeaseInv, Unstarted, HasLease, Leased
      <3> QED
        BY <3>2, <3>3, <3>4 DEF Goal
    <2>4. CASE /\ worker' = [worker EXCEPT ![s] = [alive |-> TRUE, busy |-> TRUE,
                                                    version |-> disk[rpc[r].ext]]]
               /\ List(p, pools[p].slots \cup {s}) /\ Lease(r, s)
      <3>1. /\ \A q \in Rpcs \ {r} : rpc'[q] = rpc[q]
            /\ Alike(rpc'[r], rpc[r]) /\ rpc'[r].step = "invoke"
            /\ rpc'[r].slot = s /\ rpc'[r].try = rpc[r].try /\ rpc'[r].left = {}
        BY <1>0, <2>2, <2>4, LeaseIs
      <3>2. worker'[s].busy /\ \A x \in Slots \ {s} : worker'[x].busy = worker[x].busy
        BY <1>0, <2>2, <2>4
      <3>3. \A q \in Rpcs : pools'[q].slots \subseteq pools[q].slots \cup {s}
        BY <1>0, <2>2, <2>4, ListIs
      <3>4. \A q \in Rpcs : rpc[q].slot # s
        <4>1. Unstarted(r, rpc[r].try)
          BY <2>1, <2>2 DEF Unstarted, HasLease, Leased
        <4> QED
          BY <2>2, <4>1 DEF LeaseInv, NewWorkersAreNew, Unused
      <3>5. CallersStand'
        BY <2>1, <3>1, CallersKept DEF LeaseInv
      <3>6. LeasedAreBusy' /\ LeasesAreExclusive'
        <4>1. \A q \in Rpcs : rpc[q].step \in Leased =>
                 worker[rpc[q].slot].busy /\ rpc[q].slot \in Slots \ {s}
          BY <3>4 DEF LeaseInv, ThreadsOK, LeasedAreBusy, HasLease
        <4> HIDE DEF s, p
        <4> QED
          BY <3>1, <3>2, <4>1 DEF LeaseInv, LeasedAreBusy, LeasesAreExclusive, HasLease
      <3>7. NewWorkersAreNew'
        <4> SUFFICES ASSUME NEW q \in Rpcs, NEW t \in {1, 2}, Unstarted(q, t)'
                     PROVE  Unused(<<q, t>>)'
          BY DEF NewWorkersAreNew
        <4>1. Unstarted(q, t) /\ <<q, t>> # s
          BY <2>1, <2>2, <3>1 DEF Unstarted, HasLease, Leased
        <4>2. Unused(<<q, t>>)
          BY <4>1 DEF LeaseInv, NewWorkersAreNew
        <4> HIDE DEF s, p
        <4> QED
          BY <3>1, <3>3, <4>1, <4>2 DEF Unused
      <3> QED
        BY <3>5, <3>6, <3>7 DEF Goal
    <2> QED
      BY <2>1, <2>3, <2>4
  <1>11. ASSUME NEW r \in Rpcs, Discard(r) PROVE Goal
    <2>1. /\ rpc[r].step = "failed" /\ rpc[r].try = 1 /\ UNCHANGED waiter
          /\ Remove(rpc[r].pool, rpc[r].slot)
          /\ worker' = [worker EXCEPT ![rpc[r].slot] = [@ EXCEPT !.alive = FALSE]]
      BY <1>11 DEF Discard
    <2>2. rpc[r].pool \in Rpcs /\ rpc[r].slot \in Slots
      BY <1>a, <2>1 DEF LeaseInv, ThreadsOK, Using, Leased
    <2>3. /\ \A q \in Rpcs \ {r} : rpc'[q] = rpc[q]
          /\ Alike(rpc'[r], rpc[r]) /\ rpc'[r].step = "acquire"
          /\ rpc'[r].slot = NoSlot /\ rpc'[r].try = 2 /\ rpc'[r].left = rpc[r].left
      BY <1>0, <1>11, DiscardIs
    <2>4. \A x \in Slots : worker'[x].busy = worker[x].busy
      BY <1>0, <2>1, <2>2, KilledIs
    <2>5. \A q \in Rpcs : pools'[q].slots \subseteq pools[q].slots
      BY <1>0, <2>1, <2>2, RemoveIs
    <2>6. CallersStand'
      BY <2>1, <2>3, CallersKept DEF LeaseInv
    <2>7. LeasedAreBusy' /\ LeasesAreExclusive'
      BY <2>3, <2>4, LeasesKept DEF LeaseInv, ThreadsOK, Leased
    <2>8. NewWorkersAreNew'
      BY <2>1, <2>3, <2>5, NamesKept DEF LeaseInv, Unstarted, HasLease, Leased
    <2> QED
      BY <2>6, <2>7, <2>8 DEF Goal
  <1>12. ASSUME NEW r \in Rpcs, Release(r) PROVE Goal
    <2>1. /\ rpc[r].step \in {"release", "failed"} /\ UNCHANGED <<pools, waiter>> /\ Finish(r)
          /\ worker' = [worker EXCEPT ![rpc[r].slot] = [@ EXCEPT !.busy = FALSE]]
      BY <1>12 DEF Release
    <2>2. rpc[r].slot \in Slots /\ HasLease(r)
      BY <2>1 DEF LeaseInv, ThreadsOK, HasLease, Leased
    <2>3. /\ \A q \in Rpcs \ {r} : rpc'[q] = rpc[q]
          /\ Alike(rpc'[r], rpc[r]) /\ rpc'[r].step = "done"
          /\ rpc'[r].slot = NoSlot /\ rpc'[r].left = {}
      BY <1>0, <2>1, FinishIs
    <2>4. \A x \in Slots \ {rpc[r].slot} : worker'[x].busy = worker[x].busy
      BY <1>0, <2>1, <2>2, MarkIs
    <2>5. CallersStand'
      BY <2>1, <2>3, CallersKept DEF LeaseInv
    <2>6. \A q \in Rpcs \ {r} : rpc[q].step \in Leased => rpc[q].slot \in Slots \ {rpc[r].slot}
      BY <2>2 DEF LeaseInv, ThreadsOK, LeasesAreExclusive, HasLease
    <2>7. LeasedAreBusy' /\ LeasesAreExclusive'
      BY <2>3, <2>4, <2>6, LeasesKept DEF LeaseInv, Leased
    <2>8. NewWorkersAreNew'
      BY <2>1, <2>3, NamesKept DEF LeaseInv, Unstarted, HasLease, Leased
    <2> QED
      BY <2>5, <2>7, <2>8 DEF Goal
  <1>13. ASSUME NEW r \in Rpcs, NEW e \in Extensions, NEW accepted \in BOOLEAN, Call(r, e, accepted)
         PROVE  Goal
    <2>1. rpc[r].step = "idle" /\ waiter' = [waiter EXCEPT ![r] = "waiting"] /\ UNCHANGED <<pools, worker>>
      BY <1>13 DEF Call
    <2>2. /\ rpc'[r].step \in {"lookup", "done"}
          /\ rpc'[r].slot = NoSlot /\ rpc'[r].left = {} /\ rpc'[r].try = 1
          /\ rpc'[r].parent \in Rpcs => /\ rpc'[r].parent # r
                                        /\ rpc[rpc'[r].parent].step = "serving"
      BY <1>0, <1>13, CallIs
    <2>3. \A q \in Rpcs \ {r} :
             /\ Alike(rpc'[q], rpc[q])
             /\ rpc'[q].step = IF q = rpc'[r].parent THEN "hostcall" ELSE rpc[q].step
             /\ rpc'[q].slot = rpc[q].slot /\ rpc'[q].left = rpc[q].left /\ rpc'[q].try = rpc[q].try
      BY <1>0, <1>13, CallIs
    <2>4. \A q \in Rpcs : rpc'[q].step \in Leased => rpc[q].step \in Leased /\ rpc'[q].slot = rpc[q].slot
      BY <2>2, <2>3 DEF Leased
    <2>5. LeasedAreBusy' /\ LeasesAreExclusive'
      BY <2>1, <2>4, LeasesKept DEF LeaseInv
    <2>6. NewWorkersAreNew'
      BY <2>1, <2>2, <2>3, NamesKept DEF LeaseInv, Unstarted, HasLease, Leased
    <2>7. CallersStand'
      <3>1. waiter \in [Rpcs -> {"none", "waiting", "terminate", "closing", "over"}]
        BY DEF LeaseInv, StoreOK
      <3>2. \A q \in Rpcs : Waited(q) => q # r /\ rpc[q].parent \in Rpcs \ {r, rpc'[r].parent}
        BY <2>1, <2>2 DEF LeaseInv, CallersStand, Waited
      <3>3. \A q \in Rpcs \ {r} : Waited(q)' = Waited(q) /\ rpc'[q].parent = rpc[q].parent
        BY <2>1, <2>3, <3>1 DEF Waited, Alike
      <3>4. \A q \in Rpcs \ {r} : rpc'[q].step = "idle" => rpc[q].step = "idle"
        BY <2>3
      <3> QED
        BY <2>1, <2>2, <2>3, <3>1, <3>2, <3>3, <3>4 DEF LeaseInv, CallersStand, Waited
    <2> QED
      BY <2>5, <2>6, <2>7 DEF Goal
  <1>14. ASSUME NEW r \in Rpcs, Answered(r), waiter[r] \notin {"none", "over"},
                UNCHANGED <<pools, worker>>
         PROVE  Goal
    <2>1. \A q \in Rpcs :
             /\ Alike(rpc'[q], rpc[q])
             /\ rpc'[q].step = IF q = rpc[r].parent THEN "serving" ELSE rpc[q].step
             /\ rpc'[q].slot = rpc[q].slot /\ rpc'[q].left = rpc[q].left /\ rpc'[q].try = rpc[q].try
      BY <1>0, <1>14, AnsweredIs
    <2>2. waiter' = [waiter EXCEPT ![r] = "over"]
          /\ waiter \in [Rpcs -> {"none", "waiting", "terminate", "closing", "over"}]
      BY <1>14 DEF Answered, LeaseInv, StoreOK
    <2>3. rpc[r].parent \in Rpcs => rpc[rpc[r].parent].step = "hostcall"
      BY <1>14 DEF LeaseInv, CallersStand, Waited
    <2>4. \A q \in Rpcs : (rpc'[q].step \in Leased) = (rpc[q].step \in Leased)
      BY <2>1, <2>3 DEF Leased
    <2>5. LeasedAreBusy' /\ LeasesAreExclusive'
      BY <1>14, <2>1, <2>4, LeasesKept DEF LeaseInv
    <2>6. NewWorkersAreNew'
      BY <1>14, <2>1, <2>3, <2>4, NamesKept DEF LeaseInv, Unstarted, HasLease
    <2>7. CallersStand'
      <3>1. \A q \in Rpcs : Waited(q)' => /\ q # r /\ Waited(q) /\ rpc'[q].parent = rpc[q].parent
                                          /\ rpc[q].parent # rpc[r].parent
        BY <1>14, <2>1, <2>2 DEF Waited, Alike, LeaseInv, CallersStand
      <3>2. \A q \in Rpcs : rpc'[q].step = "idle" => q # r /\ rpc[q].step = "idle"
        BY <1>14, <2>1 DEF LeaseInv, CallersStand
      <3>3. ASSUME NEW q \in Rpcs, Waited(q)' PROVE rpc'[rpc'[q].parent].step = "hostcall"
        <4>1. /\ Waited(q) /\ rpc'[q].parent = rpc[q].parent
              /\ rpc[q].parent # rpc[r].parent /\ rpc[q].parent \in Rpcs
          BY <3>1, <3>3 DEF Waited
        <4>2. rpc[rpc[q].parent].step = "hostcall"
          BY <4>1 DEF LeaseInv, CallersStand
        <4> QED
          BY <2>1, <4>1, <4>2
      <3>4. \A q, x \in Rpcs : Waited(q)' /\ Waited(x)' /\ rpc'[q].parent = rpc'[x].parent => q = x
        BY <3>1 DEF LeaseInv, CallersStand
      <3>5. \A q \in Rpcs : rpc'[q].step = "idle" => waiter'[q] = "none"
        BY <2>2, <3>2 DEF LeaseInv, CallersStand
      <3> QED
        BY <3>3, <3>4, <3>5 DEF CallersStand
    <2> QED
      BY <2>5, <2>6, <2>7 DEF Goal
  <1>15. ASSUME UNCHANGED <<rpc, pools>>, \A s \in Slots : worker'[s].busy = worker[s].busy,
                \A r \in Rpcs : waiter'[r] # waiter[r] => waiter[r] # "none" /\ (Waited(r)' => Waited(r))
         PROVE  Goal
    <2>1. LeasedAreBusy' /\ LeasesAreExclusive'
      BY <1>15, LeasesKept DEF LeaseInv, ThreadsOK
    <2>2. NewWorkersAreNew'
      BY <1>15, NamesKept DEF LeaseInv, Unstarted, HasLease
    <2>3. CallersStand'
      BY <1>15 DEF LeaseInv, CallersStand, Waited
    <2> QED
      BY <2>1, <2>2, <2>3 DEF Goal
  <1>16. ASSUME NEW r \in Rpcs, Answer(r) \/ Timeout(r) \/ Abandon(r) \/ Terminate(r) \/ Terminated(r)
         PROVE  Goal
    <2>1. CASE Answered(r)
      BY <1>14, <1>16, <2>1 DEF Answer, Timeout, Abandon, Terminate, Terminated
    <2>2. CASE /\ UNCHANGED rpc
               /\ \E w \in {"over", "terminate", "closing"} : waiter' = [waiter EXCEPT ![r] = w]
               /\ waiter[r] \in {"waiting", "terminate"}
      BY <1>15, <1>16, <2>2 DEF Timeout, Abandon, Terminate, Answer, Terminated, Waited, LeaseInv, StoreOK
    <2> QED
      BY <1>16, <2>1, <2>2 DEF Answer, Timeout, Abandon, Terminate, Terminated
  <1>17. ASSUME NEW a \in Closers, NEW s \in Slots, Kill(a, s) PROVE Goal
    BY <1>0, <1>15, <1>17, KilledIs DEF Kill
  <1>18. ASSUME NEW s \in Slots, Die(s) PROVE Goal
    BY <1>0, <1>15, <1>18, KilledIs DEF Die
  <1>19. ASSUME UNCHANGED <<rpc, pools, worker, waiter>> PROVE Goal
    BY <1>15, <1>19
  <1>20. Goal
    BY <1>3, <1>4, <1>5, <1>6, <1>7, <1>8, <1>9, <1>10, <1>11, <1>12, <1>13, <1>16, <1>17, <1>18,
       <1>19, PoolSteps DEF Inspect, RemoveStale, Rebuild, vars
  <1> QED
    BY <1>20 DEF Goal

-----------------------------------------------------------------------------
(* Versions. *)

(* What almost every step does to a thread: a pool it goes by is one from    *)
(* the map and, once it uses it, no older than the call; a worker it leases  *)
(* is of its copy of the list, and that is of its pool.                      *)
Carries(q) ==
    /\ rpc'[q].ext = rpc[q].ext
    /\ rpc'[q].version \in {rpc[q].version, 0}
    /\ rpc'[q].pool \in {rpc[q].pool, cache[rpc[q].ext], None}
    /\ rpc'[q].step \in Poolless => rpc[q].step \in Poolless
    /\ rpc'[q].step \in Using => /\ rpc'[q].pool \in Rpcs
                                 /\ rpc[q].version <= pools[rpc'[q].pool].version
    /\ rpc'[q].step \in Leased => \/ rpc[q].step \in Leased /\ rpc'[q].slot = rpc[q].slot
                                  \/ rpc'[q].slot \in rpc[q].left
    /\ \/ rpc'[q].left \subseteq rpc[q].left
       \/ rpc[q].step \in Using /\ rpc'[q].left = pools[rpc[q].pool].slots

LEMMA Numbers ==
    ASSUME StoreOK, ThreadsOK
    PROVE  /\ \A e \in Extensions : disk[e] \in Nat /\ cache[e] \in Rpcs \cup {None}
           /\ \A p \in Rpcs : pools[p].version \in Nat /\ pools[p].slots \subseteq Slots
           /\ \A s \in Slots : worker[s].version \in Nat
           /\ \A r \in Rpcs : /\ rpc[r].version \in Nat /\ rpc[r].ext \in Extensions
                              /\ rpc[r].left \subseteq Slots /\ rpc[r].try \in {1, 2}
           /\ \A r \in Rpcs : rpc[r].step \in Leased => rpc[r].slot \in Slots
           /\ \A r \in Rpcs : rpc[r].step \in Using => rpc[r].pool \in Rpcs
  <1>1. Versions \subseteq Nat
    BY PoolAssumption DEF Versions
  <1> QED
    BY <1>1, ThreadTypes DEF StoreOK, ThreadsOK, Pools, Workers

LEMMA VersionsKept ==
    ASSUME PoolInv, StoreOK', ThreadsOK',
           \A e \in Extensions : disk[e] <= disk'[e],
           \A e \in Extensions : cache'[e] \in {cache[e], None},
           \A p \in Rpcs : /\ pools'[p].version = pools[p].version
                           /\ pools'[p].slots \subseteq pools[p].slots,
           \A s \in Slots : worker'[s].version = worker[s].version,
           \A q \in Rpcs : Carries(q)
    PROVE  VersionInv'
  <1>a. StoreOK /\ ThreadsOK /\ NewPoolsAreNew /\ DiskIsNewest /\ UsedAreCurrent /\ NoStaleBinary
    BY DEF PoolInv, LeaseInv, VersionInv
  <1>b. /\ \A e \in Extensions : disk[e] \in Nat /\ disk'[e] \in Nat /\ cache[e] \in Rpcs \cup {None}
        /\ \A p \in Rpcs : pools[p].version \in Nat /\ pools[p].slots \subseteq Slots
        /\ \A s \in Slots : worker[s].version \in Nat
        /\ \A r \in Rpcs : /\ rpc[r].version \in Nat /\ rpc[r].ext \in Extensions
                           /\ rpc[r].left \subseteq Slots
                           /\ rpc[r].step \in Leased => rpc[r].slot \in Slots
                           /\ rpc[r].step \in Using => rpc[r].pool \in Rpcs
    <2>1. \A e \in Extensions : disk'[e] \in Nat
      BY PoolAssumption DEF StoreOK, Versions
    <2> QED
      BY <1>a, <2>1, Numbers
  <1>1. NewPoolsAreNew'
    BY <1>a, <1>b, PoolAssumption DEF NewPoolsAreNew, Carries
  <1>2. DiskIsNewest'
    <2>1. ASSUME NEW r \in Rpcs PROVE rpc'[r].version <= disk'[rpc'[r].ext]
      BY <1>a, <1>b DEF DiskIsNewest, Carries
    <2>2. ASSUME NEW e \in Extensions, cache'[e] \in Rpcs PROVE pools'[cache'[e]].version <= disk'[e]
      BY <1>a, <1>b, <2>2, PoolAssumption DEF DiskIsNewest
    <2>3. ASSUME NEW r \in Rpcs, rpc'[r].pool \in Rpcs
          PROVE  pools'[rpc'[r].pool].version <= disk'[rpc'[r].ext]
      BY <1>a, <1>b, <2>3, PoolAssumption DEF DiskIsNewest, Carries
    <2> QED
      BY <2>1, <2>2, <2>3 DEF DiskIsNewest
  <1>3. UsedAreCurrent'
    <2>1. ASSUME NEW r \in Rpcs, rpc'[r].step \in Using
          PROVE  rpc'[r].version <= pools'[rpc'[r].pool].version
      BY <1>b, <2>1 DEF Carries
    <2>2. ASSUME NEW p \in Rpcs, NEW s \in pools'[p].slots PROVE pools'[p].version <= worker'[s].version
      BY <1>a, <1>b DEF UsedAreCurrent
    <2>3. ASSUME NEW r \in Rpcs, NEW s \in rpc'[r].left PROVE rpc'[r].version <= worker'[s].version
      <3>1. s \in Slots /\ rpc[r].version <= worker[s].version
        BY <1>a, <1>b DEF UsedAreCurrent, Carries
      <3> QED
        BY <1>b, <3>1 DEF Carries
    <2> QED
      BY <2>1, <2>2, <2>3 DEF UsedAreCurrent
  <1>4. NoStaleBinary'
    <2> SUFFICES ASSUME NEW r \in Rpcs, rpc'[r].step \in Leased
                 PROVE  worker'[rpc'[r].slot].version >= rpc'[r].version
      BY DEF NoStaleBinary, HasLease
    <2>1. rpc'[r].slot \in Slots /\ rpc[r].version <= worker[rpc'[r].slot].version
      BY <1>a, <1>b DEF NoStaleBinary, HasLease, UsedAreCurrent, Carries
    <2> QED
      BY <1>b, <2>1 DEF Carries
  <1> QED
    BY <1>1, <1>2, <1>3, <1>4 DEF VersionInv

(* A thread that goes on with the same pool, or without one. *)
LEMMA SameCarries ==
    ASSUME PoolInv, NEW q \in Rpcs,
           rpc'[q].ext = rpc[q].ext, rpc'[q].version \in {rpc[q].version, 0},
           rpc'[q].pool \in {rpc[q].pool, None},
           rpc'[q].left \subseteq rpc[q].left,
           rpc'[q].step \in Poolless => rpc[q].step \in Poolless,
           rpc'[q].step \in Using => rpc[q].step \in Using /\ rpc'[q].pool = rpc[q].pool,
           rpc'[q].step \in Leased => \/ rpc[q].step \in Leased /\ rpc'[q].slot = rpc[q].slot
                                      \/ rpc'[q].slot \in rpc[q].left
    PROVE  Carries(q)
  <1>1. StoreOK /\ ThreadsOK /\ UsedAreCurrent
    BY DEF PoolInv, LeaseInv, VersionInv
  <1> QED
    BY <1>1, Numbers DEF Carries, UsedAreCurrent

LEMMA OneCarries ==
    ASSUME PoolInv, NEW r \in Rpcs, Carries(r), \A q \in Rpcs \ {r} : rpc'[q] = rpc[q]
    PROVE  \A q \in Rpcs : Carries(q)
  <1>1. \A q \in Rpcs \ {r} : Carries(q)
    BY SameCarries
  <1> QED
    BY <1>1

(* A new pool has no workers, and the version of the call that creates it.   *)
LEMMA PutPoolCurrent ==
    ASSUME PoolInv, StoreOK', ThreadsOK', NEW r \in Rpcs, PutPool(r),
           rpc[r].step \in {"create", "insert"}, UNCHANGED <<disk, worker>>
    PROVE  VersionInv'
  <1>a. /\ StoreOK /\ ThreadsOK /\ NewPoolsAreNew /\ DiskIsNewest /\ UsedAreCurrent /\ NoStaleBinary
        /\ rpc \in [Rpcs -> Threads] /\ pools \in [Rpcs -> Pools]
        /\ cache \in [Extensions -> Rpcs \cup {None}]
    BY DEF PoolInv, LeaseInv, VersionInv, StoreOK, ThreadsOK
  <1>1. /\ \A q \in Rpcs \ {r} : rpc'[q] = rpc[q]
        /\ Alike(rpc'[r], rpc[r]) /\ rpc'[r].step = "acquire"
        /\ rpc'[r].version = rpc[r].version /\ rpc'[r].pool = r
        /\ rpc'[r].slot = rpc[r].slot /\ rpc'[r].left = rpc[r].left
    BY <1>a, GoByIs DEF PutPool, Steps
  <1>2. /\ pools'[r].version = rpc[r].version /\ pools'[r].slots = {}
        /\ \A q \in Rpcs \ {r} : pools'[q] = pools[q]
    BY <1>a, PutPoolIs
  <1>3. \A q \in Rpcs, e \in Extensions : rpc[q].pool # r /\ cache[e] # r
    BY <1>a DEF NewPoolsAreNew, Poolless
  <1>4. cache'[rpc[r].ext] = r /\ \A e \in Extensions \ {rpc[r].ext} : cache'[e] = cache[e]
    BY <1>a, Numbers DEF PutPool
  <1>5. NewPoolsAreNew'
    BY <1>a, <1>1, <1>4 DEF NewPoolsAreNew, Poolless
  <1>6. DiskIsNewest'
    <2>1. \A q \in Rpcs : rpc'[q].version <= disk'[rpc'[q].ext]
      BY <1>a, <1>1 DEF DiskIsNewest, Alike
    <2>2. \A e \in Extensions : cache'[e] \in Rpcs => pools'[cache'[e]].version <= disk'[e]
      BY <1>a, <1>2, <1>3, <1>4 DEF DiskIsNewest
    <2>3. ASSUME NEW q \in Rpcs, rpc'[q].pool \in Rpcs
          PROVE  pools'[rpc'[q].pool].version <= disk'[rpc'[q].ext]
      <3>1. CASE q = r
        BY <1>a, <1>1, <1>2, <3>1 DEF DiskIsNewest, Alike
      <3>2. CASE q # r
        <4>1. rpc'[q] = rpc[q] /\ pools'[rpc[q].pool] = pools[rpc[q].pool]
          BY <1>1, <1>2, <1>3, <2>3, <3>2, PoolAssumption
        <4> QED
          BY <1>a, <2>3, <4>1 DEF DiskIsNewest
      <3> QED
        BY <3>1, <3>2
    <2> QED
      BY <2>1, <2>2, <2>3 DEF DiskIsNewest
  <1>7. UsedAreCurrent'
    <2>1. \A q \in Rpcs : rpc'[q].step \in Using => rpc'[q].version <= pools'[rpc'[q].pool].version
      BY <1>a, <1>1, <1>2, <1>3, Numbers DEF UsedAreCurrent
    <2>2. \A q \in Rpcs : \A s \in pools'[q].slots : pools'[q].version <= worker'[s].version
      BY <1>a, <1>2 DEF UsedAreCurrent
    <2>3. \A q \in Rpcs : \A s \in rpc'[q].left : rpc'[q].version <= worker'[s].version
      BY <1>a, <1>1 DEF UsedAreCurrent
    <2> QED
      BY <2>1, <2>2, <2>3 DEF UsedAreCurrent
  <1>8. NoStaleBinary'
    BY <1>a, <1>1 DEF NoStaleBinary, HasLease, Leased
  <1> QED
    BY <1>5, <1>6, <1>7, <1>8 DEF VersionInv

(* A new worker is started from the binary on disk. *)
LEMMA SpawnCurrent ==
    ASSUME PoolInv, NEW r \in Rpcs, rpc[r].step = "scan",
           NEW s, s = <<r, rpc[r].try>>,
           worker' = [worker EXCEPT ![s] = [alive |-> TRUE, busy |-> TRUE,
                                            version |-> disk[rpc[r].ext]]],
           List(rpc[r].pool, pools[rpc[r].pool].slots \cup {s}), Lease(r, s),
           UNCHANGED <<disk, cache>>
    PROVE  VersionInv'
  <1>a. /\ StoreOK /\ ThreadsOK /\ NewPoolsAreNew /\ DiskIsNewest /\ UsedAreCurrent /\ NoStaleBinary
        /\ rpc \in [Rpcs -> Threads] /\ pools \in [Rpcs -> Pools]
        /\ worker \in [Slots -> Workers] /\ NewWorkersAreNew
    BY DEF PoolInv, LeaseInv, VersionInv, StoreOK, ThreadsOK
  <1> DEFINE p == rpc[r].pool
  <1>1. /\ p \in Rpcs /\ rpc[r].ext \in Extensions /\ rpc[r].try \in {1, 2} /\ s \in Slots
        /\ pools[p].slots \cup {s} \in SUBSET Slots
    BY <1>a, Numbers DEF Using, Slots
  <1>2. /\ \A q \in Rpcs \ {r} : rpc'[q] = rpc[q]
        /\ Alike(rpc'[r], rpc[r]) /\ rpc'[r].step = "invoke"
        /\ rpc'[r].version = rpc[r].version /\ rpc'[r].pool = p
        /\ rpc'[r].slot = s /\ rpc'[r].left = {}
    BY <1>a, <1>1, LeaseIs
  <1>3. /\ \A q \in Rpcs : pools'[q].version = pools[q].version
        /\ pools'[p].slots = pools[p].slots \cup {s}
        /\ \A q \in Rpcs \ {p} : pools'[q].slots = pools[q].slots
    BY <1>a, <1>1, ListIs
  <1>4. worker'[s].version = disk[rpc[r].ext] /\ \A x \in Slots \ {s} : worker'[x] = worker[x]
    BY <1>a, <1>1
  <1>5. \A q \in Rpcs : rpc[q].slot # s /\ s \notin rpc[q].left /\ s \notin pools[q].slots
    <2>1. Unstarted(r, rpc[r].try)
      BY <1>1 DEF Unstarted, HasLease, Leased
    <2> QED
      BY <1>a, <1>1, <2>1 DEF NewWorkersAreNew, Unused
  <1> HIDE DEF p
  <1>6. pools[p].version <= disk[rpc[r].ext] /\ rpc[r].version <= disk[rpc[r].ext]
    BY <1>a, <1>1 DEF DiskIsNewest, p
  <1>7. NewPoolsAreNew'
    BY <1>a, <1>2 DEF NewPoolsAreNew, Poolless, p
  <1>8. DiskIsNewest'
    BY <1>a, <1>2, <1>3, Numbers DEF DiskIsNewest, Alike, p
  <1>9. UsedAreCurrent'
    <2>1. \A q \in Rpcs : rpc'[q].step \in Using => rpc'[q].version <= pools'[rpc'[q].pool].version
      BY <1>a, <1>2, <1>3, Numbers DEF UsedAreCurrent, Using, p
    <2>2. \A q \in Rpcs : \A x \in pools'[q].slots : pools'[q].version <= worker'[x].version
      BY <1>a, <1>1, <1>3, <1>4, <1>5, <1>6, Numbers DEF UsedAreCurrent
    <2>3. \A q \in Rpcs : \A x \in rpc'[q].left : rpc'[q].version <= worker'[x].version
      BY <1>a, <1>2, <1>4, <1>5, Numbers DEF UsedAreCurrent
    <2> QED
      BY <2>1, <2>2, <2>3 DEF UsedAreCurrent
  <1>10. NoStaleBinary'
    <2>1. \A q \in Rpcs : HasLease(q) => rpc[q].slot \in Slots \ {s}
      BY <1>a, <1>5, Numbers DEF HasLease
    <2>2. worker'[rpc'[r].slot].version >= rpc'[r].version
      BY <1>a, <1>1, <1>2, <1>4, <1>6, Numbers
    <2> QED
      BY <1>a, <1>2, <1>4, <2>1, <2>2 DEF NoStaleBinary, HasLease
  <1> QED
    BY <1>7, <1>8, <1>9, <1>10 DEF VersionInv

LEMMA VersionNext ==
    ASSUME PoolInv, StoreOK', ThreadsOK', [Next]_vars
    PROVE  VersionInv'
  <1>a. /\ StoreOK /\ ThreadsOK /\ NewPoolsAreNew /\ DiskIsNewest /\ UsedAreCurrent /\ CallersStand
        /\ rpc \in [Rpcs -> Threads] /\ disk \in [Extensions -> Versions]
        /\ cache \in [Extensions -> Rpcs \cup {None}] /\ pools \in [Rpcs -> Pools]
        /\ worker \in [Slots -> Workers]
    BY DEF PoolInv, LeaseInv, VersionInv, StoreOK, ThreadsOK
  <1>b. /\ \A r \in Rpcs : rpc[r].ext \in Extensions /\ rpc[r].left \subseteq Slots
        /\ \A r \in Rpcs : rpc[r].step \in Using => rpc[r].pool \in Rpcs
        /\ \A r \in Rpcs : rpc[r].step \in Leased => rpc[r].slot \in Slots
        /\ \A r \in Rpcs : pools[r].slots \subseteq Slots
        /\ \A e \in Extensions : disk[e] \in Nat
        /\ \A r \in Rpcs : pools[r].version \in Nat
    BY <1>a, Numbers
  <1>c. /\ \A e \in Extensions : disk[e] <= disk[e]
        /\ \A p \in Rpcs : pools[p].slots \subseteq pools[p].slots
    BY <1>b
  <1>1. ASSUME NEW r \in Rpcs, NEW step \in Steps, Step(r, step),
               step \in Poolless => rpc[r].step \in Poolless,
               step \in Using => \/ rpc[r].step \in Using
                                 \/ /\ rpc[r].pool \in Rpcs
                                    /\ rpc[r].version <= pools[rpc[r].pool].version,
               step \in Leased => rpc[r].step \in Leased,
               UNCHANGED <<disk, pools, worker>>,
               \A e \in Extensions : cache'[e] \in {cache[e], None}
        PROVE  VersionInv'
    <2>1. /\ \A q \in Rpcs \ {r} : rpc'[q] = rpc[q]
          /\ Alike(rpc'[r], rpc[r])
          /\ rpc'[r].step = step /\ rpc'[r].version = rpc[r].version
          /\ rpc'[r].pool = rpc[r].pool /\ rpc'[r].slot = rpc[r].slot
          /\ rpc'[r].left = rpc[r].left
      BY <1>a, <1>1, StepIs
    <2>2. Carries(r)
      BY <1>a, <1>b, <1>1, <2>1 DEF Carries, Alike, UsedAreCurrent
    <2> QED
      BY <1>c, <1>1, <2>1, <2>2, OneCarries, VersionsKept
  <1>2. ASSUME NEW r \in Rpcs, NEW step \in {"acquire", "recheck"}, GoBy(r, step, cache[rpc[r].ext]),
               rpc[r].step \in Poolless, cache[rpc[r].ext] # None,
               step = "acquire" => pools[cache[rpc[r].ext]].version = rpc[r].version,
               UNCHANGED <<disk, cache, pools, worker>>
        PROVE  VersionInv'
    <2>1. step \in Steps /\ cache[rpc[r].ext] \in Rpcs
      BY <1>a, <1>b, <1>2 DEF Steps
    <2>2. /\ \A q \in Rpcs \ {r} : rpc'[q] = rpc[q]
          /\ Alike(rpc'[r], rpc[r])
          /\ rpc'[r].step = step /\ rpc'[r].version = rpc[r].version
          /\ rpc'[r].pool = cache[rpc[r].ext] /\ rpc'[r].left = rpc[r].left
      BY <1>a, <1>2, <2>1, GoByIs
    <2>3. Carries(r)
      BY <1>b, <1>2, <2>1, <2>2 DEF Carries, Alike, Using, Leased
    <2> QED
      BY <1>c, <1>2, <2>2, <2>3, OneCarries, VersionsKept
  <1>3. ASSUME NEW r \in Rpcs, Lookup(r) PROVE VersionInv'
    <2>1. {"create", "relock"} \subseteq Steps /\ {"create", "relock"} \cap Using = {}
      BY DEF Steps, Using, Leased
    <2>2. rpc[r].step \in Poolless /\ UNCHANGED <<disk, cache, pools, worker>>
      BY <1>3 DEF Lookup, Poolless
    <2>3. CASE Step(r, "create") \/ Step(r, "relock")
      BY <1>1, <2>1, <2>2, <2>3 DEF Using
    <2> QED
      BY <1>2, <1>3, <2>2, <2>3 DEF Lookup, Matches
  <1>4. ASSUME NEW r \in Rpcs, Create(r) \/ Insert(r) PROVE VersionInv'
    <2>1. rpc[r].step \in {"create", "insert"} /\ UNCHANGED <<disk, worker>>
      BY <1>4 DEF Create, Insert
    <2>2. CASE PutPool(r)
      BY <2>1, <2>2, PutPoolCurrent
    <2> QED
      BY <1>2, <1>4, <2>1, <2>2 DEF Create, Insert, Poolless
  <1>5. ASSUME NEW r \in Rpcs, Recheck(r) PROVE VersionInv'
    <2>1. /\ rpc[r].step = "recheck" /\ UNCHANGED <<disk, cache, pools, worker>>
          /\ \/ Step(r, "replace")
             \/ Step(r, "acquire") /\ pools[rpc[r].pool].version = disk[rpc[r].ext]
      BY <1>5 DEF Recheck, Matches
    <2>2. rpc[r].pool \in Rpcs /\ rpc[r].version <= disk[rpc[r].ext]
      BY <1>a, <2>1 DEF ThreadsOK, DiskIsNewest
    <2>3. /\ {"replace", "acquire"} \subseteq Steps /\ {"recheck", "replace"} \subseteq Poolless
          /\ {"replace", "acquire"} \cap Leased = {} /\ "replace" \notin Using
          /\ "acquire" \notin Poolless
      BY DEF Steps, Poolless, Leased, Using
    <2> QED
      BY <1>1, <2>1, <2>2, <2>3
  <1>6. ASSUME NEW r \in Rpcs, Replace(r) \/ Replaced(r) PROVE VersionInv'
    <2>1. /\ {"closing", "insert"} \subseteq Steps /\ {"closing", "insert"} \cap Using = {}
          /\ {"closing", "insert", "replace"} \subseteq Poolless
      BY DEF Steps, Using, Leased, Poolless
    <2>2. PICK step \in {"closing", "insert"} : Step(r, step)
      BY <1>6 DEF Replace, Replaced
    <2>3. /\ rpc[r].step \in Poolless /\ UNCHANGED <<disk, pools, worker>>
          /\ \A e \in Extensions : cache'[e] \in {cache[e], None}
      BY <1>a, <1>6, <2>1 DEF Replace, Replaced
    <2> QED
      BY <1>1, <2>1, <2>2, <2>3 DEF Using
  <1>7. ASSUME NEW r \in Rpcs, Sleep(r) \/ Invoke(r) \/ Respond(r) \/ Fail(r) PROVE VersionInv'
    <2>1. PICK step \in {"acquire", "serving", "failed", "release"} :
             Step(r, step) /\ (step # "acquire" => rpc[r].step \in Leased)
      BY <1>7 DEF Sleep, Invoke, Respond, Fail, Leased
    <2>2. step \in Steps /\ step \notin Poolless /\ (step = "acquire" => step \notin Leased)
      BY DEF Steps, Poolless, Leased
    <2>3. rpc[r].step \in Using /\ UNCHANGED <<disk, cache, pools, worker>>
      BY <1>7 DEF Sleep, Invoke, Respond, Fail, Using, Leased
    <2> QED
      BY <1>1, <2>1, <2>2, <2>3
  <1>8. ASSUME NEW r \in Rpcs, Scan(r) PROVE VersionInv'
    <2>1. rpc[r].step = "acquire" /\ UNCHANGED <<disk, cache, pools, worker>>
      BY <1>8 DEF Scan
    <2>2. rpc[r].pool \in Rpcs /\ rpc[r].step \in Using
      BY <1>b, <2>1 DEF Using
    <2>3. /\ \A q \in Rpcs \ {r} : rpc'[q] = rpc[q]
          /\ Alike(rpc'[r], rpc[r]) /\ rpc'[r].step = "scan" /\ rpc'[r].version = rpc[r].version
          /\ rpc'[r].pool = rpc[r].pool /\ rpc'[r].left = pools[rpc[r].pool].slots
      BY <1>a, <1>b, <1>8, <2>2, ScanIs
    <2>4. Carries(r)
      BY <1>a, <2>2, <2>3 DEF Carries, Alike, Poolless, Leased, UsedAreCurrent
    <2> QED
      BY <1>c, <2>1, <2>3, <2>4, OneCarries, VersionsKept
  <1>9. ASSUME NEW r \in Rpcs, NEW s \in Slots, Skip(r, s) \/ Bury(r, s) PROVE VersionInv'
    <2>1. /\ rpc[r].step = "scan" /\ UNCHANGED <<disk, cache>> /\ Walk(r, rpc[r].left \ {s})
          /\ rpc[r].left \ {s} \in SUBSET Slots
      BY <1>b, <1>9 DEF Skip, Bury
    <2>2. rpc[r].pool \in Rpcs /\ rpc[r].step \in Using
      BY <1>b, <2>1 DEF Using
    <2>3. /\ \A q \in Rpcs \ {r} : rpc'[q] = rpc[q]
          /\ Alike(rpc'[r], rpc[r]) /\ rpc'[r].step = "scan" /\ rpc'[r].version = rpc[r].version
          /\ rpc'[r].pool = rpc[r].pool /\ rpc'[r].left = rpc[r].left \ {s}
      BY <1>a, <2>1, WalkIs
    <2>4. Carries(r)
      BY <1>a, <2>1, <2>2, <2>3, SameCarries DEF Alike, Poolless, Leased
    <2>5. \A q \in Rpcs : /\ pools'[q].version = pools[q].version
                          /\ pools'[q].slots \subseteq pools[q].slots
      BY <1>a, <1>c, <1>9, <2>2, RemoveIs DEF Skip, Bury
    <2>6. \A x \in Slots : worker'[x].version = worker[x].version
      BY <1>a, <1>9, MarkIs DEF Skip, Bury
    <2> QED
      BY <1>c, <2>1, <2>3, <2>4, <2>5, <2>6, OneCarries, VersionsKept
  <1>10. ASSUME NEW r \in Rpcs, NEW s \in Slots, Acquire(r, s) PROVE VersionInv'
    <2>1. /\ rpc[r].step = "scan" /\ s \in rpc[r].left /\ Lease(r, s)
          /\ UNCHANGED <<disk, cache, pools>>
      BY <1>10 DEF Acquire
    <2>2. /\ \A q \in Rpcs \ {r} : rpc'[q] = rpc[q]
          /\ Alike(rpc'[r], rpc[r]) /\ rpc'[r].step = "invoke" /\ rpc'[r].version = rpc[r].version
          /\ rpc'[r].pool = rpc[r].pool /\ rpc'[r].left = {} /\ rpc'[r].slot = s
      BY <1>a, <2>1, LeaseIs
    <2>3. Carries(r)
      BY <2>1, <2>2, SameCarries DEF Alike, Poolless, Leased, Using
    <2>4. \A x \in Slots : worker'[x].version = worker[x].version
      BY <1>a, <1>10, MarkIs DEF Acquire
    <2> QED
      BY <1>c, <2>1, <2>2, <2>3, <2>4, OneCarries, VersionsKept
  <1>11. ASSUME NEW r \in Rpcs, Finish(r), UNCHANGED <<disk, cache, pools>>,
                \A x \in Slots : worker'[x].version = worker[x].version
         PROVE  VersionInv'
    <2>1. /\ \A q \in Rpcs \ {r} : rpc'[q] = rpc[q]
          /\ Alike(rpc'[r], rpc[r]) /\ rpc'[r].step = "done" /\ rpc'[r].version = 0
          /\ rpc'[r].pool = None /\ rpc'[r].left = {}
      BY <1>a, <1>11, FinishIs
    <2>2. Carries(r)
      BY <2>1, SameCarries DEF Alike, Poolless, Leased, Using
    <2> QED
      BY <1>c, <1>11, <2>1, <2>2, OneCarries, VersionsKept
  <1>12. ASSUME NEW r \in Rpcs, NEW started \in BOOLEAN, Spawn(r, started) PROVE VersionInv'
    <2> DEFINE s == <<r, rpc[r].try>>
    <2>1. /\ rpc[r].step = "scan" /\ UNCHANGED <<disk, cache>>
          /\ \/ /\ worker' = [worker EXCEPT ![s] = [alive |-> TRUE, busy |-> TRUE,
                                                    version |-> disk[rpc[r].ext]]]
                /\ List(rpc[r].pool, pools[rpc[r].pool].slots \cup {s}) /\ Lease(r, s)
             \/ Finish(r) /\ UNCHANGED <<worker, pools>>
      BY <1>12 DEF Spawn
    <2>2. CASE Finish(r) /\ UNCHANGED <<worker, pools>>
      BY <1>11, <2>1, <2>2
    <2> QED
      BY <2>1, <2>2, SpawnCurrent
  <1>13. ASSUME NEW r \in Rpcs, Discard(r) PROVE VersionInv'
    <2>1. /\ rpc[r].step = "failed" /\ UNCHANGED <<disk, cache>>
          /\ Remove(rpc[r].pool, rpc[r].slot)
          /\ worker' = [worker EXCEPT ![rpc[r].slot] = [@ EXCEPT !.alive = FALSE]]
      BY <1>13 DEF Discard
    <2>2. rpc[r].pool \in Rpcs /\ rpc[r].slot \in Slots /\ rpc[r].step \in Using
      BY <1>b, <2>1 DEF Using, Leased
    <2>3. /\ \A q \in Rpcs \ {r} : rpc'[q] = rpc[q]
          /\ Alike(rpc'[r], rpc[r]) /\ rpc'[r].step = "acquire" /\ rpc'[r].version = rpc[r].version
          /\ rpc'[r].pool = rpc[r].pool /\ rpc'[r].left = rpc[r].left
      BY <1>a, <1>13, DiscardIs
    <2>4. Carries(r)
      BY <2>2, <2>3, SameCarries DEF Alike, Poolless, Leased
    <2>5. \A x \in Slots : worker'[x].version = worker[x].version
      BY <1>a, <2>1, <2>2, KilledIs
    <2>6. \A q \in Rpcs : /\ pools'[q].version = pools[q].version
                          /\ pools'[q].slots \subseteq pools[q].slots
      BY <1>a, <2>1, <2>2, RemoveIs
    <2> QED
      BY <1>c, <2>1, <2>3, <2>4, <2>5, <2>6, OneCarries, VersionsKept
  <1>14. ASSUME NEW r \in Rpcs, Release(r) PROVE VersionInv'
    <2>1. /\ UNCHANGED <<disk, cache, pools>> /\ Finish(r) /\ rpc[r].slot \in Slots
          /\ worker' = [worker EXCEPT ![rpc[r].slot] = [@ EXCEPT !.busy = FALSE]]
      BY <1>b, <1>14 DEF Release, Leased
    <2>2. \A x \in Slots : worker'[x].version = worker[x].version
      BY <1>a, <2>1, MarkIs
    <2> QED
      BY <1>11, <2>1, <2>2
  <1>15. ASSUME NEW r \in Rpcs, NEW e \in Extensions, NEW accepted \in BOOLEAN, Call(r, e, accepted)
         PROVE  VersionInv'
    <2>1. rpc[r].step = "idle" /\ UNCHANGED <<disk, cache, pools, worker>>
      BY <1>15 DEF Call
    <2>2. /\ rpc'[r].step \in {"lookup", "done"} /\ rpc'[r].ext = e
          /\ rpc'[r].version <= disk[e]
          /\ rpc'[r].pool = None /\ rpc'[r].left = {}
          /\ rpc'[r].parent \in Rpcs => rpc[rpc'[r].parent].step = "serving"
      BY <1>a, <1>15, CallIs
    <2>3. \A q \in Rpcs \ {r} :
             /\ rpc'[q].ext = rpc[q].ext
             /\ rpc'[q].step = IF q = rpc'[r].parent THEN "hostcall" ELSE rpc[q].step
             /\ rpc'[q].version = rpc[q].version
             /\ rpc'[q].pool = rpc[q].pool /\ rpc'[q].slot = rpc[q].slot
             /\ rpc'[q].left = rpc[q].left
      BY <1>a, <1>15, CallIs DEF Alike
    <2>4. \A q \in Rpcs \ {r} : /\ rpc'[q].step \in Poolless => rpc[q].step \in Poolless
                                /\ rpc'[q].step \in Using => rpc[q].step \in Using
                                /\ rpc'[q].step \in Leased => rpc[q].step \in Leased
      BY <2>2, <2>3 DEF Poolless, Using, Leased
    <2>5. rpc'[r].step \notin Using /\ rpc'[r].step \notin Leased /\ rpc[r].step \in Poolless
      BY <2>1, <2>2 DEF Poolless, Using, Leased
    <2>6. NewPoolsAreNew'
      <3>1. \A q \in Rpcs : rpc'[q].step \in Poolless => rpc[q].step \in Poolless
        <4>1. ASSUME NEW q \in Rpcs PROVE rpc'[q].step \in Poolless => rpc[q].step \in Poolless
          BY <2>4, <2>5, q = r \/ q \in Rpcs \ {r}
        <4> QED
          BY <4>1
      <3>2. \A q \in Rpcs : rpc'[q].pool \in {rpc[q].pool, None}
        BY <2>2, <2>3
      <3> QED
        BY <1>a, <2>1, <3>1, <3>2, PoolAssumption DEF NewPoolsAreNew
    <2>7. DiskIsNewest'
      <3>1. \A q \in Rpcs : rpc'[q].version <= disk[rpc'[q].ext]
        BY <1>a, <2>2, <2>3 DEF DiskIsNewest
      <3>2. \A q \in Rpcs : rpc'[q].pool \in Rpcs =>
                /\ rpc'[q].pool = rpc[q].pool /\ rpc'[q].ext = rpc[q].ext
        BY <2>2, <2>3, PoolAssumption
      <3> QED
        BY <1>a, <2>1, <3>1, <3>2 DEF DiskIsNewest
    <2>8. UsedAreCurrent'
      <3>1. ASSUME NEW q \in Rpcs, rpc'[q].step \in Using
            PROVE  /\ rpc[q].step \in Using
                   /\ rpc'[q].pool = rpc[q].pool /\ rpc'[q].version = rpc[q].version
        BY <2>3, <2>4, <2>5, <3>1, q = r \/ q \in Rpcs \ {r}
      <3>2. \A q \in Rpcs : \A s \in rpc'[q].left :
                s \in rpc[q].left /\ rpc'[q].version = rpc[q].version
        BY <2>2, <2>3
      <3> QED
        BY <1>a, <2>1, <3>1, <3>2 DEF UsedAreCurrent
    <2>9. NoStaleBinary'
      <3>1. ASSUME NEW q \in Rpcs, rpc'[q].step \in Leased
            PROVE  /\ rpc[q].step \in Leased
                   /\ rpc'[q].slot = rpc[q].slot /\ rpc'[q].version = rpc[q].version
        BY <2>3, <2>4, <2>5, <3>1, q = r \/ q \in Rpcs \ {r}
      <3> QED
        BY <2>1, <3>1 DEF NoStaleBinary, HasLease, PoolInv, VersionInv
    <2> QED
      BY <2>6, <2>7, <2>8, <2>9 DEF VersionInv
  <1>16. ASSUME NEW r \in Rpcs, Answered(r), waiter[r] \notin {"none", "over"},
                UNCHANGED <<disk, pools, worker>>,
                \A e \in Extensions : cache'[e] \in {cache[e], None}
         PROVE  VersionInv'
    <2>1. \A q \in Rpcs :
             /\ rpc'[q].ext = rpc[q].ext
             /\ rpc'[q].step = IF q = rpc[r].parent THEN "serving" ELSE rpc[q].step
             /\ rpc'[q].version = rpc[q].version
             /\ rpc'[q].pool = rpc[q].pool /\ rpc'[q].slot = rpc[q].slot
             /\ rpc'[q].left = rpc[q].left
      BY <1>a, <1>16, AnsweredIs DEF Alike
    <2>2. rpc[r].parent \in Rpcs => rpc[rpc[r].parent].step = "hostcall"
      BY <1>a, <1>16 DEF CallersStand, Waited
    <2>3. \A q \in Rpcs : /\ rpc'[q].step \in Poolless => rpc[q].step \in Poolless
                          /\ rpc'[q].step \in Using => rpc[q].step \in Using
                          /\ rpc'[q].step \in Leased => rpc[q].step \in Leased
      BY <2>1, <2>2 DEF Poolless, Using, Leased
    <2>4. \A q \in Rpcs : Carries(q)
      BY <2>1, <2>3, SameCarries
    <2> QED
      BY <1>c, <1>16, <2>4, VersionsKept
  <1>17. ASSUME UNCHANGED <<rpc, pools>>, \A s \in Slots : worker'[s].version = worker[s].version,
                \A e \in Extensions : disk[e] <= disk'[e] /\ cache'[e] \in {cache[e], None}
         PROVE  VersionInv'
    <2>1. \A q \in Rpcs : Carries(q)
      BY <1>17, SameCarries
    <2> QED
      BY <1>c, <1>17, <2>1, VersionsKept
  <1>18. ASSUME NEW r \in Rpcs, Answer(r) \/ Timeout(r) \/ Abandon(r) \/ Terminate(r) \/ Terminated(r)
         PROVE  VersionInv'
    <2>1. UNCHANGED <<disk, pools, worker>> /\ \A e \in Extensions : cache'[e] \in {cache[e], None}
      BY <1>a, <1>18 DEF Answer, Timeout, Abandon, Terminate, Terminated
    <2>2. \/ Answered(r) /\ waiter[r] \notin {"none", "over"}
          \/ UNCHANGED rpc
      BY <1>18 DEF Answer, Timeout, Abandon, Terminate, Terminated
    <2> QED
      BY <1>c, <1>16, <1>17, <2>1, <2>2
  <1>19. ASSUME NEW a \in Closers, NEW s \in Slots, Kill(a, s) PROVE VersionInv'
    BY <1>a, <1>c, <1>17, <1>19, KilledIs DEF Kill
  <1>20. ASSUME NEW s \in Slots, Die(s) PROVE VersionInv'
    BY <1>a, <1>c, <1>17, <1>20, KilledIs DEF Die
  <1>21. ASSUME NEW e \in Extensions, Rebuild(e) PROVE VersionInv'
    <2>1. \A x \in Extensions : disk[x] <= disk'[x]
      BY <1>a, <1>b, <1>21 DEF Rebuild
    <2> QED
      BY <1>17, <1>21, <2>1 DEF Rebuild
  <1>22. ASSUME UNCHANGED <<disk, rpc, pools, worker>>,
                \A e \in Extensions : cache'[e] \in {cache[e], None}
         PROVE  VersionInv'
    BY <1>c, <1>17, <1>22
  <1>23. ASSUME NEW e \in Extensions, NEW p \in Rpcs, RemoveStale(e, p) PROVE VersionInv'
    BY <1>a, <1>22, <1>23 DEF RemoveStale
  <1> QED
    BY <1>3, <1>4, <1>5, <1>6, <1>7, <1>8, <1>9, <1>10, <1>12, <1>13, <1>14, <1>15, <1>18,
       <1>19, <1>20, <1>21, <1>22, <1>23, PoolSteps DEF Inspect, vars

-----------------------------------------------------------------------------
LEMMA PoolInductive == PoolInv /\ [Next]_vars => PoolInv'
  <1> SUFFICES ASSUME PoolInv, [Next]_vars PROVE PoolInv'
    OBVIOUS
  <1>1. StoreOK' /\ ThreadsOK'
    BY StoreNext, ThreadsNext DEF PoolInv, LeaseInv
  <1>2. VersionInv'
    BY <1>1, VersionNext
  <1>3. CallersStand' /\ LeasedAreBusy' /\ NewWorkersAreNew' /\ LeasesAreExclusive'
    BY LeaseNext DEF PoolInv
  <1> QED
    BY <1>1, <1>2, <1>3 DEF PoolInv, LeaseInv

LEMMA PoolInvariant == Safety => []PoolInv
  BY PoolInitially, PoolInductive, PTL DEF Safety

(* Every state has the types of PoolTypeOK: above all, a thread that talks   *)
(* to a worker has leased it from a pool (invoke_process).                   *)
THEOREM PoolTypeCorrect == Safety => []PoolTypeOK
  <1>1. PoolInv => PoolTypeOK
    BY DEF PoolInv, LeaseInv, StoreOK, ThreadsOK, Using, PoolTypeOK
  <1> QED
    BY <1>1, PoolInvariant, PTL

(* No two calls hold the same worker, for any number of calls, workers and   *)
(* rebuilds, and whoever calls whom (try_acquire and ProcessWorkerLease).    *)
THEOREM LeasesExclusive == Safety => []LeasesAreExclusive
  <1>1. PoolInv => LeasesAreExclusive
    BY DEF PoolInv, LeaseInv
  <1> QED
    BY <1>1, PoolInvariant, PTL

(* No call is served by a worker older than the binary that was on disk when *)
(* the call was made (process_pool and spawn_process).                       *)
THEOREM NoBinaryIsStale == Safety => []NoStaleBinary
  <1>1. PoolInv => NoStaleBinary
    BY DEF PoolInv, VersionInv
  <1> QED
    BY <1>1, PoolInvariant, PTL
==============================================================================
