----------------------------- MODULE WorkerPool -----------------------------
(***************************************************************************)
(* The process workers of extensions (extension-host/src/worker.rs) and    *)
(* the calls that use them (dispatch_extension_rpc in server/src/app.rs).  *)
(*                                                                         *)
(* A call is two actors: a blocking thread that finds the pool of the      *)
(* extension, leases one of its workers or starts one, and talks to it;    *)
(* and the task that waits for the thread with a timeout, and terminates   *)
(* the extension's pool when that is over.  While it serves a call, a      *)
(* worker may call the host, which may call an extension in turn.  The     *)
(* registry's refresh removes pools that are out of date.                  *)
(*                                                                         *)
(* Each mutex is held for one step, with two exceptions: the handle of a   *)
(* worker during an invocation, and the map of pools in process_pool.      *)
(***************************************************************************)
EXTENDS Naturals, FiniteSets

CONSTANTS
    Rpcs,        \* calls, each made once
    Extensions,  \* extensions with a process worker
    Removable,   \* extensions that may be disabled or removed, and come back
    Client,      \* the caller of a call no worker made
    Calls,       \* pairs: which extension's worker, or the client, calls which extension
    Refresher,   \* the task that refreshes the registry
    None,        \* no pool; nobody holds the map of pools
    MaxSize,     \* workers of a pool (4 in the code)
    MaxVersion   \* bound on the rebuilds of a worker's binary

ASSUME PoolAssumption ==
    /\ Extensions # {}
    /\ Removable \subseteq Extensions
    /\ Calls \subseteq (Extensions \cup {Client}) \X Extensions
    /\ Client \notin Rpcs /\ Refresher \notin Rpcs /\ None \notin Rpcs
    /\ Refresher # Client /\ None # Client /\ None # Refresher
    /\ MaxSize \in Nat \ {0}
    /\ MaxVersion \in Nat

(* A pool is named for the call that created it, and a worker for the call   *)
(* that started it and whether that was its first or second attempt.         *)
Slots   == Rpcs \X {1, 2}
NoSlot  == <<None, 1>>
Closers == (Rpcs \X {"thread", "waiter"}) \cup {Refresher}

VARIABLES
    disk,     \* version (mtime and size) of each extension's binary
    cache,    \* processes: the pool of each extension
    lock,     \* who holds the mutex of processes from one step to the next
    pools,    \* each pool's fingerprint and list of slots
    worker,   \* each worker process and its busy flag
    rpc,      \* where the thread of each call stands
    waiter,   \* where the task that waits for it stands
    closing,  \* what each shutdown_all under way has still to kill
    stale     \* pools the refresh has still to remove

vars == <<disk, cache, lock, pools, worker, rpc, waiter, closing, stale>>

Versions == 0..MaxVersion
Leased   == {"invoke", "serving", "hostcall", "failed", "release"}
Steps    == {"idle", "lookup", "relock", "create", "recheck", "replace", "closing",
             "insert", "acquire", "scan", "done"} \cup Leased
Pools    == [version : Versions, slots : SUBSET Slots]
Workers  == [alive : BOOLEAN, busy : BOOLEAN, version : Versions]
Threads  == [step : Steps, ext : Extensions, parent : Rpcs \cup {Client}, version : Versions,
             pool : Rpcs \cup {None}, slot : Slots \cup {NoSlot},
             left : SUBSET Slots, room : BOOLEAN, try : {1, 2}]

(* Type correctness of the map, the pools and every actor; a thread that     *)
(* talks to a worker has leased it from a pool.                              *)
PoolTypeOK ==
    /\ disk \in [Extensions -> Versions]
    /\ cache \in [Extensions -> Rpcs \cup {None}]
    /\ lock \in Rpcs \cup {None}
    /\ pools \in [Rpcs -> Pools]
    /\ worker \in [Slots -> Workers]
    /\ rpc \in [Rpcs -> Threads]
    /\ \A r \in Rpcs : rpc[r].step \in Leased => rpc[r].slot \in Slots /\ rpc[r].pool \in Rpcs
    /\ waiter \in [Rpcs -> {"none", "waiting", "terminate", "closing", "over"}]
    /\ closing \in [Closers -> SUBSET Slots]
    /\ stale \subseteq Extensions \X Rpcs

(* A thread that has neither found a pool nor leased a worker. *)
Thread(step, e, parent, version) ==
    [step |-> step, ext |-> e, parent |-> parent, version |-> version,
     pool |-> None, slot |-> NoSlot, left |-> {}, room |-> FALSE, try |-> 1]

Init ==
    /\ disk = [e \in Extensions |-> 0]
    /\ cache = [e \in Extensions |-> None]
    /\ lock = None
    /\ pools = [p \in Rpcs |-> [version |-> 0, slots |-> {}]]
    /\ worker = [s \in Slots |-> [alive |-> FALSE, busy |-> FALSE, version |-> 0]]
    /\ rpc = [r \in Rpcs |->
                Thread("idle", CHOOSE e \in Extensions : TRUE, Client, 0)]
    /\ waiter = [r \in Rpcs |-> "none"]
    /\ closing = [a \in Closers |-> {}]
    /\ stale = {}

-----------------------------------------------------------------------------
(* What a thread goes through. *)

Step(r, step)    == rpc' = [rpc EXCEPT ![r] = [@ EXCEPT !.step = step]]
GoBy(r, step, p) == rpc' = [rpc EXCEPT ![r] = [@ EXCEPT !.step = step, !.pool = p]]
Walk(r, left)    == rpc' = [rpc EXCEPT ![r] = [@ EXCEPT !.left = left]]
Lease(r, s)      == rpc' = [rpc EXCEPT ![r] = [@ EXCEPT !.step = "invoke", !.slot = s,
                                                        !.left = {}, !.room = FALSE]]
Finish(r)        == rpc' = [rpc EXCEPT ![r] = Thread("done", @.ext, @.parent, 0)]

-----------------------------------------------------------------------------
(* shutdown_all, of a pool that was just removed from the map: its slots are *)
(* listed (what others do to the list in between commutes with the removal), *)
(* then each is killed, in any order, once its handle can be locked, which   *)
(* an invocation holds until it ends.                                        *)

Held(s) == \E r \in Rpcs : rpc[r].step \in {"serving", "hostcall"} /\ rpc[r].slot = s

StartClosing(a, p) == closing' = [closing EXCEPT ![a] = pools[p].slots]

Kill(a, s) ==
    /\ s \in closing[a]
    /\ ~Held(s)
    /\ worker' = [worker EXCEPT ![s] = [@ EXCEPT !.alive = FALSE]]
    /\ closing' = [closing EXCEPT ![a] = @ \ {s}]
    /\ UNCHANGED <<disk, cache, lock, pools, rpc, waiter, stale>>

-----------------------------------------------------------------------------
(* dispatch_extension_rpc: start the thread and wait for it. *)

(* Made by a client, or by the worker that serves call q; the fingerprint of *)
(* the binary is read at once.  A call that is refused (no such extension,   *)
(* worker or method, a payload too large) is over.                           *)
Call(r, e, accepted) ==
    /\ rpc[r].step = "idle"
    /\ \E q \in Rpcs \cup {Client} :
        LET started == [rpc EXCEPT ![r] = IF accepted THEN Thread("lookup", e, q, disk[e])
                                          ELSE Thread("done", e, q, 0)] IN
        \/ q = Client /\ <<Client, e>> \in Calls /\ rpc' = started
        \/ /\ q \in Rpcs /\ rpc[q].step = "serving" /\ <<rpc[q].ext, e>> \in Calls
           /\ worker[rpc[q].slot].alive
           /\ rpc' = [started EXCEPT ![q] = [@ EXCEPT !.step = "hostcall"]]
    /\ waiter' = [waiter EXCEPT ![r] = "waiting"]
    /\ UNCHANGED <<disk, cache, lock, pools, worker, closing, stale>>

(* The answer or the error goes back to the worker that made the call. *)
Answered(r) ==
    /\ waiter' = [waiter EXCEPT ![r] = "over"]
    /\ \/ rpc[r].parent = Client /\ UNCHANGED rpc
       \/ rpc[r].parent # Client /\ Step(rpc[r].parent, "serving")

Answer(r) ==
    /\ waiter[r] = "waiting" /\ rpc[r].step = "done"
    /\ Answered(r)
    /\ UNCHANGED <<disk, cache, lock, pools, worker, closing, stale>>

(* A client gives up, or its HTTP request times out: nobody waits.  A host   *)
(* call is waited for with block_on.                                         *)
Abandon(r) ==
    /\ waiter[r] = "waiting" /\ rpc[r].parent = Client
    /\ waiter' = [waiter EXCEPT ![r] = "over"]
    /\ UNCHANGED <<disk, cache, lock, pools, worker, rpc, closing, stale>>

(* The timeout: the thread is left alone, its extension is terminated.  The  *)
(* setting is read for each call, so timers fire in any order.               *)
Timeout(r) ==
    /\ waiter[r] = "waiting" /\ rpc[r].step # "done"
    /\ waiter' = [waiter EXCEPT ![r] = "terminate"]
    /\ UNCHANGED <<disk, cache, lock, pools, worker, rpc, closing, stale>>

(* terminate_extension: remove_process, then shutdown_all. *)
Terminate(r) ==
    /\ waiter[r] = "terminate" /\ lock = None
    /\ LET e == rpc[r].ext IN
       \/ /\ cache[e] # None
          /\ cache' = [cache EXCEPT ![e] = None]
          /\ StartClosing(<<r, "waiter">>, cache[e])
          /\ waiter' = [waiter EXCEPT ![r] = "closing"]
          /\ UNCHANGED rpc
       \/ /\ cache[e] = None
          /\ Answered(r)
          /\ UNCHANGED <<cache, closing>>
    /\ UNCHANGED <<disk, lock, pools, worker, stale>>

Terminated(r) ==
    /\ waiter[r] = "closing" /\ closing[<<r, "waiter">>] = {}
    /\ Answered(r)
    /\ UNCHANGED <<disk, cache, lock, pools, worker, closing, stale>>

-----------------------------------------------------------------------------
(* process_pool *)

(* A mutant: matches compares the path only. *)
MatchesPath(p, version) == TRUE

Matches(p, version) == pools[p].version = version

(* A pool of another version is to be removed, but the guard of the lookup   *)
(* lives until the end of the "if let" around it: the thread goes on to lock *)
(* a mutex that it holds.                                                    *)
Lookup(r) ==
    /\ rpc[r].step = "lookup" /\ lock = None
    /\ LET p == cache[rpc[r].ext] IN
       \/ p = None /\ Step(r, "create") /\ UNCHANGED lock
       \/ p # None /\ Matches(p, rpc[r].version) /\ GoBy(r, "acquire", p) /\ UNCHANGED lock
       \/ p # None /\ ~Matches(p, rpc[r].version) /\ Step(r, "relock") /\ lock' = r
    /\ UNCHANGED <<disk, cache, pools, worker, waiter, closing, stale>>

(* The new pool goes into the map. *)
PutPool(r) ==
    /\ cache' = [cache EXCEPT ![rpc[r].ext] = r]
    /\ pools' = [pools EXCEPT ![r] = [version |-> rpc[r].version, slots |-> {}]]
    /\ GoBy(r, "acquire", r)

(* Another thread may have put a pool there meanwhile. *)
Create(r) ==
    /\ rpc[r].step = "create" /\ lock = None
    /\ LET p == cache[rpc[r].ext] IN
       \/ p = None /\ PutPool(r)
       \/ p # None /\ GoBy(r, "recheck", p) /\ UNCHANGED <<cache, pools>>
    /\ UNCHANGED <<disk, lock, worker, waiter, closing, stale>>

(* The fingerprint is read again, without the mutex. *)
Recheck(r) ==
    /\ rpc[r].step = "recheck"
    /\ IF Matches(rpc[r].pool, disk[rpc[r].ext]) THEN Step(r, "acquire") ELSE Step(r, "replace")
    /\ UNCHANGED <<disk, cache, lock, pools, worker, waiter, closing, stale>>

(* remove_process_if_current *)
Replace(r) ==
    /\ rpc[r].step = "replace" /\ lock = None
    /\ LET p == rpc[r].pool
           e == rpc[r].ext IN
       \/ /\ cache[e] = p
          /\ cache' = [cache EXCEPT ![e] = None]
          /\ StartClosing(<<r, "thread">>, p)
          /\ Step(r, "closing")
       \/ /\ cache[e] # p
          /\ Step(r, "insert")
          /\ UNCHANGED <<cache, closing>>
    /\ UNCHANGED <<disk, lock, pools, worker, waiter, stale>>

Replaced(r) ==
    /\ rpc[r].step = "closing" /\ closing[<<r, "thread">>] = {}
    /\ Step(r, "insert")
    /\ UNCHANGED <<disk, cache, lock, pools, worker, waiter, closing, stale>>

(* Whatever is in the map by now is overwritten. *)
Insert(r) ==
    /\ rpc[r].step = "insert" /\ lock = None
    /\ PutPool(r)
    /\ UNCHANGED <<disk, lock, worker, waiter, closing, stale>>

-----------------------------------------------------------------------------
(* acquire_or_spawn *)

(* The list of slots is copied; its length decides later whether to spawn. *)
Scan(r) ==
    /\ rpc[r].step = "acquire"
    /\ LET slots == pools[rpc[r].pool].slots IN
       rpc' = [rpc EXCEPT ![r] = [@ EXCEPT !.step = "scan", !.left = slots,
                                           !.room = Cardinality(slots) < MaxSize]]
    /\ UNCHANGED <<disk, cache, lock, pools, worker, waiter, closing, stale>>

Skip(r, s) ==
    /\ rpc[r].step = "scan" /\ s \in rpc[r].left
    /\ worker[s].busy
    /\ Walk(r, rpc[r].left \ {s})
    /\ UNCHANGED <<disk, cache, lock, pools, worker, waiter, closing, stale>>

(* A mutant: the flag is set whatever it was. *)
AcquireBusy(r, s) ==
    /\ rpc[r].step = "scan" /\ s \in rpc[r].left
    /\ worker[s].alive
    /\ worker' = [worker EXCEPT ![s] = [@ EXCEPT !.busy = TRUE]]
    /\ Lease(r, s)
    /\ UNCHANGED <<disk, cache, lock, pools, waiter, closing, stale>>

(* try_acquire, and the worker is alive: it is leased. *)
Acquire(r, s) ==
    /\ rpc[r].step = "scan" /\ s \in rpc[r].left
    /\ ~worker[s].busy /\ worker[s].alive
    /\ worker' = [worker EXCEPT ![s] = [@ EXCEPT !.busy = TRUE]]
    /\ Lease(r, s)
    /\ UNCHANGED <<disk, cache, lock, pools, waiter, closing, stale>>

List(p, slots) == pools' = [pools EXCEPT ![p] = [@ EXCEPT !.slots = slots]]
Remove(p, s)   == List(p, pools[p].slots \ {s})

(* try_acquire, and the worker is dead: its slot is discarded and stays busy *)
(* for those who copied the list before.                                     *)
Bury(r, s) ==
    /\ rpc[r].step = "scan" /\ s \in rpc[r].left
    /\ ~worker[s].busy /\ ~worker[s].alive
    /\ worker' = [worker EXCEPT ![s] = [@ EXCEPT !.busy = TRUE]]
    /\ Remove(rpc[r].pool, s)
    /\ Walk(r, rpc[r].left \ {s})
    /\ UNCHANGED <<disk, cache, lock, waiter, closing, stale>>

(* None is free and the copied list was short: a worker is started from the  *)
(* binary as it is now and pushed onto the list as it is now, or cannot be   *)
(* started, which ends the call.                                             *)
Spawn(r, started) ==
    /\ rpc[r].step = "scan" /\ rpc[r].left = {} /\ rpc[r].room
    /\ LET s == <<r, rpc[r].try>>
           p == rpc[r].pool IN
       \/ /\ started
          /\ worker' = [worker EXCEPT ![s] = [alive |-> TRUE, busy |-> TRUE,
                                              version |-> disk[rpc[r].ext]]]
          /\ List(p, pools[p].slots \cup {s})
          /\ Lease(r, s)
       \/ /\ ~started
          /\ Finish(r)
          /\ UNCHANGED <<worker, pools>>
    /\ UNCHANGED <<disk, cache, lock, waiter, closing, stale>>

(* None is free and the list was full: sleep and start over. *)
Sleep(r) ==
    /\ rpc[r].step = "scan" /\ rpc[r].left = {} /\ ~rpc[r].room
    /\ Step(r, "acquire")
    /\ UNCHANGED <<disk, cache, lock, pools, worker, waiter, closing, stale>>

-----------------------------------------------------------------------------
(* invoke_process and the end of the lease *)

Invoke(r) ==
    /\ rpc[r].step = "invoke" /\ ~Held(rpc[r].slot)
    /\ Step(r, IF worker[rpc[r].slot].alive THEN "serving" ELSE "failed")
    /\ UNCHANGED <<disk, cache, lock, pools, worker, waiter, closing, stale>>

Respond(r) ==
    /\ rpc[r].step = "serving" /\ worker[rpc[r].slot].alive
    /\ Step(r, "release")
    /\ UNCHANGED <<disk, cache, lock, pools, worker, waiter, closing, stale>>

(* The worker has died, or what it says cannot be read. *)
Fail(r) ==
    /\ rpc[r].step = "serving"
    /\ Step(r, "failed")
    /\ UNCHANGED <<disk, cache, lock, pools, worker, waiter, closing, stale>>

(* A mutant: the call is repeated with the lease that was discarded. *)
DiscardAndRetry(r) ==
    /\ rpc[r].step = "failed" /\ rpc[r].try = 1
    /\ Remove(rpc[r].pool, rpc[r].slot)
    /\ worker' = [worker EXCEPT ![rpc[r].slot] = [@ EXCEPT !.alive = FALSE]]
    /\ rpc' = [rpc EXCEPT ![r] = [@ EXCEPT !.step = "invoke", !.slot = NoSlot, !.try = 2]]
    /\ UNCHANGED <<disk, cache, lock, waiter, closing, stale>>

(* The first failure: the worker is discarded and the call starts over with  *)
(* another one of the pool.                                                  *)
Discard(r) ==
    /\ rpc[r].step = "failed" /\ rpc[r].try = 1
    /\ Remove(rpc[r].pool, rpc[r].slot)
    /\ worker' = [worker EXCEPT ![rpc[r].slot] = [@ EXCEPT !.alive = FALSE]]
    /\ rpc' = [rpc EXCEPT ![r] = [@ EXCEPT !.step = "acquire", !.slot = NoSlot, !.try = 2]]
    /\ UNCHANGED <<disk, cache, lock, waiter, closing, stale>>

(* A mutant: a failed lease is not given back. *)
ReleaseSucceeded(r) ==
    /\ rpc[r].step = "release" \/ (rpc[r].step = "failed" /\ rpc[r].try = 2)
    /\ worker' = [worker EXCEPT ![rpc[r].slot] = [@ EXCEPT !.busy = rpc[r].step = "failed"]]
    /\ Finish(r)
    /\ UNCHANGED <<disk, cache, lock, pools, waiter, closing, stale>>

Release(r) ==
    /\ rpc[r].step = "release" \/ (rpc[r].step = "failed" /\ rpc[r].try = 2)
    /\ worker' = [worker EXCEPT ![rpc[r].slot] = [@ EXCEPT !.busy = FALSE]]
    /\ Finish(r)
    /\ UNCHANGED <<disk, cache, lock, pools, waiter, closing, stale>>

-----------------------------------------------------------------------------
(* invalidate_missing_or_changed, when the registry has changed *)

(* The pools of extensions that are gone or whose binary has changed. *)
Inspect(gone) ==
    /\ stale = {} /\ closing[Refresher] = {} /\ lock = None
    /\ stale' = {<<e, cache[e]>> : e \in
                   {x \in Extensions : /\ cache[x] # None
                                       /\ x \in gone \/ ~Matches(cache[x], disk[x])}}
    /\ UNCHANGED <<disk, cache, lock, pools, worker, rpc, waiter, closing>>

(* remove_process_if_current *)
RemoveStale(e, p) ==
    /\ <<e, p>> \in stale /\ closing[Refresher] = {} /\ lock = None
    /\ stale' = stale \ {<<e, p>>}
    /\ \/ /\ cache[e] = p
          /\ cache' = [cache EXCEPT ![e] = None]
          /\ StartClosing(Refresher, p)
       \/ /\ cache[e] # p
          /\ UNCHANGED <<cache, closing>>
    /\ UNCHANGED <<disk, lock, pools, worker, rpc, waiter>>

-----------------------------------------------------------------------------
(* The world outside: a binary is rebuilt, a worker process dies. *)

Rebuild(e) ==
    /\ disk[e] < MaxVersion
    /\ disk' = [disk EXCEPT ![e] = @ + 1]
    /\ UNCHANGED <<cache, lock, pools, worker, rpc, waiter, closing, stale>>

Die(s) ==
    /\ worker[s].alive
    /\ worker' = [worker EXCEPT ![s] = [@ EXCEPT !.alive = FALSE]]
    /\ UNCHANGED <<disk, cache, lock, pools, rpc, waiter, closing, stale>>

-----------------------------------------------------------------------------
PoolStep(r) ==
    Lookup(r) \/ Create(r) \/ Recheck(r) \/ Replace(r) \/ Replaced(r) \/ Insert(r)

LeaseStep(r) ==
    \/ Scan(r)
    \/ \E s \in Slots : Skip(r, s) \/ Acquire(r, s) \/ Bury(r, s)
    \/ \E started \in BOOLEAN : Spawn(r, started)
    \/ Sleep(r)

InvokeStep(r) == Invoke(r) \/ Respond(r) \/ Fail(r) \/ Discard(r) \/ Release(r)

CloseStep(a) == \E s \in Slots : Kill(a, s)

ThreadStep(r) == PoolStep(r) \/ LeaseStep(r) \/ InvokeStep(r) \/ CloseStep(<<r, "thread">>)

WaiterStep(r) ==
    Answer(r) \/ Timeout(r) \/ Terminate(r) \/ CloseStep(<<r, "waiter">>) \/ Terminated(r)

RefreshStep ==
    \/ \E gone \in SUBSET Removable : Inspect(gone)
    \/ \E e \in Extensions, p \in Rpcs : RemoveStale(e, p)
    \/ CloseStep(Refresher)

Next ==
    \/ \E r \in Rpcs : \/ \E e \in Extensions, accepted \in BOOLEAN : Call(r, e, accepted)
                       \/ ThreadStep(r)
                       \/ WaiterStep(r)
                       \/ Abandon(r)
    \/ RefreshStep
    \/ \E e \in Extensions : Rebuild(e)
    \/ \E s \in Slots : Die(s)

(* Threads and tasks run, timers fire, and a worker that is asked answers or *)
(* dies: the host does not enforce the last of these.                        *)
Fairness ==
    /\ \A r \in Rpcs : WF_vars(ThreadStep(r)) /\ WF_vars(WaiterStep(r))
    /\ WF_vars(CloseStep(Refresher))

Safety == Init /\ [][Next]_vars
Spec == Safety /\ Fairness

-----------------------------------------------------------------------------
(* Properties. *)

HasLease(r) == rpc[r].step \in Leased

(* try_acquire, discard_slot and the drop of a lease: a worker serves one   *)
(* call at a time, whatever lists of slots the threads have copied.         *)
LeasesAreExclusive ==
    \A r, q \in Rpcs : HasLease(r) /\ HasLease(q) /\ r # q => rpc[r].slot # rpc[q].slot

(* process_pool and spawn_process: a call is served by a worker started     *)
(* from a binary at least as new as the one on disk when it was made,       *)
(* whatever rebuilds, refreshes and terminations come in between.           *)
NoStaleBinary ==
    \A r \in Rpcs : HasLease(r) => worker[rpc[r].slot].version >= rpc[r].version

(* dispatch_extension_rpc and acquire_or_spawn: the wait for every call is  *)
(* over in the end, though terminating waits for the other calls of the     *)
(* pool, and its thread ends, though it may wait for the leases of others   *)
(* and is left alone by the timeout.                                        *)
CallsEnd == \A r \in Rpcs :
    (rpc[r].step = "lookup") ~> (rpc[r].step = "done" /\ waiter[r] = "over")

(* extension-runtime-rfc.md:108: process workers are replaced by new        *)
(* instances automatically "after the target binary's timestamp or size     *)
(* changes": a call that finds a pool of another version gets a worker.     *)
RebuiltWorkersServe ==
    \A r \in Rpcs : (rpc[r].step = "lookup") ~> (HasLease(r) \/ rpc[r].step = "done")

(* plugin-host-capability-rpc/proposal.md:28: "a host call must complete    *)
(* within the existing worker RPC timeout".                                 *)
HostCallsEnd == \A r \in Rpcs : (rpc[r].step = "hostcall") ~> (rpc[r].step # "hostcall")
=============================================================================
