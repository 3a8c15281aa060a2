--------------------------- MODULE EventBusProofs ---------------------------
(***************************************************************************)
(* Theorems about EventBus, for every number of publishers, handlers,      *)
(* deliveries, attempts and faults, and every batch size.                  *)
(***************************************************************************)
EXTENDS EventBus, SequenceTheorems, FiniteSetTheorems, TLAPS

(* hook_deliveries: a sequence that grows at its end, updated in place. *)
LEMMA DeliveryRows ==
    ASSUME deliveries \in Seq(Rows)
    PROVE  /\ Len(deliveries) \in Nat /\ DOMAIN deliveries = 1..Len(deliveries)
           /\ \A d \in DOMAIN deliveries : deliveries[d] \in Rows
  BY LenProperties

LEMMA DeliveryInsert ==
    ASSUME NEW t \in Seq(Rows), NEW row \in Rows
    PROVE  /\ Append(t, row) \in Seq(Rows)
           /\ Len(Append(t, row)) = Len(t) + 1
           /\ DOMAIN Append(t, row) = DOMAIN t \cup {Len(t) + 1}
           /\ \A d \in DOMAIN t : Append(t, row)[d] = t[d]
           /\ Append(t, row)[Len(t) + 1] = row
  OBVIOUS

LEMMA DeliveryUpdate ==
    ASSUME NEW t \in Seq(Rows), NEW d \in DOMAIN t, NEW row \in Rows
    PROVE  /\ [t EXCEPT ![d] = row] \in Seq(Rows)
           /\ Len([t EXCEPT ![d] = row]) = Len(t)
           /\ DOMAIN [t EXCEPT ![d] = row] = DOMAIN t
           /\ \A e \in DOMAIN t : [t EXCEPT ![d] = row][e] = IF e = d THEN row ELSE t[e]
  BY ExceptSeq, LenProperties

-----------------------------------------------------------------------------
(* The inductive invariant. *)

(* The drain's snapshot is up to date: nobody else touches its deliveries. *)
SnapshotIsCurrent ==
    \A d \in DOMAIN batch :
        deliveries[d].status = "pending" /\ batch[d] = deliveries[d].attempts

(* Only posted deliveries have invocations. *)
InvokedIsPosted == \A d \in Ids : orphans[d] > 0 \/ runs[d] > 0 => Posted(d)

(* What the drain reports as done, a handler has done. *)
DoneWasHandled ==
    /\ drain.step = "done" => runs[drain.id] > 0
    /\ InWorker /\ drain.handled => runs[drain.id] > 0

(* A delivery that was never tried waits, due, and a batch leaves no older   *)
(* one of these out.                                                         *)
UntriedWaits ==
    /\ drain.step # "idle" => drain.id \in tried
    /\ tried \subseteq DOMAIN deliveries
    /\ \A d \in DOMAIN deliveries : d \notin tried =>
          /\ d \in Due
          /\ \A e \in DOMAIN batch : d < e => d \in DOMAIN batch

BusInv ==
    /\ BusTypeOK
    /\ GivenUpWhenExhausted
    /\ SnapshotIsCurrent
    /\ InvokedIsPosted
    /\ DoneWasHandled
    /\ UntriedWaits
    /\ FirstTriesInOrder

LEMMA BusInitially == Init => BusInv
  <1> SUFFICES ASSUME Init PROVE BusInv
    OBVIOUS
  <1> USE BusAssumption DEF Init
  <1>1. BusTypeOK
    BY DEF BusTypeOK, Quiet, NoBatch, DrainStates, Ids
  <1>2. GivenUpWhenExhausted /\ SnapshotIsCurrent /\ InvokedIsPosted /\ DoneWasHandled
    BY DEF GivenUpWhenExhausted, SnapshotIsCurrent, InvokedIsPosted, DoneWasHandled,
           Quiet, NoBatch, InWorker, Ids
  <1>3. UntriedWaits /\ FirstTriesInOrder
    BY DEF UntriedWaits, FirstTriesInOrder, Quiet
  <1> QED
    BY <1>1, <1>2, <1>3 DEF BusInv

(* The facts every step starts from. *)
LEMMA BusFacts ==
    ASSUME BusInv
    PROVE  /\ deliveries \in Seq(Rows) /\ Len(deliveries) \in Nat
           /\ Len(deliveries) <= MaxDeliveries
           /\ DOMAIN deliveries = 1..Len(deliveries)
           /\ DOMAIN deliveries \subseteq Ids
           /\ \A d \in DOMAIN deliveries : deliveries[d] \in Rows
           /\ drain \in DrainStates
           /\ drain.step # "idle" =>
                 /\ drain.id \in DOMAIN batch /\ drain.id \in DOMAIN deliveries
                 /\ deliveries[drain.id].status = "pending"
                 /\ drain.id \in tried
  BY DeliveryRows, BusAssumption
  DEF BusInv, BusTypeOK, Ids, SnapshotIsCurrent, UntriedWaits

-----------------------------------------------------------------------------
(* One lemma per group of actions. *)

LEMMA PublishStep ==
    ASSUME BusInv, NEW p \in Publishers,
           (\E hooks \in Subscriptions : Publish(p, hooks)) \/ PostFails(p)
    PROVE  BusInv'
  <1>1. BusTypeOK'
    <2>1. \A hooks \in Subscriptions : hooks \in Seq(Handlers)
      BY BusAssumption
    <2>2. toPost' \in [Publishers -> Seq(Handlers)]
      BY <2>1, EmptySeq DEF BusInv, BusTypeOK, Publish, PostFails
    <2>3. faults' \in 0..MaxFaults
      BY BusAssumption DEF BusInv, BusTypeOK, Publish, PostFails
    <2>4. UNCHANGED <<deliveries, batch, drain, orphans, runs, tried>>
      BY DEF Publish, PostFails
    <2> QED BY <2>2, <2>3, <2>4 DEF BusInv, BusTypeOK
  <1>2. /\ GivenUpWhenExhausted' /\ SnapshotIsCurrent' /\ InvokedIsPosted'
        /\ DoneWasHandled' /\ UntriedWaits' /\ FirstTriesInOrder'
    BY DEF BusInv, Publish, PostFails, GivenUpWhenExhausted, Working, SnapshotIsCurrent,
           InvokedIsPosted, Posted, DoneWasHandled, InWorker, UntriedWaits, Due, FirstTriesInOrder
  <1> QED
    BY <1>1, <1>2 DEF BusInv

LEMMA PostStep ==
    ASSUME BusInv, NEW p \in Publishers, PostDelivery(p)
    PROVE  BusInv'
  <1> DEFINE row == [handler |-> Head(toPost[p]), status |-> "pending",
                     attempts |-> 0, due |-> TRUE]
             new == Len(deliveries) + 1
  <1>1. /\ toPost[p] \in Seq(Handlers) /\ toPost[p] # <<>>
        /\ Len(deliveries) < MaxDeliveries
        /\ deliveries' = Append(deliveries, row)
        /\ toPost' = [toPost EXCEPT ![p] = Tail(@)]
        /\ UNCHANGED <<batch, drain, orphans, runs, tried, faults>>
    BY DEF BusInv, BusTypeOK, PostDelivery, Room
  <1>2. row \in Rows /\ row.status = "pending" /\ row.attempts = 0 /\ row.due
    BY <1>1, HeadTailProperties, BusAssumption DEF Rows, Statuses
  <1> HIDE DEF row
  <1>3. /\ deliveries' \in Seq(Rows) /\ Len(deliveries') = new
        /\ DOMAIN deliveries' = DOMAIN deliveries \cup {new}
        /\ \A d \in DOMAIN deliveries : deliveries'[d] = deliveries[d]
        /\ deliveries'[new] = row
    BY <1>1, <1>2, DeliveryInsert, BusFacts
  <1>4. new \notin DOMAIN deliveries /\ \A d \in DOMAIN deliveries : d < new
    BY BusFacts
  <1>5. toPost' \in [Publishers -> Seq(Handlers)]
    BY <1>1, HeadTailProperties DEF BusInv, BusTypeOK
  <1>6. BusTypeOK'
    <2>1. Len(deliveries') <= MaxDeliveries
      BY <1>1, <1>3, BusFacts, BusAssumption
    <2>2. /\ DOMAIN batch' \subseteq DOMAIN deliveries'
          /\ \A d \in DOMAIN batch' : batch'[d] \in Nat
          /\ drain' \in DrainStates
          /\ drain'.step # "idle" => drain'.id \in DOMAIN batch'
          /\ orphans' \in [Ids -> Nat] /\ runs' \in [Ids -> Nat]
          /\ tried' \subseteq Ids /\ faults' \in 0..MaxFaults
      BY <1>1, <1>3 DEF BusInv, BusTypeOK
    <2> QED BY <1>3, <1>5, <2>1, <2>2 DEF BusTypeOK
  <1>7. GivenUpWhenExhausted' /\ SnapshotIsCurrent'
    BY <1>1, <1>2, <1>3, <1>4, BusFacts, BusAssumption
    DEF BusInv, BusTypeOK, GivenUpWhenExhausted, Working, SnapshotIsCurrent
  <1>8. InvokedIsPosted' /\ DoneWasHandled'
    BY <1>1, <1>3 DEF BusInv, InvokedIsPosted, Posted, DoneWasHandled, InWorker
  <1>9. UntriedWaits'
    BY <1>1, <1>2, <1>3, <1>4, BusFacts DEF BusInv, BusTypeOK, UntriedWaits, Due
  <1>10. FirstTriesInOrder'
    BY <1>1, <1>3, <1>4 DEF BusInv, UntriedWaits, FirstTriesInOrder
  <1> QED
    BY <1>6, <1>7, <1>8, <1>9, <1>10 DEF BusInv

(* The batch is closed downwards among the untried: whatever is due and      *)
(* older than one of the oldest due deliveries is one of them.               *)
LEMMA OldestIsClosed ==
    ASSUME NEW n \in Nat, NEW S \in SUBSET (1..n), NEW size \in Nat,
           NEW d \in S, NEW e \in Oldest(S, size), d < e
    PROVE  d \in Oldest(S, size)
  <1> DEFINE Before(x) == {y \in S : y < x}
  <1>1. IsFiniteSet(Before(e)) /\ IsFiniteSet(Before(d))
    <2>1. IsFiniteSet(1..n)
      BY FS_Interval
    <2> QED BY <2>1, FS_Subset
  <1>2. Before(d) \subseteq Before(e)
    <2>1. e \in S
      BY DEF Oldest
    <2>2. ASSUME NEW y \in S, y < d PROVE y < e
      BY <2>1, <2>2
    <2> QED BY <2>2
  <1>3. Cardinality(Before(d)) <= Cardinality(Before(e))
    BY <1>1, <1>2, FS_Subset
  <1>4. Cardinality(Before(d)) \in Nat /\ Cardinality(Before(e)) \in Nat
    BY <1>1, FS_CardinalityType
  <1> QED
    BY <1>3, <1>4 DEF Oldest

LEMMA ScanStep ==
    ASSUME BusInv, Scan
    PROVE  BusInv'
  <1>1. /\ batch' = [d \in Oldest(Due, BatchSize) |-> deliveries[d].attempts]
        /\ drain.step = "idle"
        /\ UNCHANGED <<deliveries, toPost, drain, orphans, runs, tried, faults>>
    BY DEF Scan
  <1>2. DOMAIN batch' = Oldest(Due, BatchSize) /\ Oldest(Due, BatchSize) \subseteq Due
    BY <1>1 DEF Oldest
  <1>3. \A d \in DOMAIN batch' : /\ d \in DOMAIN deliveries /\ deliveries[d].status = "pending"
                                 /\ batch'[d] = deliveries[d].attempts
    BY <1>1, <1>2 DEF Due
  <1>4. BusTypeOK'
    BY <1>1, <1>3, BusFacts DEF BusInv, BusTypeOK, Rows
  <1>5. GivenUpWhenExhausted' /\ SnapshotIsCurrent' /\ InvokedIsPosted' /\ DoneWasHandled'
    BY <1>1, <1>3 DEF BusInv, GivenUpWhenExhausted, Working, SnapshotIsCurrent,
                      InvokedIsPosted, Posted, DoneWasHandled, InWorker
  <1>6. UntriedWaits'
    <2>1. Due \in SUBSET (1..Len(deliveries)) /\ BatchSize \in Nat
      BY BusFacts, BusAssumption DEF Due
    <2>2. ASSUME NEW d \in DOMAIN deliveries, d \notin tried, NEW e \in DOMAIN batch', d < e
          PROVE  d \in DOMAIN batch'
      BY <1>2, <2>1, <2>2, OldestIsClosed, BusFacts DEF BusInv, UntriedWaits
    <2>3. Due' = Due
      BY <1>1 DEF Due
    <2> QED BY <1>1, <2>2, <2>3 DEF BusInv, UntriedWaits
  <1>7. FirstTriesInOrder'
    BY <1>1 DEF BusInv, FirstTriesInOrder
  <1> QED
    BY <1>4, <1>5, <1>6, <1>7 DEF BusInv

LEMMA SendStep ==
    ASSUME BusInv, NEW d \in Ids, NEW reachable \in BOOLEAN, Send(d, reachable)
    PROVE  BusInv'
  <1>1. /\ drain' = [step |-> IF reachable THEN "call" ELSE "error", id |-> d,
                     invocation |-> 1, handled |-> FALSE]
        /\ tried' = tried \cup {d}
        /\ d \in DOMAIN batch /\ \A e \in DOMAIN batch : d <= e
        /\ UNCHANGED <<deliveries, toPost, batch, orphans, runs, faults>>
    BY DEF Send
  <1>2. d \in DOMAIN deliveries /\ deliveries[d].status = "pending"
    BY <1>1 DEF BusInv, BusTypeOK, SnapshotIsCurrent
  <1>3. drain' \in DrainStates /\ drain'.id = d /\ ~drain'.handled /\ drain'.step # "done"
    BY <1>1, BusAssumption DEF DrainStates, Ids
  <1>4. BusTypeOK'
    BY <1>1, <1>3 DEF BusInv, BusTypeOK
  <1>5. GivenUpWhenExhausted' /\ SnapshotIsCurrent' /\ InvokedIsPosted' /\ DoneWasHandled'
    BY <1>1, <1>2, <1>3 DEF BusInv, GivenUpWhenExhausted, Working, SnapshotIsCurrent,
                            InvokedIsPosted, Posted, DoneWasHandled, InWorker
  <1>6. UntriedWaits'
    BY <1>1, <1>2, <1>3 DEF BusInv, UntriedWaits, Due
  <1>7. FirstTriesInOrder'
    <2>1. ASSUME NEW a \in DOMAIN deliveries, a < d PROVE a \in tried
      BY <1>1, <2>1, BusFacts DEF BusInv, BusTypeOK, UntriedWaits
    <2> QED BY <1>1, <2>1 DEF BusInv, FirstTriesInOrder
  <1> QED
    BY <1>4, <1>5, <1>6, <1>7 DEF BusInv

(* The delivery under way moves, without its row. *)
LEMMA WorkStep ==
    ASSUME BusInv, Handle \/ Answered \/ Break \/ Timeout
    PROVE  BusInv'
  <1>1. /\ drain.step # "idle"
        /\ UNCHANGED <<deliveries, toPost, batch, tried, faults>>
    BY DEF Handle, Answered, Reply, Break, Timeout, InWorker
  <1>2. drain.id \in DOMAIN batch /\ drain.id \in DOMAIN deliveries /\ drain.id \in Ids
    BY <1>1, BusFacts
  <1>3. drain' \in DrainStates /\ drain'.id = drain.id /\ drain'.step # "idle"
    BY <1>1, BusFacts DEF Handle, Answered, Reply, Break, Timeout, DrainStates, InWorker
  <1>4. /\ orphans' \in [Ids -> Nat] /\ runs' \in [Ids -> Nat]
        /\ \A d \in Ids \ {drain.id} : orphans'[d] = orphans[d] /\ runs'[d] = runs[d]
        /\ runs[drain.id] > 0 => runs'[drain.id] > 0
    <2>1. orphans \in [Ids -> Nat] /\ runs \in [Ids -> Nat]
      BY DEF BusInv, BusTypeOK
    <2>2. /\ runs' = runs \/ runs' = [runs EXCEPT ![drain.id] = @ + 1]
          /\ orphans' = orphans \/ orphans' = [orphans EXCEPT ![drain.id] = @ + 1]
      BY DEF Handle, Answered, Reply, Break, Timeout
    <2> QED BY <1>2, <2>1, <2>2
  <1>5. BusTypeOK'
    BY <1>1, <1>2, <1>3, <1>4 DEF BusInv, BusTypeOK
  <1>6. GivenUpWhenExhausted' /\ SnapshotIsCurrent'
    BY <1>1, <1>3 DEF BusInv, GivenUpWhenExhausted, Working, SnapshotIsCurrent
  <1>7. InvokedIsPosted'
    BY <1>1, <1>2, <1>4 DEF BusInv, InvokedIsPosted, Posted
  <1>8. DoneWasHandled'
    <2>1. CASE Handle
      <3>1. runs' = [runs EXCEPT ![drain.id] = @ + 1] /\ drain'.id = drain.id
        BY <2>1, <1>3 DEF Handle
      <3>2. runs'[drain'.id] > 0
        BY <3>1, <1>2 DEF BusInv, BusTypeOK
      <3> QED BY <3>2 DEF DoneWasHandled
    <2>2. CASE Answered
      <3>1. PICK ok \in BOOLEAN : Reply(ok)
        BY <2>2 DEF Answered
      <3>2. drain'.step = "done" => InWorker /\ drain.handled
        BY <3>1, <1>3, BusFacts DEF Reply, DrainStates
      <3>3. drain'.step \notin {"call", "late"}
        BY <3>1, BusFacts DEF Reply, DrainStates
      <3> QED BY <3>2, <3>3, <1>3, <1>4 DEF BusInv, DoneWasHandled, InWorker
    <2>3. CASE Break
      <3>1. drain'.step # "done" /\ (drain'.step \in {"call", "late"} => ~drain'.handled)
        BY <2>3, BusFacts DEF Break, InWorker, DrainStates
      <3> QED BY <3>1 DEF DoneWasHandled, InWorker
    <2>4. CASE Timeout
      <3>1. drain'.step \in {"error", "late"} /\ drain'.handled = drain.handled /\ InWorker
        BY <2>4, BusFacts DEF Timeout, InWorker, DrainStates
      <3> QED BY <3>1, <1>3, <1>4 DEF BusInv, DoneWasHandled, InWorker
    <2> QED BY <2>1, <2>2, <2>3, <2>4
  <1>9. UntriedWaits' /\ FirstTriesInOrder'
    BY <1>1, <1>3 DEF BusInv, UntriedWaits, Due, FirstTriesInOrder
  <1> QED
    BY <1>5, <1>6, <1>7, <1>8, <1>9 DEF BusInv

(* The delivery under way leaves the batch, with its row as it will be. *)
LEMMA LeaveBatch ==
    ASSUME BusInv, drain.step # "idle", NextDelivery,
           NEW row \in Rows,
           deliveries' = [deliveries EXCEPT ![drain.id] = row],
           row.status = "failed" <=> row.attempts = MaxAttempts,
           faults' \in 0..MaxFaults
    PROVE  BusInv'
  <1>1. /\ drain.id \in DOMAIN batch /\ drain.id \in DOMAIN deliveries /\ drain.id \in tried
        /\ deliveries \in Seq(Rows)
    BY BusFacts
  <1>2. /\ deliveries' \in Seq(Rows) /\ Len(deliveries') = Len(deliveries)
        /\ DOMAIN deliveries' = DOMAIN deliveries
        /\ \A e \in DOMAIN deliveries :
              deliveries'[e] = IF e = drain.id THEN row ELSE deliveries[e]
    BY <1>1, DeliveryUpdate
  <1>3. /\ batch' = [e \in DOMAIN batch \ {drain.id} |-> batch[e]]
        /\ drain' = Quiet
        /\ UNCHANGED <<toPost, orphans, runs, tried>>
    BY DEF NextDelivery, Without
  <1>4. drain' \in DrainStates /\ drain'.step = "idle"
    BY <1>3, BusAssumption DEF Quiet, DrainStates
  <1>5. BusTypeOK'
    BY <1>2, <1>3, <1>4 DEF BusInv, BusTypeOK
  <1>6. GivenUpWhenExhausted' /\ SnapshotIsCurrent'
    BY <1>1, <1>2, <1>3, <1>4
    DEF BusInv, BusTypeOK, GivenUpWhenExhausted, Working, SnapshotIsCurrent
  <1>7. InvokedIsPosted' /\ DoneWasHandled'
    BY <1>2, <1>3, <1>4 DEF BusInv, InvokedIsPosted, Posted, DoneWasHandled, InWorker
  <1>8. UntriedWaits'
    BY <1>1, <1>2, <1>3, <1>4 DEF BusInv, UntriedWaits, Due
  <1>9. FirstTriesInOrder'
    BY <1>2, <1>3 DEF BusInv, FirstTriesInOrder
  <1> QED
    BY <1>5, <1>6, <1>7, <1>8, <1>9 DEF BusInv

LEMMA MarkStep ==
    ASSUME BusInv, Marked
    PROVE  BusInv'
  <1> DEFINE old == deliveries[drain.id]
  <1>1. drain.step \in {"done", "error"} /\ drain.step # "idle" /\ NextDelivery
    BY DEF Marked, MarkSucceeded, MarkRetry, MarkFails
  <1>2. /\ drain.id \in DOMAIN batch /\ drain.id \in DOMAIN deliveries
        /\ old \in Rows /\ old.status = "pending"
        /\ batch[drain.id] = old.attempts
        /\ deliveries \in Seq(Rows) /\ faults \in 0..MaxFaults
    BY <1>1, BusFacts DEF BusInv, BusTypeOK, SnapshotIsCurrent
  <1>3. old.attempts \in 0..MaxAttempts /\ old.attempts # MaxAttempts
    BY <1>2 DEF BusInv, GivenUpWhenExhausted, Rows
  <1>4. CASE MarkSucceeded
    <2> DEFINE row == [old EXCEPT !.status = "succeeded"]
    <2>1. row \in Rows /\ row.status # "failed" /\ row.attempts # MaxAttempts
      BY <1>2, <1>3 DEF Rows, Statuses
    <2>2. deliveries' = [deliveries EXCEPT ![drain.id] = row]
      BY <1>4 DEF MarkSucceeded
    <2>3. faults' \in 0..MaxFaults
      BY <1>4, <1>2 DEF MarkSucceeded
    <2> HIDE DEF row
    <2> QED BY <1>1, <2>1, <2>2, <2>3, LeaveBatch
  <1>5. CASE MarkRetry
    <2> DEFINE attempts == batch[drain.id] + 1
               status == IF attempts >= MaxAttempts THEN "failed" ELSE "pending"
               row == [old EXCEPT !.attempts = attempts, !.status = status, !.due = FALSE]
    <2>0. /\ attempts \in 0..MaxAttempts /\ status \in Statuses
          /\ status = "failed" <=> attempts = MaxAttempts
      BY <1>2, <1>3, BusAssumption DEF Statuses
    <2>1. row \in Rows /\ (row.status = "failed" <=> row.attempts = MaxAttempts)
      <3> HIDE DEF attempts, status
      <3> QED BY <1>2, <2>0 DEF Rows
    <2>2. deliveries' = [deliveries EXCEPT ![drain.id] = row]
      BY <1>5 DEF MarkRetry
    <2>3. faults' \in 0..MaxFaults
      BY <1>5, <1>2 DEF MarkRetry
    <2> HIDE DEF row
    <2> QED BY <1>1, <2>1, <2>2, <2>3, LeaveBatch
  <1>6. CASE MarkFails
    <2>1. deliveries' = [deliveries EXCEPT ![drain.id] = old]
      BY <1>6, <1>2 DEF MarkFails
    <2>2. faults' \in 0..MaxFaults
      BY <1>6, <1>2, BusAssumption DEF MarkFails
    <2>3. old.status = "failed" <=> old.attempts = MaxAttempts
      BY <1>2, <1>3
    <2> HIDE DEF old
    <2> QED BY <1>1, <1>2, <2>1, <2>2, <2>3, LeaveBatch
  <1> QED
    BY <1>4, <1>5, <1>6 DEF Marked

LEMMA BackoffStep ==
    ASSUME BusInv, NEW d \in Ids, BackoffEnds(d)
    PROVE  BusInv'
  <1> DEFINE old == deliveries[d]
             row == [old EXCEPT !.due = TRUE]
  <1>1. /\ d \in DOMAIN deliveries /\ old \in Rows /\ deliveries \in Seq(Rows)
        /\ UNCHANGED <<toPost, batch, drain, orphans, runs, tried, faults>>
        /\ old.status = "pending"
    BY BusFacts DEF BackoffEnds
  <1>2. row \in Rows /\ row.status = old.status /\ row.attempts = old.attempts /\ row.due
    BY <1>1 DEF Rows
  <1>3. deliveries' = [deliveries EXCEPT ![d] = row]
    BY DEF BackoffEnds
  <1> HIDE DEF row
  <1>4. /\ deliveries' \in Seq(Rows) /\ Len(deliveries') = Len(deliveries)
        /\ DOMAIN deliveries' = DOMAIN deliveries
        /\ \A e \in DOMAIN deliveries : deliveries'[e] = IF e = d THEN row ELSE deliveries[e]
    BY <1>1, <1>2, <1>3, DeliveryUpdate
  <1>5. \A e \in DOMAIN deliveries : /\ deliveries'[e].status = deliveries[e].status
                                     /\ deliveries'[e].attempts = deliveries[e].attempts
                                     /\ deliveries[e].due => deliveries'[e].due
    BY <1>2, <1>4
  <1>6. BusTypeOK'
    BY <1>1, <1>4 DEF BusInv, BusTypeOK
  <1>7. GivenUpWhenExhausted' /\ SnapshotIsCurrent'
    BY <1>1, <1>4, <1>5
    DEF BusInv, BusTypeOK, GivenUpWhenExhausted, Working, SnapshotIsCurrent
  <1>8. InvokedIsPosted' /\ DoneWasHandled'
    BY <1>1, <1>4 DEF BusInv, InvokedIsPosted, Posted, DoneWasHandled, InWorker
  <1>9. UntriedWaits' /\ FirstTriesInOrder'
    BY <1>1, <1>4, <1>5 DEF BusInv, UntriedWaits, Due, FirstTriesInOrder
  <1> QED
    BY <1>6, <1>7, <1>8, <1>9 DEF BusInv

LEMMA OrphanStep ==
    ASSUME BusInv, NEW d \in Ids, NEW handled \in BOOLEAN, OrphanEnds(d, handled)
    PROVE  BusInv'
  <1>1. /\ orphans[d] > 0
        /\ orphans' = [orphans EXCEPT ![d] = @ - 1]
        /\ runs' = IF handled THEN [runs EXCEPT ![d] = @ + 1] ELSE runs
        /\ UNCHANGED <<deliveries, toPost, batch, drain, tried, faults>>
    BY DEF OrphanEnds
  <1>2. orphans \in [Ids -> Nat] /\ runs \in [Ids -> Nat] /\ Posted(d)
    BY <1>1 DEF BusInv, BusTypeOK, InvokedIsPosted
  <1>3. /\ orphans' \in [Ids -> Nat] /\ runs' \in [Ids -> Nat]
        /\ \A e \in Ids \ {d} : orphans'[e] = orphans[e] /\ runs'[e] = runs[e]
        /\ \A e \in Ids : runs[e] > 0 => runs'[e] > 0
    BY <1>1, <1>2
  <1>4. BusTypeOK'
    BY <1>1, <1>3 DEF BusInv, BusTypeOK
  <1>5. GivenUpWhenExhausted' /\ SnapshotIsCurrent' /\ UntriedWaits' /\ FirstTriesInOrder'
    BY <1>1 DEF BusInv, GivenUpWhenExhausted, Working, SnapshotIsCurrent,
                UntriedWaits, Due, FirstTriesInOrder
  <1>6. InvokedIsPosted'
    BY <1>1, <1>2, <1>3 DEF BusInv, InvokedIsPosted, Posted
  <1>7. DoneWasHandled'
    BY <1>1, <1>3, BusFacts DEF BusInv, DoneWasHandled, InWorker
  <1> QED
    BY <1>4, <1>5, <1>6, <1>7 DEF BusInv

LEMMA RestartStep ==
    ASSUME BusInv, Restart
    PROVE  BusInv'
  <1>1. /\ faults' = faults + 1 /\ faults < MaxFaults
        /\ toPost' = [p \in Publishers |-> <<>>]
        /\ batch' = NoBatch /\ drain' = Quiet
        /\ orphans' = [d \in Ids |-> 0]
        /\ UNCHANGED <<deliveries, runs, tried>>
    BY DEF Restart
  <1>2. DOMAIN batch' = {} /\ drain' \in DrainStates /\ drain'.step = "idle"
    BY <1>1, BusAssumption DEF NoBatch, Quiet, DrainStates
  <1>3. toPost' \in [Publishers -> Seq(Handlers)] /\ faults' \in 0..MaxFaults
    BY <1>1, EmptySeq, BusAssumption DEF BusInv, BusTypeOK
  <1>4. BusTypeOK'
    BY <1>1, <1>2, <1>3 DEF BusInv, BusTypeOK
  <1>5. /\ GivenUpWhenExhausted' /\ SnapshotIsCurrent' /\ InvokedIsPosted'
        /\ DoneWasHandled' /\ UntriedWaits' /\ FirstTriesInOrder'
    BY <1>1, <1>2 DEF BusInv, GivenUpWhenExhausted, Working, SnapshotIsCurrent,
       InvokedIsPosted, Posted, DoneWasHandled, InWorker, UntriedWaits, Due, FirstTriesInOrder
  <1> QED
    BY <1>4, <1>5 DEF BusInv

LEMMA BusStep == BusInv /\ [Next]_vars => BusInv'
  <1> SUFFICES ASSUME BusInv, [Next]_vars PROVE BusInv'
    OBVIOUS
  <1>1. CASE UNCHANGED vars
    BY <1>1 DEF vars, BusInv, BusTypeOK, GivenUpWhenExhausted, Working, SnapshotIsCurrent,
       InvokedIsPosted, Posted, DoneWasHandled, InWorker, UntriedWaits, Due, FirstTriesInOrder
  <1>2. CASE PublisherStep
    BY <1>2, PublishStep, PostStep DEF PublisherStep
  <1>3. CASE DrainStep
    BY <1>3, ScanStep, SendStep, WorkStep, MarkStep DEF DrainStep
  <1>4. CASE DeliveryStep
    BY <1>4, BackoffStep, OrphanStep DEF DeliveryStep
  <1>5. CASE Restart
    BY <1>5, RestartStep
  <1> QED
    BY <1>1, <1>2, <1>3, <1>4, <1>5 DEF Next

-----------------------------------------------------------------------------
(* Counting the runs of a handler. *)

(* How often the attempt under way may still reach the handler of delivery  *)
(* d: by its invocation and, for the first one, by the one after it.        *)
Left(d) ==
    IF Working(d) /\ InWorker
    THEN (3 - drain.invocation) - (IF drain.handled THEN 1 ELSE 0) ELSE 0

(* The attempt under way and the one that succeeded are not counted in       *)
(* attempts.                                                                 *)
Uncounted(d) == IF Working(d) \/ deliveries[d].status = "succeeded" THEN 1 ELSE 0

(* Every run, past or still to come, is charged to an attempt or a fault.    *)
Charged(d) ==
    runs[d] + orphans[d] + Left(d) <= 2 * (deliveries[d].attempts + faults + Uncounted(d))

RunsAreCharged == \A d \in DOMAIN deliveries : Charged(d)

LEMMA ChargesAreNumbers ==
    ASSUME BusInv, NEW d \in DOMAIN deliveries
    PROVE  /\ runs[d] \in Nat /\ orphans[d] \in Nat /\ faults \in Nat
           /\ deliveries[d].attempts \in Nat
           /\ drain.invocation \in {1, 2} /\ drain.handled \in BOOLEAN
           /\ Left(d) \in 0..2 /\ Uncounted(d) \in 0..1
  <1>1. /\ runs[d] \in Nat /\ orphans[d] \in Nat /\ faults \in Nat
        /\ deliveries[d].attempts \in Nat
        /\ drain.invocation \in {1, 2} /\ drain.handled \in BOOLEAN
    BY BusFacts, BusAssumption DEF BusInv, BusTypeOK, Rows, DrainStates
  <1> QED
    BY <1>1 DEF Left, Uncounted

(* The row of a delivery moves by the marks only. *)
LEMMA RowsMoved ==
    ASSUME BusInv, [Next]_vars, NEW d \in DOMAIN deliveries
    PROVE  /\ d \in DOMAIN deliveries'
           /\ \/ /\ deliveries'[d].status = deliveries[d].status
                 /\ deliveries'[d].attempts = deliveries[d].attempts
              \/ /\ MarkSucceeded /\ d = drain.id
                 /\ deliveries'[d].status = "succeeded"
                 /\ deliveries'[d].attempts = deliveries[d].attempts
              \/ /\ MarkRetry /\ d = drain.id
                 /\ deliveries'[d].attempts = deliveries[d].attempts + 1
  <1>1. /\ deliveries \in Seq(Rows) /\ deliveries[d] \in Rows
        /\ DOMAIN deliveries = 1..Len(deliveries)
    BY BusFacts
  <1>2. ASSUME NEW p \in Publishers, PostDelivery(p)
        PROVE  d \in DOMAIN deliveries' /\ deliveries'[d] = deliveries[d]
    BY <1>1, <1>2 DEF PostDelivery
  <1>3. CASE MarkSucceeded
    <2>1. drain.id \in DOMAIN deliveries
      BY <1>3, BusFacts DEF MarkSucceeded
    <2> QED BY <1>1, <1>3, <2>1 DEF MarkSucceeded, Rows
  <1>4. CASE MarkRetry
    <2>1. drain.id \in DOMAIN deliveries /\ batch[drain.id] = deliveries[drain.id].attempts
      BY <1>4, BusFacts DEF MarkRetry, BusInv, SnapshotIsCurrent
    <2> QED BY <1>1, <1>4, <2>1 DEF MarkRetry, Rows
  <1>5. ASSUME NEW e \in Ids, BackoffEnds(e)
        PROVE  /\ d \in DOMAIN deliveries' /\ deliveries'[d].status = deliveries[d].status
               /\ deliveries'[d].attempts = deliveries[d].attempts
    BY <1>1, <1>5 DEF BackoffEnds, Rows
  <1>6. CASE UNCHANGED deliveries
    BY <1>6
  <1> QED
    BY <1>2, <1>3, <1>4, <1>5, <1>6
    DEF Next, PublisherStep, DrainStep, DeliveryStep, Marked, Publish, PostFails, Scan, Send,
        Handle, Answered, Reply, Break, Timeout, MarkFails, OrphanEnds, Restart, vars

(* What the drain and the workers do for the delivery under way. *)
LEMMA WorkIsCharged ==
    ASSUME BusInv, [Next]_vars, BusInv', NEW d \in DOMAIN deliveries, Charged(d),
           Handle \/ Answered \/ Break \/ Timeout
    PROVE  Charged(d)'
  <1>1. /\ runs[d] \in Nat /\ orphans[d] \in Nat /\ faults \in Nat
        /\ deliveries[d].attempts \in Nat
        /\ drain.invocation \in {1, 2} /\ drain.handled \in BOOLEAN
    BY ChargesAreNumbers
  <1>2. /\ UNCHANGED <<deliveries, faults>> /\ drain.step # "idle"
        /\ drain \in DrainStates /\ drain.id \in Ids /\ d \in Ids
        /\ runs \in [Ids -> Nat] /\ orphans \in [Ids -> Nat]
    BY BusFacts DEF Handle, Answered, Reply, Break, Timeout, InWorker, BusInv, BusTypeOK
  <1>3. drain'.id = drain.id /\ drain'.step # "idle"
    BY <1>2 DEF Handle, Answered, Reply, Break, Timeout, InWorker, DrainStates
  <1>4. Uncounted(d)' = Uncounted(d)
    BY <1>2, <1>3 DEF Uncounted, Working
  <1> DEFINE Left0 == Left(d)
             Left1 == Left(d)'
  <1>5. runs'[d] + orphans'[d] + Left1 <= runs[d] + orphans[d] + Left0
    <2>1. CASE d # drain.id
      <3>1. runs'[d] = runs[d] /\ orphans'[d] = orphans[d]
        BY <1>2, <2>1 DEF Handle, Answered, Reply, Break, Timeout
      <3>2. Left0 = 0 /\ Left1 = 0
        BY <1>3, <2>1 DEF Left, Working
      <3> QED BY <3>1, <3>2, <1>1
    <2>2. CASE d = drain.id
      <3>1. InWorker /\ Left0 = (3 - drain.invocation) - (IF drain.handled THEN 1 ELSE 0)
        BY <1>2, <2>2 DEF Left, Working, Handle, Answered, Reply, Break, Timeout, InWorker
      <3> HIDE DEF Left0
      <3>2. CASE Handle
        <4>1. runs'[d] = runs[d] + 1 /\ orphans'[d] = orphans[d] /\ ~drain.handled
          BY <1>2, <2>2, <3>2 DEF Handle
        <4>2. Left1 = (3 - drain.invocation) - 1
          BY <1>2, <2>2, <3>1, <3>2 DEF Left, Working, Handle, InWorker, DrainStates
        <4> QED BY <4>1, <4>2, <3>1, <1>1
      <3>3. CASE Answered
        <4>1. runs'[d] = runs[d] /\ orphans'[d] = orphans[d]
          BY <3>3 DEF Answered, Reply
        <4>2. Left1 = 0
          BY <1>2, <3>3 DEF Left, Answered, Reply, InWorker, DrainStates
        <4> QED BY <4>1, <4>2, <3>1, <1>1
      <3>4. CASE Break
        <4>1. CASE drain.invocation = 1 /\ drain.step = "call"
          <5>1. runs'[d] = runs[d] /\ orphans'[d] = orphans[d]
            BY <3>4, <4>1, <1>2 DEF Break
          <5>2. drain' = [drain EXCEPT !.invocation = 2, !.handled = FALSE]
            BY <3>4, <4>1 DEF Break
          <5>4. drain'.invocation = 2 /\ ~drain'.handled
            BY <5>2, <1>2 DEF DrainStates
          <5>3. Left1 \in {0, 1}
            BY <5>4 DEF Left
          <5> QED BY <5>1, <5>3, <4>1, <3>1, <1>1
        <4>2. CASE drain.invocation = 1 /\ drain.step = "late"
          <5>1. runs'[d] = runs[d] /\ orphans'[d] = orphans[d] + 1
            BY <3>4, <4>2, <1>2, <2>2 DEF Break
          <5>2. Left1 = 0
            BY <3>4, <4>2, <1>2 DEF Break, DrainStates, Left, InWorker
          <5> QED BY <5>1, <5>2, <4>2, <3>1, <1>1
        <4>3. CASE drain.invocation = 2
          <5>1. runs'[d] = runs[d] /\ orphans'[d] = orphans[d]
            BY <3>4, <4>3 DEF Break
          <5>2. Left1 = 0
            BY <3>4, <4>3, <1>2 DEF Break, DrainStates, Left, InWorker
          <5> QED BY <5>1, <5>2, <4>3, <3>1, <1>1
        <4> QED BY <3>4, <4>1, <4>2, <4>3 DEF Break
      <3>5. CASE Timeout
        <4>1. CASE IsWasm
          <5>1. /\ runs'[d] = runs[d]
                /\ orphans'[d] = orphans[d] + (IF drain.handled THEN 0 ELSE 1)
            BY <3>5, <4>1, <1>2, <2>2 DEF Timeout
          <5>2. Left1 = 0
            BY <3>5, <4>1, <1>2 DEF Timeout, DrainStates, Left, InWorker
          <5> QED BY <5>1, <5>2, <3>1, <1>1
        <4>2. CASE ~IsWasm
          <5>1. runs'[d] = runs[d] /\ orphans'[d] = orphans[d]
            BY <3>5, <4>2 DEF Timeout
          <5>2. Left1 = (3 - drain.invocation) - (IF drain.handled THEN 1 ELSE 0)
            BY <3>5, <4>2, <1>2, <2>2 DEF Timeout, DrainStates, Left, Working, InWorker
          <5> QED BY <5>1, <5>2, <3>1, <1>1
        <4> QED BY <4>1, <4>2
      <3> QED BY <3>2, <3>3, <3>4, <3>5
    <2> QED BY <2>1, <2>2
  <1>6. Left0 \in Nat /\ Left1 \in Nat /\ Uncounted(d) \in Nat
    <2>1. drain'.invocation \in {1, 2} /\ drain'.handled \in BOOLEAN
      BY DEF BusInv, BusTypeOK, DrainStates
    <2> QED BY <2>1, ChargesAreNumbers DEF Left
  <1>7. runs'[d] \in Nat /\ orphans'[d] \in Nat
    BY <1>2 DEF BusInv, BusTypeOK
  <1> HIDE DEF Left0, Left1
  <1>8. runs[d] + orphans[d] + Left0 <= 2 * (deliveries[d].attempts + faults + Uncounted(d))
    BY DEF Charged, Left0
  <1>9. runs'[d] + orphans'[d] + Left1 <= 2 * (deliveries[d].attempts + faults + Uncounted(d))
    BY <1>1, <1>5, <1>6, <1>7, <1>8
  <1> QED
    BY <1>2, <1>4, <1>9 DEF Charged, Left1

(* The other steps, and deliveries that are posted by them. *)
LEMMA StepIsCharged ==
    ASSUME BusInv, RunsAreCharged, [Next]_vars, BusInv', NEW d \in DOMAIN deliveries
    PROVE  Charged(d)'
  <1> DEFINE attempts == deliveries[d].attempts
             owed == Uncounted(d)
  <1>1. /\ runs[d] \in Nat /\ orphans[d] \in Nat /\ faults \in Nat
        /\ attempts \in Nat /\ Left(d) \in 0..2 /\ owed \in 0..1
        /\ drain.invocation \in {1, 2} /\ drain.handled \in BOOLEAN
    BY ChargesAreNumbers
  <1>2. runs[d] + orphans[d] + Left(d) <= 2 * (attempts + faults + owed)
    BY DEF RunsAreCharged, Charged
  <1>3. d \in Ids /\ runs \in [Ids -> Nat] /\ orphans \in [Ids -> Nat]
    BY BusFacts DEF BusInv, BusTypeOK
  <1>4. deliveries'[d].attempts \in Nat /\ runs'[d] \in Nat /\ orphans'[d] \in Nat
    <2>1. runs'[d] \in Nat /\ orphans'[d] \in Nat
      BY <1>3 DEF BusInv, BusTypeOK
    <2>2. deliveries'[d].attempts \in {attempts, attempts + 1}
      BY RowsMoved
    <2> HIDE DEF attempts
    <2> QED BY <1>1, <2>1, <2>2
  <1>5. Left(d)' \in 0..2 /\ Uncounted(d)' \in 0..1
    <2>1. drain'.invocation \in {1, 2} /\ drain'.handled \in BOOLEAN
      BY DEF BusInv, BusTypeOK, DrainStates
    <2> QED BY <2>1 DEF Left, Uncounted
  (* Nobody works on d: what was counted stays counted.                      *)
  <1>6. ASSUME UNCHANGED <<drain, runs, orphans>>, ~MarkSucceeded, ~MarkRetry,
               faults' \in Nat, faults <= faults'
        PROVE  Charged(d)'
    <2>1. /\ deliveries'[d].status = deliveries[d].status
          /\ deliveries'[d].attempts = attempts
      BY <1>6, RowsMoved
    <2>2. Left(d)' = Left(d) /\ Uncounted(d)' = owed
      BY <1>6, <2>1 DEF Left, Uncounted, Working, InWorker
    <2> HIDE DEF attempts, owed
    <2> QED BY <1>1, <1>2, <1>6, <2>1, <2>2 DEF Charged
  <1>7. ASSUME NEW e \in Ids, NEW reachable \in BOOLEAN, Send(e, reachable)
        PROVE  Charged(d)'
    <2>1. /\ UNCHANGED <<deliveries, runs, orphans, faults>> /\ drain.step = "idle"
          /\ drain'.id = e /\ drain'.step # "idle"
      BY <1>7 DEF Send
    <2>2. Left(d) = 0
      BY <2>1 DEF Left, Working
    <2>3. CASE d = e
      <3>1. Uncounted(d)' = 1 /\ owed = 0
        <4>1. deliveries[d].status = "pending"
          BY <1>7, <2>3 DEF Send, BusInv, SnapshotIsCurrent
        <4> QED BY <2>1, <2>3, <4>1 DEF Uncounted, Working
      <3> HIDE DEF attempts, owed
      <3>2. 2 * (attempts + faults + 1) = 2 * (attempts + faults + 0) + 2
        BY <1>1
      <3> QED BY <1>1, <1>2, <1>5, <2>1, <2>2, <3>1, <3>2 DEF Charged, attempts
    <2>4. CASE d # e
      <3>1. Uncounted(d)' = owed /\ Left(d)' = 0
        BY <2>1, <2>4 DEF Uncounted, Working, Left
      <3> QED BY <1>1, <1>2, <2>1, <2>2, <3>1 DEF Charged
    <2> QED BY <2>3, <2>4
  <1>8. CASE Marked
    <2>1. /\ drain.step \in {"done", "error"} /\ drain' = Quiet
          /\ UNCHANGED <<runs, orphans>>
      BY <1>8 DEF Marked, MarkSucceeded, MarkRetry, MarkFails, NextDelivery
    <2>2. Left(d) = 0 /\ Left(d)' = 0
      BY <2>1 DEF Left, InWorker, Working, Quiet
    <2>3. ~Working(d)'
      BY <2>1 DEF Working, Quiet
    <2>4. CASE MarkSucceeded
      <3>1. /\ faults' = faults /\ deliveries'[d].attempts = attempts
            /\ Uncounted(d)' >= owed
        <4>1. faults' = faults /\ ~MarkRetry
          BY <2>4 DEF MarkSucceeded, MarkRetry
        <4>2. CASE deliveries'[d].status = "succeeded"
          BY <4>1, <4>2, RowsMoved, <1>1 DEF Uncounted
        <4>3. CASE deliveries'[d].status # "succeeded"
          <5>1. d # drain.id
            BY <2>4, <4>3, BusFacts, <2>1 DEF MarkSucceeded, Rows
          <5>2. deliveries'[d].status = deliveries[d].status
            BY <4>1, <5>1, RowsMoved
          <5> QED BY <4>1, <4>3, <5>1, <5>2, RowsMoved DEF Uncounted, Working
        <4> QED BY <4>2, <4>3
      <3> HIDE DEF attempts, owed
      <3> QED BY <1>1, <1>2, <1>5, <2>1, <2>2, <3>1 DEF Charged
    <2>5. CASE MarkRetry
      <3>1. faults' = faults /\ ~MarkSucceeded
        BY <2>5 DEF MarkRetry, MarkSucceeded
      <3>2. CASE d = drain.id
        <4>1. deliveries'[d].attempts = attempts + 1
          <5>1. /\ d \in DOMAIN deliveries /\ deliveries \in Seq(Rows) /\ deliveries[d] \in Rows
                /\ batch[d] = attempts
            BY <2>1, <3>2, BusFacts DEF BusInv, SnapshotIsCurrent
          <5> QED BY <2>5, <3>2, <5>1 DEF MarkRetry, Rows
        <4> HIDE DEF attempts, owed
        <4> QED BY <1>1, <1>2, <1>5, <2>1, <2>2, <3>1, <4>1 DEF Charged
      <3>3. CASE d # drain.id
        <4>1. /\ deliveries'[d].status = deliveries[d].status
              /\ deliveries'[d].attempts = attempts
          BY <3>1, <3>3, RowsMoved
        <4>2. Uncounted(d)' = owed
          BY <2>3, <3>3, <4>1 DEF Uncounted, Working
        <4> HIDE DEF attempts, owed
        <4> QED BY <1>1, <1>2, <2>1, <2>2, <3>1, <4>1, <4>2 DEF Charged
      <3> QED BY <3>2, <3>3
    <2>6. CASE MarkFails
      <3>1. faults' = faults + 1 /\ deliveries'[d].attempts = attempts
        BY <2>6 DEF MarkFails
      <3> HIDE DEF attempts, owed
      <3> QED BY <1>1, <1>2, <1>5, <2>1, <2>2, <3>1 DEF Charged
    <2> QED BY <1>8, <2>4, <2>5, <2>6 DEF Marked
  <1>9. ASSUME NEW e \in Ids, NEW handled \in BOOLEAN, OrphanEnds(e, handled)
        PROVE  Charged(d)'
    <2>1. UNCHANGED <<deliveries, drain, faults>>
      BY <1>9 DEF OrphanEnds
    <2>2. Left(d)' = Left(d) /\ Uncounted(d)' = owed
      BY <2>1 DEF Left, Uncounted, Working, InWorker
    <2>3. runs'[d] + orphans'[d] <= runs[d] + orphans[d]
      BY <1>1, <1>3, <1>9 DEF OrphanEnds
    <2> QED BY <1>1, <1>2, <1>4, <2>1, <2>2, <2>3 DEF Charged
  <1>10. CASE Restart
    <2>1. /\ faults' = faults + 1 /\ UNCHANGED <<deliveries, runs>>
          /\ orphans'[d] = 0 /\ drain' = Quiet
      BY <1>3, <1>10 DEF Restart
    <2>2. Left(d)' = 0
      BY <2>1 DEF Left, Working, Quiet
    <2> HIDE DEF owed
    <2> QED BY <1>1, <1>2, <1>5, <2>1, <2>2 DEF Charged
  <1>11. CASE PublisherStep \/ Scan \/ UNCHANGED vars \/ \E e \in Ids : BackoffEnds(e)
    <2>1. UNCHANGED <<drain, runs, orphans>> /\ faults' \in {faults, faults + 1}
      <3>1. CASE PublisherStep
        BY <3>1, Zenon DEF PublisherStep, Publish, PostDelivery, PostFails
      <3>2. CASE Scan \/ UNCHANGED vars
        BY <3>2 DEF Scan, vars
      <3>3. CASE \E e \in Ids : BackoffEnds(e)
        BY <3>3 DEF BackoffEnds
      <3> QED BY <1>11, <3>1, <3>2, <3>3
    <2>2. CASE MarkSucceeded \/ MarkRetry
      BY <1>8, <2>2 DEF Marked
    <2> QED BY <1>1, <1>6, <2>1, <2>2
  <1> QED
    BY <1>7, <1>8, <1>9, <1>10, <1>11, WorkIsCharged
    DEF Next, DrainStep, DeliveryStep, RunsAreCharged

LEMMA ChargedStep ==
    ASSUME BusInv, RunsAreCharged, [Next]_vars
    PROVE  RunsAreCharged'
  <1>1. BusInv'
    BY BusStep
  <1>2. ASSUME NEW d \in DOMAIN deliveries', d \notin DOMAIN deliveries
        PROVE  Charged(d)'
    <2>1. deliveries' # deliveries
      BY <1>2
    <2>2. PICK p \in Publishers : PostDelivery(p)
      <3>1. ASSUME Marked \/ \E e \in Ids : BackoffEnds(e)
            PROVE  DOMAIN deliveries' = DOMAIN deliveries
        BY <3>1 DEF Marked, MarkSucceeded, MarkRetry, MarkFails, BackoffEnds
      <3> QED
        BY <1>2, <2>1, <3>1
        DEF Next, PublisherStep, DrainStep, DeliveryStep, Publish, PostFails, Scan, Send,
            Handle, Answered, Reply, Break, Timeout, OrphanEnds, Restart, vars
    <2>3. UNCHANGED <<runs, orphans, drain, faults>>
      BY <2>2 DEF PostDelivery
    <2>0. d \in 1..Len(deliveries') /\ Len(deliveries') \in Nat /\ deliveries'[d] \in Rows
      BY <1>1, <1>2, LenProperties DEF BusInv, BusTypeOK
    <2>4. d \in Ids /\ runs[d] \in Nat /\ orphans[d] \in Nat /\ faults \in Nat
      <3>1. d \in Ids
        BY <1>1, <2>0, BusAssumption DEF BusInv, BusTypeOK, Ids
      <3> QED BY <3>1, BusAssumption DEF BusInv, BusTypeOK
    <2>5. runs[d] = 0 /\ orphans[d] = 0
      BY <1>2, <2>4 DEF BusInv, InvokedIsPosted, Posted
    <2>6. Left(d)' = 0
      BY <1>2, <2>3, BusFacts DEF Left, Working
    <2>7. deliveries'[d].attempts \in Nat /\ Uncounted(d)' \in 0..1
      BY <2>0, BusAssumption DEF Rows, Uncounted
    <2> QED BY <2>3, <2>4, <2>5, <2>6, <2>7 DEF Charged
  <1> QED
    BY <1>1, <1>2, StepIsCharged DEF RunsAreCharged

LEMMA ChargedInitially == Init => RunsAreCharged
  BY DEF Init, RunsAreCharged

-----------------------------------------------------------------------------
(* Every reachable state satisfies the strengthened invariant: the snapshot  *)
(* the drain works from is never stale and no untried delivery is skipped.   *)
THEOREM BusInvariant == Safety => []BusInv
  BY BusInitially, BusStep, PTL DEF Safety

(* The event bus keeps its types: batches and the delivery under way name    *)
(* rows that exist.                                                          *)
THEOREM BusTypeCorrect == Safety => []BusTypeOK
  <1>1. BusInv => BusTypeOK
    BY DEF BusInv
  <1> QED
    BY <1>1, BusInvariant, PTL

(* mark_delivery_retry gives a delivery up exactly when its attempts are     *)
(* used up, and nothing that has settled is attempted again.                 *)
THEOREM GivenUpOnlyWhenExhausted == Safety => []GivenUpWhenExhausted
  <1>1. BusInv => GivenUpWhenExhausted
    BY DEF BusInv
  <1> QED
    BY <1>1, BusInvariant, PTL

(* list_pending_deliveries and the drain try deliveries for the first time   *)
(* in the order they were inserted, over faults, timeouts and restarts.      *)
THEOREM FirstTriesAreInOrder == Safety => []FirstTriesInOrder
  <1>1. BusInv => FirstTriesInOrder
    BY DEF BusInv
  <1> QED
    BY <1>1, BusInvariant, PTL

(* A handler runs at most twice for each attempt that is counted, for the    *)
(* one that is not yet, and for each that a fault left uncounted.            *)
THEOREM HandlerRunsAreBounded == Safety => []RunsAreBounded
  <1>1. BusInv /\ RunsAreCharged => RunsAreBounded
    <2> SUFFICES ASSUME BusInv, RunsAreCharged, NEW d \in DOMAIN deliveries
                 PROVE  runs[d] <= 2 * (deliveries[d].attempts + faults + 1)
      BY DEF RunsAreBounded
    <2> QED BY ChargesAreNumbers DEF RunsAreCharged, Charged
  <1>2. Safety => []RunsAreCharged
    BY ChargedInitially, ChargedStep, BusInvariant, PTL DEF Safety
  <1> QED
    BY <1>1, <1>2, BusInvariant, PTL

-----------------------------------------------------------------------------
(* The bus implements the safety part of HookDelivery. *)

(* What HookDelivery sees of the bus. *)
StatusSeen  == [d \in Ids |-> IF Posted(d) THEN deliveries[d].status ELSE "absent"]
ReachedSeen == {d \in Ids : runs[d] > 0}

LEMMA SeenInitially == Init => Delivery!Init
  <1> SUFFICES ASSUME Init PROVE Delivery!Init
    OBVIOUS
  <1>1. \A d \in Ids : ~Posted(d) /\ ~(runs[d] > 0)
    BY DEF Init, Posted
  <1> QED
    BY <1>1 DEF Delivery!Init

LEMMA NothingSeen ==
    ASSUME UNCHANGED <<StatusSeen, ReachedSeen>>
    PROVE  [Delivery!Next]_(Delivery!abstractVars)
  BY DEF Delivery!abstractVars, StatusSeen, ReachedSeen

LEMMA ReachSeen ==
    ASSUME BusInv, UNCHANGED deliveries, NEW d \in Ids, Posted(d),
           runs' = [runs EXCEPT ![d] = @ + 1]
    PROVE  [Delivery!Next]_(Delivery!abstractVars)
  <1>1. StatusSeen' = StatusSeen /\ StatusSeen[d] # "absent"
    BY BusFacts DEF StatusSeen, Posted, Rows, Statuses
  <1>2. ReachedSeen' = ReachedSeen \cup {d}
    <2>1. \A e \in Ids : runs'[e] > 0 <=> e = d \/ runs[e] > 0
      BY DEF BusInv, BusTypeOK
    <2> QED BY <2>1 DEF ReachedSeen
  <1>3. Delivery!Reach(d)
    BY <1>1, <1>2 DEF Delivery!Reach, StatusSeen, ReachedSeen
  <1> QED
    BY <1>3 DEF Delivery!Next

LEMMA PostSeen ==
    ASSUME BusInv, NEW p \in Publishers, PostDelivery(p)
    PROVE  [Delivery!Next]_(Delivery!abstractVars)
  <1> DEFINE row == [handler |-> Head(toPost[p]), status |-> "pending",
                     attempts |-> 0, due |-> TRUE]
             new == Len(deliveries) + 1
  <1>1. /\ toPost[p] \in Seq(Handlers) /\ toPost[p] # <<>>
        /\ Len(deliveries) < MaxDeliveries
        /\ deliveries' = Append(deliveries, row)
        /\ runs' = runs
    BY DEF BusInv, BusTypeOK, PostDelivery, Room
  <1>2. row \in Rows /\ row.status = "pending"
    BY <1>1, HeadTailProperties, BusAssumption DEF Rows, Statuses
  <1> HIDE DEF row
  <1>3. /\ DOMAIN deliveries' = DOMAIN deliveries \cup {new}
        /\ \A d \in DOMAIN deliveries : deliveries'[d] = deliveries[d]
        /\ deliveries'[new] = row
    BY <1>1, <1>2, DeliveryInsert, BusFacts
  <1>4. new \in Ids /\ new \notin DOMAIN deliveries
    BY <1>1, BusFacts, BusAssumption DEF Ids
  <1>5. StatusSeen[new] = "absent" /\ StatusSeen' = [StatusSeen EXCEPT ![new] = "pending"]
    BY <1>2, <1>3, <1>4 DEF StatusSeen, Posted
  <1>6. ReachedSeen' = ReachedSeen
    BY <1>1 DEF ReachedSeen
  <1>7. ASSUME NEW i \in Ids, i = new PROVE Delivery!Next
    <2>1. Delivery!Post(i)
      BY <1>5, <1>6, <1>7 DEF Delivery!Post, StatusSeen, ReachedSeen
    <2> QED BY <2>1 DEF Delivery!Next
  <1> QED
    BY <1>4, <1>7

LEMMA MarkSeen ==
    ASSUME BusInv, Marked
    PROVE  [Delivery!Next]_(Delivery!abstractVars)
  <1>1. /\ drain.step \in {"done", "error"} /\ drain.step # "idle" /\ runs' = runs
    BY DEF Marked, MarkSucceeded, MarkRetry, MarkFails, NextDelivery
  <1>2. /\ drain.id \in DOMAIN deliveries /\ drain.id \in Ids
        /\ deliveries[drain.id].status = "pending"
        /\ deliveries[drain.id] \in Rows /\ deliveries \in Seq(Rows)
    BY <1>1, BusFacts
  <1>3. ReachedSeen' = ReachedSeen
    BY <1>1 DEF ReachedSeen
  <1>4. ASSUME NEW row \in Rows, deliveries' = [deliveries EXCEPT ![drain.id] = row]
        PROVE  StatusSeen' = [StatusSeen EXCEPT ![drain.id] = row.status]
    <2>1. /\ DOMAIN deliveries' = DOMAIN deliveries
          /\ \A e \in DOMAIN deliveries :
                deliveries'[e] = IF e = drain.id THEN row ELSE deliveries[e]
      BY <1>2, <1>4, DeliveryUpdate
    <2> DEFINE after == [d \in Ids |-> IF d \in DOMAIN deliveries' THEN deliveries'[d].status
                                      ELSE "absent"]
    <2>2. after = [StatusSeen EXCEPT ![drain.id] = row.status]
      BY <1>2, <2>1 DEF StatusSeen, Posted
    <2> QED BY <2>2 DEF StatusSeen, Posted
  <1>5. StatusSeen[drain.id] = "pending"
    BY <1>2 DEF StatusSeen, Posted
  <1>6. CASE MarkSucceeded
    <2> DEFINE row == [deliveries[drain.id] EXCEPT !.status = "succeeded"]
    <2>1. row \in Rows /\ row.status = "succeeded"
      BY <1>2 DEF Rows, Statuses
    <2>2. deliveries' = [deliveries EXCEPT ![drain.id] = row]
      BY <1>6 DEF MarkSucceeded
    <2> HIDE DEF row
    <2>3. StatusSeen' = [StatusSeen EXCEPT ![drain.id] = "succeeded"]
      BY <2>1, <2>2, <1>4
    <2>4. runs[drain.id] > 0
      BY <1>6 DEF BusInv, DoneWasHandled, MarkSucceeded
    <2>5. ASSUME NEW i \in Ids, i = drain.id PROVE Delivery!Next
      <3>1. Delivery!Succeed(i)
        BY <1>3, <1>5, <2>3, <2>4, <2>5 DEF Delivery!Succeed, StatusSeen, ReachedSeen
      <3> QED BY <3>1 DEF Delivery!Next
    <2> QED BY <1>2, <2>5
  <1>7. CASE MarkRetry
    <2>1. PICK row \in Rows : /\ deliveries' = [deliveries EXCEPT ![drain.id] = row]
                              /\ row.status \in {"failed", "pending"}
      <3> DEFINE attempts == batch[drain.id] + 1
                 status == IF attempts >= MaxAttempts THEN "failed" ELSE "pending"
                 row == [deliveries[drain.id] EXCEPT !.attempts = attempts,
                                                     !.status = status, !.due = FALSE]
      <3>1. deliveries' = [deliveries EXCEPT ![drain.id] = row]
        BY <1>7 DEF MarkRetry
      <3>2. batch[drain.id] = deliveries[drain.id].attempts
        BY <1>1, BusFacts DEF BusInv, SnapshotIsCurrent
      <3>3. batch[drain.id] \in 0..MaxAttempts /\ batch[drain.id] # MaxAttempts
        BY <1>2, <3>2 DEF BusInv, GivenUpWhenExhausted, Rows
      <3>4. attempts \in 0..MaxAttempts /\ status \in {"failed", "pending"}
        BY <3>3, BusAssumption
      <3>5. row \in Rows /\ row.status \in {"failed", "pending"}
        <4> HIDE DEF attempts, status
        <4> QED BY <1>2, <3>4 DEF Rows, Statuses
      <3> HIDE DEF row
      <3> QED BY <3>1, <3>5
    <2>2. StatusSeen' = [StatusSeen EXCEPT ![drain.id] = row.status]
      BY <2>1, <1>4
    <2>3. CASE row.status = "failed"
      <3>1. ASSUME NEW i \in Ids, i = drain.id PROVE Delivery!Next
        <4>1. Delivery!GiveUp(i)
          BY <1>3, <1>5, <2>2, <2>3, <3>1 DEF Delivery!GiveUp, StatusSeen, ReachedSeen
        <4> QED BY <4>1 DEF Delivery!Next
      <3> QED BY <1>2, <3>1
    <2>4. CASE row.status = "pending"
      <3>1. StatusSeen' = StatusSeen
        BY <1>2, <1>5, <2>2, <2>4 DEF StatusSeen
      <3> QED BY <1>3, <3>1, NothingSeen
    <2> QED BY <2>1, <2>3, <2>4
  <1>8. CASE MarkFails
    <2>1. StatusSeen' = StatusSeen
      BY <1>8 DEF MarkFails, StatusSeen, Posted
    <2> QED BY <1>3, <2>1, NothingSeen
  <1> QED
    BY <1>6, <1>7, <1>8 DEF Marked

LEMMA BackoffSeen ==
    ASSUME BusInv, NEW d \in Ids, BackoffEnds(d)
    PROVE  [Delivery!Next]_(Delivery!abstractVars)
  <1> DEFINE row == [deliveries[d] EXCEPT !.due = TRUE]
  <1>1. /\ d \in DOMAIN deliveries /\ deliveries[d] \in Rows /\ deliveries \in Seq(Rows)
        /\ deliveries' = [deliveries EXCEPT ![d] = row] /\ runs' = runs
    BY BusFacts DEF BackoffEnds
  <1>2. row \in Rows /\ row.status = deliveries[d].status
    BY <1>1 DEF Rows
  <1> HIDE DEF row
  <1>3. /\ DOMAIN deliveries' = DOMAIN deliveries
        /\ \A e \in DOMAIN deliveries : deliveries'[e].status = deliveries[e].status
    BY <1>1, <1>2, DeliveryUpdate
  <1>4. StatusSeen' = StatusSeen /\ ReachedSeen' = ReachedSeen
    BY <1>1, <1>3 DEF StatusSeen, ReachedSeen, Posted
  <1> QED
    BY <1>4, NothingSeen

LEMMA StepSeen == BusInv /\ [Next]_vars => [Delivery!Next]_(Delivery!abstractVars)
  <1> SUFFICES ASSUME BusInv, [Next]_vars PROVE [Delivery!Next]_(Delivery!abstractVars)
    OBVIOUS
  <1>1. ASSUME UNCHANGED <<deliveries, runs>> PROVE [Delivery!Next]_(Delivery!abstractVars)
    <2>1. UNCHANGED <<StatusSeen, ReachedSeen>>
      BY <1>1 DEF StatusSeen, ReachedSeen, Posted
    <2> QED BY <2>1, NothingSeen
  <1>2. CASE UNCHANGED vars
    BY <1>1, <1>2 DEF vars
  <1>3. CASE PublisherStep
    <2>1. (\E p \in Publishers : PostDelivery(p)) \/ UNCHANGED <<deliveries, runs>>
      BY <1>3 DEF PublisherStep, Publish, PostFails
    <2> QED BY <1>1, <2>1, PostSeen
  <1>4. CASE DrainStep
    <2>1. Handle \/ Marked \/ UNCHANGED <<deliveries, runs>>
      BY <1>4 DEF DrainStep, Scan, Send, Answered, Reply, Break, Timeout
    <2>2. CASE Handle
      <3>1. /\ drain.id \in DOMAIN deliveries /\ UNCHANGED deliveries
            /\ runs' = [runs EXCEPT ![drain.id] = @ + 1]
        BY <2>2, BusFacts DEF Handle, InWorker
      <3> QED BY <3>1, BusFacts, ReachSeen DEF Posted
    <2> QED BY <1>1, <2>1, <2>2, MarkSeen
  <1>5. CASE DeliveryStep
    <2>1. CASE \E d \in Ids : BackoffEnds(d)
      BY <2>1, BackoffSeen
    <2>2. ASSUME NEW d \in Ids, NEW handled \in BOOLEAN, OrphanEnds(d, handled)
          PROVE  [Delivery!Next]_(Delivery!abstractVars)
      <3>1. /\ UNCHANGED deliveries
            /\ runs' = IF handled THEN [runs EXCEPT ![d] = @ + 1] ELSE runs
            /\ Posted(d)
        BY <2>2 DEF OrphanEnds, BusInv, InvokedIsPosted
      <3> QED BY <1>1, <3>1, ReachSeen
    <2> QED BY <1>5, <2>1, <2>2 DEF DeliveryStep
  <1>6. CASE Restart
    BY <1>1, <1>6 DEF Restart
  <1> QED
    BY <1>2, <1>3, <1>4, <1>5, <1>6 DEF Next

(* Whatever fails, times out or restarts, the bus does to each delivery only *)
(* what HookDelivery allows: no success is reported of a hook whose handler  *)
(* never ran, and what has settled stays as it is.                           *)
THEOREM BusImplementsDelivery == Safety => Delivery!Safety
  BY SeenInitially, StepSeen, BusInvariant, PTL DEF Safety, Delivery!Safety
=============================================================================
