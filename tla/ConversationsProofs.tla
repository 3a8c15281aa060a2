-------------------------- MODULE ConversationsProofs --------------------------
(***************************************************************************)
(* Theorems about conversations: what the conversation extension stores    *)
(* (Conversations), for every number of workers, branches and messages,    *)
(* and the turns of agents the workflow extension drives                   *)
(* (ConversationTurns), for any workers, messages and agents and any       *)
(* bounds on operations, attempts and deaths.                              *)
(***************************************************************************)
EXTENDS Conversations, ConversationTurns, FiniteSetTheorems, SequenceTheorems,
        WellFoundedInduction, TLAPS

-----------------------------------------------------------------------------
(* What is stored: the inductive invariant. *)

Statuses == {"active", "deleted", "none"}
Gone     == {"unconv", "unlane", "unmessage", "unbranch"}
StatementKinds == {"conv", "lane", "branch", "message", "choose"} \cup Gone
Rows     == [status : Statuses, parent : 0..MaxBranches, source : 0..MaxMessages,
             inherit : {"inclusive", "exclusive", "none"}]
Writes   == [kind : StatementKinds, id : 0..MaxBranches, row : Rows, lane : 0..MaxBranches,
             without : SUBSET BranchIds]

(* The writes of a call are made by one of its worker, in order. *)
CallsTyped == calls \in [ConvWorkers -> [todo : Seq(Writes), alone : BOOLEAN]]

(* Rows have ids that were drawn. *)
IdsAreDrawn ==
    /\ conv.active <= ids
    /\ \A b \in BranchIds : (branches[b] # NoBranch \/ lanes[b] # "none") => b <= ids

(* A branch is younger than its parent, and a message it rewrites is         *)
(* another's.                                                                *)
HidesSource(b, row) ==
    ~history.purged /\ row.inherit = "exclusive" /\ row.source # 0 =>
        row.source \in DOMAIN messages /\ messages[row.source].branch # b

SoundRow(b, row) == row \in BranchRows /\ row.parent < b /\ HidesSource(b, row)

RowsAreSound == \A b \in Known : \A row \in {branches[b]} : SoundRow(b, row)

(* So are the rows that are still to be written. *)
SoundWrite(it) ==
    /\ it.kind = "branch" => it.id \in 1..ids /\ SoundRow(it.id, it.row)
    /\ it.kind = "lane" => it.id \in 1..ids /\ it.row.status \in {"active", "deleted"}
    /\ it.kind = "message" => it.id \in 1..ids /\ it.lane \in 1..ids
    /\ it.kind = "conv" => it.id \in 0..ids
    /\ it.kind \in Gone => history.purged

(* A branch that is made active has a row, or is given one before; the main  *)
(* branch gets it last. *)
ActiveLater(todo, k) ==
    \/ todo[k].id \in Known \cup {0, 1}
    \/ \E l \in 1..(k - 1) : todo[l].kind = "branch" /\ todo[l].id = todo[k].id

Todo(w) == {calls[w].todo}

WritesAreSound ==
    \A w \in ConvWorkers : \A todo \in Todo(w) : \A k \in DOMAIN todo :
        /\ SoundWrite(todo[k])
        /\ ~history.purged /\ todo[k].kind = "conv" => ActiveLater(todo, k)

(* A call that deletes the conversation does nothing else. *)
DeletionsAreWhole ==
    \A w \in ConvWorkers : \A todo \in Todo(w) : \A k, l \in DOMAIN todo :
        todo[k].kind \in Gone => todo[l].kind \in Gone

ActiveIsKnown ==
    ~history.purged => /\ conv.active \in Known \cup {0, 1}
                       /\ history.opened => 1 \in Known

(* What a call that overlaps with no other is about to write as active was   *)
(* not deleted, and nothing it writes before deletes it.                     *)
Undeleted(todo, k) ==
    /\ branches[todo[k].id].status # "deleted"
    /\ branches[todo[k].id] = NoBranch =>
          /\ lanes[todo[k].id] # "deleted"
          /\ \A l \in DOMAIN todo : todo[l].kind = "lane" /\ todo[l].id = todo[k].id
                                       => todo[l].row.status = "active"
    /\ \A l \in 1..(k - 1) : todo[l].kind = "branch" /\ todo[l].id = todo[k].id
                                => todo[l].row.status = "active"

AloneWritesLive ==
    \A w \in ConvWorkers : calls[w].alone /\ ~FreeWorker(w) =>
        /\ \A u \in ConvWorkers \ {w} : FreeWorker(u)
        /\ \A todo \in Todo(w) : \A k \in DOMAIN todo :
              todo[k].kind = "branch" /\ todo[k].row.status = "active" => Undeleted(todo, k)

ConvInv ==
    /\ ConvTypeOK
    /\ CallsTyped
    /\ IdsAreDrawn
    /\ RowsAreSound
    /\ WritesAreSound
    /\ DeletionsAreWhole
    /\ ActiveIsKnown
    /\ AloneWritesLive

-----------------------------------------------------------------------------
(* Numbers and sets of numbers. *)

LEMMA LeastOf ==
    ASSUME NEW T, T \subseteq Nat, T # {}
    PROVE  \E n \in T : \A m \in T : n <= m
  <1>1. PICK n \in T : \A m \in T : ~ (<<m, n>> \in OpToRel(<, Nat))
    BY WFMin, NatLessThanWellFounded
  <1>2. ASSUME NEW m \in T PROVE n <= m
    <2>1. ~(m < n)
      BY <1>1 DEF OpToRel
    <2> QED BY <2>1
  <1> QED BY <1>2

(* Induction up to N, over the set of the numbers of which it holds. *)
LEMMA UpTo ==
    ASSUME NEW N \in Nat, NEW S, 0 \in S,
           \A n \in 0..N : n \in S /\ n < N => n + 1 \in S
    PROVE  0..N \subseteq S
  <1> SUFFICES ASSUME (0..N) \ S # {} PROVE FALSE
    OBVIOUS
  <1>1. PICK n \in (0..N) \ S : \A m \in (0..N) \ S : n <= m
    <2>1. (0..N) \ S \subseteq Nat
      OBVIOUS
    <2> QED BY <2>1, LeastOf
  <1>2. n # 0 /\ n - 1 \in 0..N /\ n - 1 < N /\ n - 1 < n
    BY <1>1
  <1>3. n - 1 \in S
    BY <1>1, <1>2
  <1> QED BY <1>1, <1>2, <1>3

(* A finite set of numbers can be listed in order. *)
LEMMA CanBeOrdered ==
    ASSUME NEW N \in Nat
    PROVE  \A S \in SUBSET (0..N) :
              /\ Cardinality(S) \in Nat
              /\ \E s \in [1..Cardinality(S) -> S] :
                    \A i, j \in DOMAIN s : i < j => s[i] < s[j]
  <1> DEFINE Sorted(S) == \E s \in [1..Cardinality(S) -> S] :
                              \A i, j \in DOMAIN s : i < j => s[i] < s[j]
             Good == {n \in Nat : \A S \in SUBSET (0..N) : Cardinality(S) = n => Sorted(S)}
  <1>1. \A S \in SUBSET (0..N) : IsFiniteSet(S) /\ Cardinality(S) \in 0..(N + 1)
    <2>1. IsFiniteSet(0..N) /\ Cardinality(0..N) = N + 1
      BY FS_Interval
    <2>2. \A S \in SUBSET (0..N) : IsFiniteSet(S) /\ Cardinality(S) <= N + 1
      BY <2>1, FS_Subset
    <2>3. \A S \in SUBSET (0..N) : Cardinality(S) \in Nat
      BY <2>2, FS_CardinalityType
    <2> QED BY <2>2, <2>3
  <1>2. 0 \in Good
    <2>1. ASSUME NEW S \in SUBSET (0..N), Cardinality(S) = 0 PROVE Sorted(S)
      <3>1. [i \in 1..0 |-> i] \in [1..0 -> S]
        OBVIOUS
      <3> QED BY <2>1, <3>1
    <2> QED BY <2>1
  <1>3. ASSUME NEW n \in 0..(N + 1), n \in Good PROVE n + 1 \in Good
    <2> SUFFICES ASSUME NEW S \in SUBSET (0..N), Cardinality(S) = n + 1 PROVE Sorted(S)
      OBVIOUS
    <2>1. PICK m \in S : \A k \in S : k <= m
      <3>1. S # {}
        BY <1>1, FS_EmptySet
      <3>a. {N - k : k \in S} \subseteq Nat
        <4>1. \A k \in S : k \in 0..N /\ N - k \in Nat
          OBVIOUS
        <4> QED BY <4>1
      <3>b. {N - k : k \in S} # {}
        BY <3>1
      <3>3. PICK d \in {N - k : k \in S} : \A e \in {N - k : k \in S} : d <= e
        BY <3>a, <3>b, LeastOf
      <3>4. PICK m \in S : d = N - m
        BY <3>3
      <3>5. ASSUME NEW k \in S PROVE k <= m
        <4>1. N - m <= N - k
          BY <3>3, <3>4
        <4> QED BY <4>1
      <3> QED BY <3>5
    <2>2. S \ {m} \in SUBSET (0..N) /\ Cardinality(S \ {m}) = n
      <3>1. IsFiniteSet(S)
        BY <1>1
      <3>2. Cardinality(S \ {m}) = Cardinality(S) - 1
        BY <3>1, FS_RemoveElement
      <3>3. Cardinality(S \ {m}) = n
        BY <3>2
      <3> QED BY <3>3
    <2>3. PICK s \in [1..n -> S \ {m}] : \A i, j \in DOMAIN s : i < j => s[i] < s[j]
      BY <1>3, <2>2
    <2> DEFINE t == [i \in 1..(n + 1) |-> IF i = n + 1 THEN m ELSE s[i]]
    <2>4. t \in [1..(n + 1) -> S]
      OBVIOUS
    <2>5. ASSUME NEW i \in 1..(n + 1), NEW j \in 1..(n + 1), i < j PROVE t[i] < t[j]
      <3>1. CASE j = n + 1
        <4>1. i \in 1..n /\ t[j] = m /\ t[i] = s[i]
          BY <2>5, <3>1
        <4>2. s[i] \in S /\ s[i] # m /\ s[i] <= m
          BY <2>1, <2>3, <4>1
        <4>3. s[i] \in 0..N /\ m \in 0..N
          BY <4>2
        <4> HIDE DEF t
        <4> QED BY <4>1, <4>2, <4>3
      <3>2. CASE j # n + 1
        BY <2>3, <2>5, <3>2
      <3> QED BY <3>1, <3>2
    <2> QED BY <2>4, <2>5
  <1>4. 0..(N + 1) \subseteq Good
    <2> HIDE DEF Good
    <2> QED BY <1>2, <1>3, UpTo
  <1> QED BY <1>1, <1>4

LEMMA OrderedIs ==
    ASSUME NEW N \in Nat, NEW S \in SUBSET (0..N)
    PROVE  Cardinality(S) \in Nat /\ Ordered(S) \in [1..Cardinality(S) -> S]
  BY CanBeOrdered DEF Ordered

-----------------------------------------------------------------------------
(* What a branch shows. *)

LEMMA FirstIndex ==
    ASSUME NEW s \in Seq(Nat), NEW x
    PROVE  LET at == SelectInSeq(s, LAMBDA m : m = x) IN
           \/ at = 0 /\ \A i \in 1..Len(s) : s[i] # x
           \/ at \in 1..Len(s) /\ s[at] = x /\ \A i \in 1..(at - 1) : s[i] # x
  <1> DEFINE I == {i \in 1..Len(s) : s[i] = x}
             at == SelectInSeq(s, LAMBDA m : m = x)
  <1>1. Len(s) \in Nat
    BY LenProperties
  <1>2. at = IF I # {} THEN Min(I) ELSE 0
    BY DEF SelectInSeq
  <1>3. CASE I = {}
    BY <1>2, <1>3
  <1>4. CASE I # {}
    <2>1. I \subseteq Nat
      BY <1>1
    <2>2. \E n \in I : \A m \in I : n <= m
      BY <2>1, <1>4, LeastOf
    <2>3. Min(I) \in I /\ \A m \in I : Min(I) <= m
      <3> HIDE DEF I
      <3> QED BY <2>2 DEF Min
    <2>4. at = Min(I)
      BY <1>2, <1>4
    <2> HIDE DEF at
    <2>5. at \in 1..Len(s) /\ s[at] = x
      BY <2>3, <2>4
    <2>6. ASSUME NEW i \in 1..(at - 1) PROVE s[i] # x
      <3>1. i \in 1..Len(s) /\ ~(at <= i)
        BY <1>1, <2>5
      <3> QED BY <2>3, <2>4, <3>1
    <2> QED BY <2>5, <2>6 DEF at
  <1> QED BY <1>3, <1>4

LEMMA TrimIs ==
    ASSUME NEW s \in Seq(Nat), NEW row
    PROVE  /\ Trim(s, row) \in Seq(Nat)
           /\ row.inherit = "exclusive" => ~Contains(Trim(s, row), row.source)
  <1> DEFINE at == SelectInSeq(s, LAMBDA m : m = row.source)
             n  == IF row.inherit = "exclusive" THEN at - 1 ELSE at
  <1>1. Len(s) \in Nat /\ \A i \in 1..Len(s) : s[i] \in Nat
    BY LenProperties, ElementOfSeq
  <1>2. \/ at = 0 /\ \A i \in 1..Len(s) : s[i] # row.source
        \/ at \in 1..Len(s) /\ s[at] = row.source /\ \A i \in 1..(at - 1) : s[i] # row.source
    BY FirstIndex
  <1>3. Trim(s, row) = IF row.inherit = "none" THEN <<>> ELSE IF at = 0 THEN s ELSE SubSeq(s, 1, n)
    BY DEF Trim
  <1> HIDE DEF at
  <1>4. CASE row.inherit = "none"
    BY <1>3, <1>4
  <1>5. CASE row.inherit # "none" /\ at = 0
    BY <1>1, <1>2, <1>3, <1>5 DEF Contains
  <1>6. CASE row.inherit # "none" /\ at # 0
    <2>1. n \in 0..Len(s) /\ 1 \in 1..(Len(s) + 1)
      BY <1>1, <1>2, <1>6
    <2> HIDE DEF n
    <2>2. /\ SubSeq(s, 1, n) \in Seq(Nat) /\ Len(SubSeq(s, 1, n)) = n
          /\ \A i \in 1..n : SubSeq(s, 1, n)[i] = s[i]
      BY <1>1, <2>1, SubSeqProperties
    <2>3. Trim(s, row) = SubSeq(s, 1, n)
      BY <1>3, <1>6
    <2>4. ASSUME row.inherit = "exclusive" PROVE \A i \in 1..n : s[i] # row.source
      <3>1. n = at - 1
        BY <2>4 DEF n
      <3> QED BY <1>2, <1>6, <3>1
    <2> QED BY <2>2, <2>3, <2>4 DEF Contains
  <1> QED BY <1>4, <1>5, <1>6

LEMMA OwnIs ==
    ASSUME messages \in Seq([branch : 1..ids, lane : 1..ids]), NEW b
    PROVE  /\ Own(b) \in Seq(Nat)
           /\ \A m : Contains(Own(b), m) => m \in DOMAIN messages /\ messages[m].branch = b
  <1> DEFINE S == {m \in DOMAIN messages : messages[m].branch = b}
  <1>1. Len(messages) \in Nat /\ DOMAIN messages = 1..Len(messages)
    BY LenProperties
  <1>2. S \in SUBSET (0..Len(messages))
    BY <1>1
  <1>3. Cardinality(S) \in Nat /\ Ordered(S) \in [1..Cardinality(S) -> S]
    <2> HIDE DEF S
    <2> QED BY <1>1, <1>2, OrderedIs
  <1>4. Own(b) = Ordered(S)
    BY DEF Own
  <1>5. Own(b) \in [1..Cardinality(S) -> S] /\ S \subseteq Nat
    BY <1>1, <1>3, <1>4
  <1>6. Own(b) \in Seq(Nat) /\ Len(Own(b)) = Cardinality(S)
    <2>1. Own(b) \in [1..Cardinality(S) -> Nat]
      <3> HIDE DEF S
      <3> QED BY <1>5
    <2>2. Own(b) = [i \in 1..Cardinality(S) |-> Own(b)[i]]
          /\ \A i \in 1..Cardinality(S) : Own(b)[i] \in Nat
      <3> HIDE DEF S
      <3> QED BY <2>1
    <2> HIDE DEF S
    <2> QED BY <1>3, <2>1, <2>2, LenProperties
  <1>7. ASSUME NEW m, Contains(Own(b), m) PROVE m \in S
    <2> HIDE DEF S
    <2> QED BY <1>5, <1>6, <1>7 DEF Contains
  <1> QED BY <1>6, <1>7

(* What Visible is defined to be, from what it is for older branches. *)
Shown(f, b) ==
    IF b = 0 THEN <<>>
    ELSE (IF branches[b].parent \in 1..(b - 1) THEN Trim(f[branches[b].parent], branches[b])
          ELSE <<>>) \o Own(b)

LEMMA VisibleIs ==
    ASSUME messages \in Seq([branch : 1..ids, lane : 1..ids])
    PROVE  \A b \in 0..MaxBranches : Visible[b] = Shown(Visible, b) /\ Visible[b] \in Seq(Nat)
  <1> MaxBranches \in Nat
    BY ConvAssumption
  <1> DEFINE Views(n) == [0..n -> Seq(Nat)]
             Good == {n \in Nat : \E f \in Views(n) : \A b \in 0..n : f[b] = Shown(f, b)}
  <1>1. ASSUME NEW n \in Nat, NEW f \in Views(n), NEW b \in 0..(n + 1)
        PROVE  Shown(f, b) \in Seq(Nat)
    <2>1. <<>> \in Seq(Nat)
      BY EmptySeq
    <2>2. CASE b = 0
      BY <2>1, <2>2 DEF Shown
    <2>3. CASE b # 0
      <3> DEFINE up == IF branches[b].parent \in 1..(b - 1)
                       THEN Trim(f[branches[b].parent], branches[b]) ELSE <<>>
      <3>1. up \in Seq(Nat)
        <4>1. CASE branches[b].parent \in 1..(b - 1)
          <5>1. branches[b].parent \in 0..n
            BY <4>1
          <5>2. f[branches[b].parent] \in Seq(Nat)
            BY <5>1
          <5> QED BY <4>1, <5>2, TrimIs
        <4>2. CASE branches[b].parent \notin 1..(b - 1)
          BY <2>1, <4>2
        <4> QED BY <4>1, <4>2
      <3>2. Shown(f, b) = up \o Own(b)
        BY <2>3 DEF Shown
      <3>3. Own(b) \in Seq(Nat)
        BY OwnIs
      <3> HIDE DEF up
      <3> QED BY <3>1, <3>2, <3>3, ConcatProperties
    <2> QED BY <2>2, <2>3
  <1>2. 0 \in Good
    <2>1. [b \in 0..0 |-> <<>>] \in Views(0)
      BY EmptySeq
    <2>2. \A b \in 0..0 : [c \in 0..0 |-> <<>>][b] = Shown([c \in 0..0 |-> <<>>], b)
      BY DEF Shown
    <2> QED BY <2>1, <2>2
  <1>3. ASSUME NEW n \in 0..MaxBranches, n \in Good, n < MaxBranches PROVE n + 1 \in Good
    <2>1. PICK f \in Views(n) : \A b \in 0..n : f[b] = Shown(f, b)
      BY <1>3
    <2> DEFINE g == [b \in 0..(n + 1) |-> IF b = n + 1 THEN Shown(f, b) ELSE f[b]]
    <2>2. Shown(f, n + 1) \in Seq(Nat)
      <3>1. n \in Nat /\ n + 1 \in 0..(n + 1)
        OBVIOUS
      <3> HIDE DEF Views
      <3> QED BY <1>1, <3>1
    <2>3. g \in Views(n + 1)
      BY <2>2
    <2>4. ASSUME NEW b \in 0..(n + 1) PROVE g[b] = Shown(g, b)
      <3>1. Shown(g, b) = Shown(f, b)
        <4>1. CASE b = 0
          BY <4>1 DEF Shown
        <4>2. CASE branches[b].parent \in 1..(b - 1)
          <5>1. branches[b].parent \in 0..n
            BY <4>2
          <5>2. g[branches[b].parent] = f[branches[b].parent]
            BY <5>1
          <5> HIDE DEF g
          <5> QED BY <5>2 DEF Shown
        <4>3. CASE b # 0 /\ branches[b].parent \notin 1..(b - 1)
          BY <4>3 DEF Shown
        <4> QED BY <4>1, <4>2, <4>3
      <3>2. g[b] = Shown(f, b)
        BY <2>1
      <3> QED BY <3>1, <3>2
    <2> HIDE DEF g, Views
    <2> QED BY <2>3, <2>4
  <1>4. MaxBranches \in Good
    <2> HIDE DEF Good
    <2>1. 0..MaxBranches \subseteq Good
      BY <1>2, <1>3, UpTo
    <2> QED BY <2>1
  <1>5. PICK f \in Views(MaxBranches) : \A b \in 0..MaxBranches : f[b] = Shown(f, b)
    BY <1>4
  <1>6. f = [b \in 0..MaxBranches |-> Shown(f, b)]
    BY <1>5
  <1>7. Visible = [b \in 0..MaxBranches |-> Shown(Visible, b)]
    BY <1>6, Zenon DEF Visible, Shown
  <1>8. \A b \in 0..MaxBranches : Visible[b] = Shown(Visible, b)
    BY <1>7
  <1> DEFINE Typed == {n \in Nat : \A b \in 0..n : b <= MaxBranches => Visible[b] \in Seq(Nat)}
  <1>9. 0 \in Typed
    <2>1. 0 \in 0..MaxBranches
      OBVIOUS
    <2>2. Visible[0] = <<>>
      BY <1>8, <2>1 DEF Shown
    <2>3. Visible[0] \in Seq(Nat)
      BY <2>2, EmptySeq
    <2>4. \A b \in 0..0 : b = 0
      OBVIOUS
    <2> QED BY <2>3, <2>4
  <1>10. ASSUME NEW n \in 0..MaxBranches, n \in Typed, n < MaxBranches PROVE n + 1 \in Typed
    <2> DEFINE g == [b \in 0..n |-> Visible[b]]
    <2>1. g \in Views(n)
      BY <1>10
    <2>2. Shown(g, n + 1) \in Seq(Nat)
      <3>1. n \in Nat /\ n + 1 \in 0..(n + 1)
        OBVIOUS
      <3> HIDE DEF Views, g
      <3> QED BY <1>1, <2>1, <3>1
    <2>3. Shown(g, n + 1) = Shown(Visible, n + 1)
      <3>1. CASE branches[n + 1].parent \in 1..n
        <4>0. branches[n + 1].parent \in 0..n /\ (n + 1) - 1 = n
          BY <3>1
        <4>1. g[branches[n + 1].parent] = Visible[branches[n + 1].parent] /\ (n + 1) - 1 = n
          BY <4>0
        <4> HIDE DEF g
        <4> QED BY <3>1, <4>1 DEF Shown
      <3>2. CASE branches[n + 1].parent \notin 1..n
        <4>1. (n + 1) - 1 = n
          OBVIOUS
        <4> HIDE DEF g
        <4> QED BY <3>2, <4>1 DEF Shown
      <3> QED BY <3>1, <3>2
    <2>4. Visible[n + 1] \in Seq(Nat)
      <3> n + 1 \in 0..MaxBranches
        BY <1>10
      <3> QED BY <1>8, <2>2, <2>3
    <2> QED BY <1>10, <2>4
  <1>11. 0..MaxBranches \subseteq Typed
    <2> HIDE DEF Typed
    <2> QED BY <1>9, <1>10, UpTo
  <1>12. ASSUME NEW b \in 0..MaxBranches PROVE Visible[b] \in Seq(Nat)
    <2>1. b \in Typed
      <3> HIDE DEF Typed
      <3> QED BY <1>11
    <2>2. b \in 0..b /\ b <= MaxBranches
      OBVIOUS
    <2> QED BY <2>1, <2>2
  <1> QED BY <1>8, <1>12

(* The invariant says that the tree is sound. *)
LEMMA TreeFollows == ConvInv => BranchTreeIsSound
  <1> SUFFICES ASSUME ConvInv PROVE BranchTreeIsSound
    OBVIOUS
  <1>1. ParentsAreOlder
    BY DEF ConvInv, RowsAreSound, SoundRow, ParentsAreOlder
  <1>2. ActiveBranchExists
    <2> SUFFICES ASSUME history.opened, ~history.purged, conv.active # 0
                 PROVE  conv.active \in Known
      BY DEF ActiveBranchExists
    <2> QED BY DEF ConvInv, ActiveIsKnown
  <1>3. RewritesHideTheirSource
    <2> SUFFICES ASSUME NEW b \in Known, branches[b].inherit = "exclusive",
                        branches[b].source # 0, ~history.purged
                 PROVE  ~Contains(Visible[b], branches[b].source)
      BY DEF RewritesHideTheirSource
    <2> DEFINE source == branches[b].source
               parent == branches[b].parent
               up     == IF parent \in 1..(b - 1) THEN Trim(Visible[parent], branches[b])
                         ELSE <<>>
    <2>0. messages \in Seq([branch : 1..ids, lane : 1..ids])
      BY DEF ConvInv, ConvTypeOK
    <2>1. source \in DOMAIN messages /\ messages[source].branch # b
      BY DEF ConvInv, RowsAreSound, SoundRow, HidesSource
    <2>2. b \in 0..MaxBranches /\ b # 0 /\ b \in Nat /\ MaxBranches \in Nat
      BY ConvAssumption DEF Known, BranchIds
    <2>3. Visible[b] = up \o Own(b)
      <3>1. Visible[b] = Shown(Visible, b)
        BY <2>0, <2>2, VisibleIs
      <3> QED BY <2>2, <3>1 DEF Shown
    <2>4. up \in Seq(Nat) /\ ~Contains(up, source)
      <3>1. CASE parent \in 1..(b - 1)
        <4>1. parent \in 0..MaxBranches
          BY <2>2, <3>1
        <4>2. Visible[parent] \in Seq(Nat)
          BY <2>0, <4>1, VisibleIs
        <4> QED BY <3>1, <4>2, TrimIs
      <3>2. CASE parent \notin 1..(b - 1)
        <4>1. up = <<>>
          BY <3>2
        <4>2. up \in Seq(Nat) /\ 1..Len(up) = {}
          <5> HIDE DEF up
          <5> QED BY <4>1, EmptySeq
        <4> HIDE DEF up
        <4> QED BY <4>2 DEF Contains
      <3> QED BY <3>1, <3>2
    <2>5. Own(b) \in Seq(Nat) /\ ~Contains(Own(b), source)
      BY <2>0, <2>1, OwnIs
    <2> HIDE DEF up, source
    <2>6. ~Contains(up \o Own(b), source)
      <3>1. /\ Len(up) \in Nat /\ Len(Own(b)) \in Nat
            /\ Len(up \o Own(b)) = Len(up) + Len(Own(b))
            /\ \A i \in 1..(Len(up) + Len(Own(b))) :
                  (up \o Own(b))[i] = IF i <= Len(up) THEN up[i] ELSE Own(b)[i - Len(up)]
        BY <2>4, <2>5, ConcatProperties, LenProperties
      <3> SUFFICES ASSUME NEW i \in 1..Len(up \o Own(b)), (up \o Own(b))[i] = source
                   PROVE  FALSE
        BY DEF Contains
      <3>2. CASE i <= Len(up)
        BY <2>4, <3>1, <3>2 DEF Contains
      <3>3. CASE ~(i <= Len(up))
        <4>1. i - Len(up) \in 1..Len(Own(b)) /\ Own(b)[i - Len(up)] = source
          BY <3>1, <3>3
        <4> QED BY <2>5, <4>1 DEF Contains
      <3> QED BY <3>2, <3>3
    <2> QED BY <2>3, <2>6 DEF source
  <1> QED BY <1>1, <1>2, <1>3 DEF BranchTreeIsSound

(* A branch and those below it have rows. *)
LEMMA SubtreeIs ==
    ASSUME NEW root \in Known
    PROVE  Subtree(root) \in SUBSET Known
  <1> MaxBranches \in Nat
    BY ConvAssumption
  <1> DEFINE Grow(S) == S \cup {b \in Known : branches[b].parent \in S}
             Sets(n) == [0..n -> SUBSET Known]
             Good == {n \in Nat : \E f \in Sets(n) :
                         \A k \in 0..n : f[k] = IF k = 0 THEN {root} ELSE Grow(f[k - 1])}
             down == CHOOSE f : f = [n \in 0..MaxBranches |->
                                       IF n = 0 THEN {root} ELSE Grow(f[n - 1])]
  <1>1. 0 \in Good
    <2>1. [k \in 0..0 |-> {root}] \in Sets(0)
      OBVIOUS
    <2>2. \A k \in 0..0 : k = 0
      OBVIOUS
    <2> QED BY <2>1, <2>2
  <1>2. ASSUME NEW n \in 0..MaxBranches, n \in Good, n < MaxBranches PROVE n + 1 \in Good
    <2>1. PICK f \in Sets(n) : \A k \in 0..n : f[k] = IF k = 0 THEN {root} ELSE Grow(f[k - 1])
      BY <1>2
    <2> DEFINE g == [k \in 0..(n + 1) |-> IF k = n + 1 THEN Grow(f[n]) ELSE f[k]]
    <2>2. f[n] \in SUBSET Known
      BY <2>1
    <2>3. g \in Sets(n + 1)
      <3>1. Grow(f[n]) \in SUBSET Known
        BY <2>2
      <3> HIDE DEF Grow
      <3> QED BY <3>1
    <2>4. ASSUME NEW k \in 0..(n + 1) PROVE g[k] = IF k = 0 THEN {root} ELSE Grow(g[k - 1])
      <3> HIDE DEF Grow
      <3>1. CASE k = n + 1
        <4>1. k - 1 = n /\ g[n] = f[n] /\ g[k] = Grow(f[n]) /\ k # 0
          BY <3>1
        <4> QED BY <4>1
      <3>2. CASE k # n + 1
        <4>1. g[k] = f[k] /\ k \in 0..n /\ (k # 0 => g[k - 1] = f[k - 1])
          BY <3>2
        <4> QED BY <2>1, <4>1
      <3> QED BY <3>1, <3>2
    <2>5. n + 1 \in Nat
      OBVIOUS
    <2>6. \E h \in Sets(n + 1) :
             \A k \in 0..(n + 1) : h[k] = IF k = 0 THEN {root} ELSE Grow(h[k - 1])
      <3> HIDE DEF g, Sets, Grow
      <3> QED BY <2>3, <2>4, Zenon
    <2> HIDE DEF g, Sets, Grow
    <2> QED BY <2>5, <2>6, Zenon
  <1>3. MaxBranches \in Good
    <2> HIDE DEF Good
    <2>1. 0..MaxBranches \subseteq Good
      BY <1>1, <1>2, UpTo
    <2> QED BY <2>1
  <1>4. PICK f \in Sets(MaxBranches) :
           \A k \in 0..MaxBranches : f[k] = IF k = 0 THEN {root} ELSE Grow(f[k - 1])
    BY <1>3
  <1>5. f = [n \in 0..MaxBranches |-> IF n = 0 THEN {root} ELSE Grow(f[n - 1])]
    BY <1>4
  <1>6. down = [n \in 0..MaxBranches |-> IF n = 0 THEN {root} ELSE Grow(down[n - 1])]
    <2> HIDE DEF Grow
    <2> QED BY <1>5, Zenon
  <1>7. Subtree(root) = down[MaxBranches]
    BY Zenon DEF Subtree
  <1> HIDE DEF down
  <1> DEFINE Typed == {n \in Nat : n <= MaxBranches => down[n] \in SUBSET Known}
  <1>8. 0 \in Typed
    BY <1>6
  <1>9. ASSUME NEW n \in 0..MaxBranches, n \in Typed, n < MaxBranches PROVE n + 1 \in Typed
    <2>1. down[n] \in SUBSET Known
      BY <1>9
    <2>2. n + 1 \in 0..MaxBranches /\ n + 1 # 0 /\ (n + 1) - 1 = n
      BY <1>9
    <2>3. down[n + 1] = Grow(down[n])
      <3> HIDE DEF Grow
      <3> QED BY <1>6, <2>2
    <2> QED BY <2>1, <2>2, <2>3
  <1>10. MaxBranches \in Typed
    <2> HIDE DEF Typed
    <2>1. 0..MaxBranches \subseteq Typed
      BY <1>8, <1>9, UpTo
    <2> QED BY <2>1
  <1> QED BY <1>7, <1>10

-----------------------------------------------------------------------------
(* What the invariant says of the tables. *)

LEMMA ConvFacts ==
    ASSUME ConvInv
    PROVE  /\ MaxBranches \in Nat /\ MaxMessages \in Nat /\ MaxConvCalls \in Nat
           /\ ids \in 0..MaxBranches /\ conv.active \in 0..ids
           /\ branches \in [BranchIds -> BranchRows \cup {NoBranch}]
           /\ lanes \in [BranchIds -> {"none", "active", "deleted"}]
           /\ messages \in Seq([branch : 1..ids, lane : 1..ids])
           /\ DOMAIN messages = 1..Len(messages) /\ Len(messages) \in 0..MaxMessages
           /\ \A m \in DOMAIN messages : messages[m].branch \in 1..ids
           /\ Live \subseteq Known /\ Known \subseteq 1..ids /\ HasLane \subseteq 1..ids
           /\ Known \subseteq BranchIds /\ 1..ids \subseteq BranchIds
           /\ \A b \in BranchIds : b \notin Known => branches[b] = NoBranch
           /\ \A b \in Known : SoundRow(b, branches[b])
           /\ calls \in [ConvWorkers -> [todo : Seq(Writes), alone : BOOLEAN]]
  <1>1. /\ MaxBranches \in Nat /\ MaxMessages \in Nat /\ MaxConvCalls \in Nat
    BY ConvAssumption
  <1>2. /\ ids \in 0..MaxBranches /\ conv.active \in 0..MaxBranches /\ conv.active <= ids
        /\ branches \in [BranchIds -> BranchRows \cup {NoBranch}]
        /\ lanes \in [BranchIds -> {"none", "active", "deleted"}]
        /\ messages \in Seq([branch : 1..ids, lane : 1..ids]) /\ Len(messages) <= MaxMessages
        /\ \A b \in BranchIds : (branches[b] # NoBranch \/ lanes[b] # "none") => b <= ids
    BY DEF ConvInv, ConvTypeOK, IdsAreDrawn
  <1>3. /\ DOMAIN messages = 1..Len(messages) /\ Len(messages) \in Nat
        /\ \A m \in DOMAIN messages : messages[m] \in [branch : 1..ids, lane : 1..ids]
    <2>1. messages \in Seq([branch : 1..ids, lane : 1..ids])
      BY <1>2
    <2> QED BY <2>1, LenProperties, ElementOfSeq
  <1>4. Live \subseteq Known
    BY DEF Live, Known, NoBranch
  <1>5. Known \subseteq BranchIds /\ HasLane \subseteq BranchIds
    BY DEF Known, HasLane
  <1>6. Known \subseteq 1..ids /\ HasLane \subseteq 1..ids /\ 1..ids \subseteq BranchIds
    BY <1>1, <1>2, <1>5 DEF Known, HasLane, BranchIds
  <1>7. \A b \in BranchIds : b \notin Known => branches[b] = NoBranch
    BY DEF Known
  <1>8. \A m \in DOMAIN messages : messages[m].branch \in 1..ids
    BY <1>3
  <1>9. \A b \in Known : SoundRow(b, branches[b])
    BY DEF ConvInv, RowsAreSound
  <1>10. conv.active \in 0..ids /\ Len(messages) \in 0..MaxMessages
    BY <1>1, <1>2, <1>3
  <1> QED BY <1>1, <1>2, <1>3, <1>4, <1>5, <1>6, <1>7, <1>8, <1>9, <1>10 DEF ConvInv, CallsTyped

LEMMA RowKinds ==
    /\ NoBranch \in Rows /\ NoBranch.status = "none" /\ BranchRows \subseteq Rows
    /\ MainRow \in BranchRows /\ MainRow.status = "active" /\ MainRow.parent = 0
    /\ MainRow.inherit = "inclusive" /\ NoBranch \notin BranchRows
  BY ConvAssumption DEF NoBranch, MainRow, BranchRows, Rows, Statuses

(* The statements. *)
LEMMA WriteKinds ==
    /\ \A a \in 0..MaxBranches :
          LET it == WriteConv(a) IN it \in Writes /\ it.kind = "conv" /\ it.id = a
    /\ \A b \in 0..MaxBranches : \A st \in {"active", "deleted"} :
          LET it == WriteLane(b, st) IN
          it \in Writes /\ it.kind = "lane" /\ it.id = b /\ it.row.status = st
    /\ \A b \in 0..MaxBranches : \A row \in BranchRows :
          LET it == WriteBranch(b, row) IN
          it \in Writes /\ it.kind = "branch" /\ it.id = b /\ it.row = row
    /\ \A b \in 0..MaxBranches : \A l \in 0..MaxBranches :
          LET it == WriteMessage(b, l) IN
          it \in Writes /\ it.kind = "message" /\ it.id = b /\ it.lane = l
    /\ \A b \in 0..MaxBranches : \A a \in 0..MaxBranches : \A S \in SUBSET BranchIds :
          LET it == Choose(b, a, S) IN it \in Writes /\ it.kind = "choose"
    /\ \A k \in Gone :
          LET it == RowWrite(k, 0, NoBranch) IN it \in Writes /\ it.kind = k
  <1> MaxBranches \in Nat
    BY ConvAssumption
  <1> DEFINE Plain(k, b, row) == [kind |-> k, id |-> b, row |-> row, lane |-> 0, without |-> {}]
  <1>1. ASSUME NEW k \in StatementKinds, NEW b \in 0..MaxBranches, NEW row \in Rows
        PROVE  RowWrite(k, b, row) \in Writes
    BY <1>1 DEF RowWrite, Writes
  <1>2. \A k \in StatementKinds : \A b \in 0..MaxBranches : \A row \in Rows :
           /\ RowWrite(k, b, row).kind = k /\ RowWrite(k, b, row).id = b
           /\ RowWrite(k, b, row).row = row
    BY DEF RowWrite
  <1>3. {"conv", "lane", "branch", "message", "choose"} \subseteq StatementKinds /\ Gone \subseteq StatementKinds
    BY DEF StatementKinds
  <1>4. \A st \in {"active", "deleted"} :
           /\ [NoBranch EXCEPT !.status = st] \in Rows
           /\ [NoBranch EXCEPT !.status = st].status = st
    BY RowKinds DEF Rows, Statuses
  <1>5. ASSUME NEW b \in 0..MaxBranches, NEW l \in 0..MaxBranches
        PROVE  LET it == WriteMessage(b, l) IN
               it \in Writes /\ it.kind = "message" /\ it.id = b /\ it.lane = l
    <2>1. RowWrite("message", b, NoBranch) \in Writes
      BY <1>1, <1>3, RowKinds
    <2>2. RowWrite("message", b, NoBranch).kind = "message" /\ RowWrite("message", b, NoBranch).id = b
      BY <1>2, <1>3, RowKinds
    <2> QED BY <2>1, <2>2 DEF WriteMessage, Writes
  <1>6. ASSUME NEW b \in 0..MaxBranches, NEW a \in 0..MaxBranches, NEW S \in SUBSET BranchIds
        PROVE  LET it == Choose(b, a, S) IN it \in Writes /\ it.kind = "choose"
    <2>1. RowWrite("choose", b, NoBranch) \in Writes
      BY <1>1, <1>3, RowKinds
    <2>2. RowWrite("choose", b, NoBranch).kind = "choose"
      BY <1>2, <1>3, RowKinds
    <2> QED BY <2>1, <2>2 DEF Choose, Writes
  <1>7. \A a \in 0..MaxBranches :
          LET it == WriteConv(a) IN it \in Writes /\ it.kind = "conv" /\ it.id = a
    BY <1>1, <1>2, <1>3, RowKinds DEF WriteConv
  <1>8. \A b \in 0..MaxBranches : \A st \in {"active", "deleted"} :
          LET it == WriteLane(b, st) IN
          it \in Writes /\ it.kind = "lane" /\ it.id = b /\ it.row.status = st
    <2> SUFFICES ASSUME NEW b \in 0..MaxBranches, NEW st \in {"active", "deleted"}
                 PROVE  LET it == WriteLane(b, st) IN
                        it \in Writes /\ it.kind = "lane" /\ it.id = b /\ it.row.status = st
      OBVIOUS
    <2>1. PICK row \in Rows : row = [NoBranch EXCEPT !.status = st] /\ row.status = st
      BY <1>4
    <2>2. WriteLane(b, st) = RowWrite("lane", b, row)
      BY <2>1 DEF WriteLane
    <2>3. "lane" \in StatementKinds
      BY <1>3
    <2>4. RowWrite("lane", b, row) \in Writes
      BY <1>1, <2>1, <2>3
    <2>5. /\ RowWrite("lane", b, row).kind = "lane" /\ RowWrite("lane", b, row).id = b
          /\ RowWrite("lane", b, row).row = row
      BY <1>2, <2>1, <2>3
    <2> QED BY <2>1, <2>2, <2>4, <2>5
  <1>9. \A b \in 0..MaxBranches : \A row \in BranchRows :
          LET it == WriteBranch(b, row) IN
          it \in Writes /\ it.kind = "branch" /\ it.id = b /\ it.row = row
    BY <1>1, <1>2, <1>3, RowKinds DEF WriteBranch
  <1>10. \A k \in Gone :
          LET it == RowWrite(k, 0, NoBranch) IN it \in Writes /\ it.kind = k
    BY <1>1, <1>2, <1>3, RowKinds
  <1> QED BY <1>5, <1>6, <1>7, <1>8, <1>9, <1>10

-----------------------------------------------------------------------------
(* Calls. *)

(* What a call may begin to write, with n the last id that was drawn.        *)
SoundTodo(todo, n) ==
    /\ todo \in Seq(Writes) /\ todo # <<>>
    /\ \A k \in DOMAIN todo :
          /\ todo[k].kind = "branch" => todo[k].id \in 1..n /\ SoundRow(todo[k].id, todo[k].row)
          /\ todo[k].kind = "lane" => todo[k].id \in 1..n
                                      /\ todo[k].row.status \in {"active", "deleted"}
          /\ todo[k].kind = "message" => todo[k].id \in 1..n /\ todo[k].lane \in 1..n
          /\ todo[k].kind = "conv" => todo[k].id \in 0..n
          /\ ~history.purged /\ todo[k].kind = "conv" => ActiveLater(todo, k)
    /\ \/ \A k \in DOMAIN todo : todo[k].kind \notin Gone
       \/ todo[1].kind = "unconv" /\ \A k \in DOMAIN todo : todo[k].kind \in Gone
    /\ \A k \in DOMAIN todo :
          (\A u \in ConvWorkers : FreeWorker(u)) /\ todo[k].kind = "branch"
             /\ todo[k].row.status = "active" => Undeleted(todo, k)

LEMMA CallBegins ==
    ASSUME ConvInv, NEW w \in ConvWorkers, MayBegin(w), NEW todo, Begin(w, todo),
           UNCHANGED Tables, ids' \in 0..MaxBranches, ids <= ids', SoundTodo(todo, ids')
    PROVE  ConvInv'
  <1>1. /\ UNCHANGED <<conv, branches, lanes, messages>>
        /\ Known' = Known
    BY DEF Tables, Known
  <1>2. /\ history' \in [opened : BOOLEAN, purged : BOOLEAN, calls : 0..MaxConvCalls]
        /\ history'.opened = history.opened
        /\ history.purged => history'.purged
        /\ todo[1].kind = "unconv" => history'.purged
    <2>1. /\ history \in [opened : BOOLEAN, purged : BOOLEAN, calls : 0..MaxConvCalls]
          /\ history.calls < MaxConvCalls /\ MaxConvCalls \in Nat
      BY ConvAssumption DEF ConvInv, ConvTypeOK, MayBegin
    <2>2. history.calls + 1 \in 0..MaxConvCalls
      BY <2>1
    <2>3. (history.purged \/ todo[1].kind = "unconv") \in BOOLEAN
      BY Zenon
    <2>4. history' = [history EXCEPT !.calls = @ + 1, !.purged = @ \/ todo[1].kind = "unconv"]
      BY DEF Begin
    <2> QED BY <2>1, <2>2, <2>3, <2>4
  <1>3. /\ calls' \in [ConvWorkers -> [todo : Seq(Writes), alone : BOOLEAN]]
        /\ calls'[w].todo = todo
        /\ calls'[w].alone = \A u \in ConvWorkers : FreeWorker(u)
        /\ \A v \in ConvWorkers \ {w} : /\ calls'[v].todo = calls[v].todo
                                        /\ calls'[v].alone = FreeWorker(v)
    <2>1. calls \in [ConvWorkers -> [todo : Seq(Writes), alone : BOOLEAN]]
      BY ConvFacts
    <2>2. calls' = [v \in ConvWorkers |->
             IF v = w THEN [todo |-> todo, alone |-> \A u \in ConvWorkers : FreeWorker(u)]
             ELSE [calls[v] EXCEPT !.alone = FreeWorker(v)]]
      BY DEF Begin
    <2>3. \A v \in ConvWorkers : FreeWorker(v) \in BOOLEAN
      BY DEF FreeWorker
    <2>4. (\A u \in ConvWorkers : FreeWorker(u)) \in BOOLEAN
      BY Zenon
    <2>5. todo \in Seq(Writes)
      BY DEF SoundTodo
    <2> QED BY <2>1, <2>2, <2>3, <2>4, <2>5
  <1>4. ConvTypeOK'
    <2>1. messages \in Seq([branch : 1..ids', lane : 1..ids'])
      <3>1. messages \in Seq([branch : 1..ids, lane : 1..ids]) /\ ids \in Nat
        BY ConvFacts
      <3>2. [branch : 1..ids, lane : 1..ids] \subseteq [branch : 1..ids', lane : 1..ids']
        <4>1. 1..ids \subseteq 1..ids'
          BY <3>1
        <4> QED BY <4>1
      <3> QED BY <3>1, <3>2, SeqMonotonic
    <2> QED BY <1>1, <1>2, <1>3, <2>1 DEF ConvInv, ConvTypeOK
  <1>5. CallsTyped'
    BY <1>3 DEF CallsTyped
  <1>6. IdsAreDrawn'
    <2>1. ids \in Nat /\ conv.active \in Nat /\ BranchIds \subseteq Nat
      BY ConvFacts DEF BranchIds
    <2> QED BY <1>1, <2>1 DEF ConvInv, IdsAreDrawn
  <1>7. ASSUME NEW b, NEW row, SoundRow(b, row) PROVE SoundRow(b, row)'
    BY <1>1, <1>2, <1>7 DEF SoundRow, HidesSource
  <1>8. RowsAreSound'
    <2>1. SUFFICES ASSUME NEW b \in Known, NEW row, row = branches[b] PROVE SoundRow(b, row)'
      BY <1>1 DEF RowsAreSound
    <2>2. SoundRow(b, row)
      BY <2>1, ConvFacts
    <2> QED BY <1>7, <2>2
  <1>9. ActiveIsKnown'
    BY <1>1, <1>2 DEF ConvInv, ActiveIsKnown
  <1>10. ASSUME NEW it \in Writes, SoundWrite(it) PROVE SoundWrite(it)'
    <2>1. ids \in Nat /\ ids' \in Nat
      BY ConvFacts
    <2>2. 1..ids \subseteq 1..ids' /\ 0..ids \subseteq 0..ids'
      BY <2>1
    <2> QED BY <1>2, <1>7, <1>10, <2>2 DEF SoundWrite
  <1>11. ASSUME NEW k \in DOMAIN todo PROVE SoundWrite(todo[k])'
    <2>1. todo[k].kind = "branch" => SoundRow(todo[k].id, todo[k].row)'
      BY <1>7 DEF SoundTodo
    <2>2. todo[k].kind \in Gone => history'.purged
      BY <1>2 DEF SoundTodo
    <2> QED BY <2>1, <2>2 DEF SoundTodo, SoundWrite
  <1>12. WritesAreSound'
    <2> SUFFICES ASSUME NEW v \in ConvWorkers, NEW t, t = calls'[v].todo, NEW k \in DOMAIN t
                 PROVE  /\ SoundWrite(t[k])'
                        /\ ~history'.purged /\ t[k].kind = "conv" => ActiveLater(t, k)'
      BY DEF WritesAreSound, Todo
    <2>0. ActiveLater(t, k)' <=> ActiveLater(t, k)
      BY <1>1 DEF ActiveLater
    <2>1. CASE v = w
      <3>1. t = todo
        BY <1>3, <2>1
      <3>2. ~history'.purged /\ todo[k].kind = "conv" => ActiveLater(todo, k)
        BY <1>2, <3>1 DEF SoundTodo
      <3> QED BY <1>11, <2>0, <3>1, <3>2
    <2>2. CASE v # w
      <3>1. t = calls[v].todo /\ t \in Seq(Writes)
        BY <1>3, <2>2, ConvFacts
      <3>2. t[k] \in Writes
        BY <3>1, ElementOfSeq, LenProperties
      <3>3. SoundWrite(t[k]) /\ (~history.purged /\ t[k].kind = "conv" => ActiveLater(t, k))
        BY <3>1 DEF ConvInv, WritesAreSound, Todo
      <3>4. SoundWrite(t[k])'
        BY <1>10, <3>2, <3>3
      <3> QED BY <1>2, <2>0, <3>3, <3>4
    <2> QED BY <2>1, <2>2
  <1>13. DeletionsAreWhole'
    <2> SUFFICES ASSUME NEW v \in ConvWorkers, NEW t, t = calls'[v].todo,
                        NEW k \in DOMAIN t, NEW l \in DOMAIN t, t[k].kind \in Gone
                 PROVE  t[l].kind \in Gone
      BY DEF DeletionsAreWhole, Todo
    <2>1. CASE v = w
      BY <1>3, <2>1 DEF SoundTodo
    <2>2. CASE v # w
      BY <1>3, <2>2 DEF ConvInv, DeletionsAreWhole, Todo
    <2> QED BY <2>1, <2>2
  <1>14. AloneWritesLive'
    <2> SUFFICES ASSUME NEW v \in ConvWorkers, calls'[v].alone, ~FreeWorker(v)'
                 PROVE  /\ \A u \in ConvWorkers \ {v} : FreeWorker(u)'
                        /\ \A t \in Todo(v)' : \A k \in DOMAIN t :
                              t[k].kind = "branch" /\ t[k].row.status = "active"
                                 => Undeleted(t, k)'
      BY DEF AloneWritesLive
    <2>1. v = w
      BY <1>3 DEF FreeWorker
    <2>2. \A u \in ConvWorkers : FreeWorker(u)
      BY <1>3, <2>1
    <2>3. \A u \in ConvWorkers \ {v} : FreeWorker(u)'
      BY <1>3, <2>1, <2>2 DEF FreeWorker
    <2>4. ASSUME NEW k \in DOMAIN todo, todo[k].kind = "branch", todo[k].row.status = "active"
          PROVE  Undeleted(todo, k)'
      <3>1. Undeleted(todo, k)
        BY <2>2, <2>4 DEF SoundTodo
      <3> QED BY <1>1, <3>1 DEF Undeleted
    <2>5. \A t \in Todo(v)' : t = todo
      BY <1>3, <2>1 DEF Todo
    <2> QED BY <2>3, <2>4, <2>5
  <1> QED BY <1>4, <1>5, <1>6, <1>8, <1>9, <1>12, <1>13, <1>14 DEF ConvInv

(* The elements of two sequences, one after the other.                       *)
Joins(u, s, t) ==
    /\ Len(u) = Len(s) + Len(t)
    /\ \A i \in 1..Len(s) : u[i] = s[i]
    /\ \A i \in 1..Len(t) : u[Len(s) + i] = t[i]

LEMMA Joined ==
    ASSUME NEW S, NEW s \in Seq(S), NEW t \in Seq(S)
    PROVE  s \o t \in Seq(S) /\ Joins(s \o t, s, t)
  <1>1. /\ s \o t \in Seq(S) /\ Len(s \o t) = Len(s) + Len(t)
        /\ \A i \in 1..(Len(s) + Len(t)) :
              (s \o t)[i] = IF i <= Len(s) THEN s[i] ELSE t[i - Len(s)]
    BY ConcatProperties
  <1>2. Len(s) \in Nat /\ Len(t) \in Nat
    OBVIOUS
  <1>3. ASSUME NEW i \in 1..Len(t) PROVE (s \o t)[Len(s) + i] = t[i]
    <2>1. /\ Len(s) + i \in 1..(Len(s) + Len(t)) /\ ~(Len(s) + i <= Len(s))
          /\ (Len(s) + i) - Len(s) = i
      BY <1>2
    <2> QED BY <1>1, <2>1
  <1> QED BY <1>1, <1>2, <1>3 DEF Joins

(* A branch that is made has an id of its own. *)
LEMMA DrawnIsFresh ==
    ASSUME ConvInv, Draw
    PROVE  /\ ids' = ids + 1 /\ ids' \in 0..MaxBranches /\ ids <= ids'
           /\ FreshId = ids' /\ FreshId \in 1..ids' /\ FreshId \in 0..MaxBranches
           /\ FreshId \in BranchIds /\ FreshId \notin Known /\ branches[FreshId] = NoBranch
           /\ lanes[FreshId] = "none"
           /\ 1..ids \subseteq 0..MaxBranches /\ 0..ids \subseteq 0..MaxBranches
           /\ 1..ids \subseteq 1..ids' /\ 0..ids \subseteq 0..ids'
  <1>1. /\ MaxBranches \in Nat /\ ids \in 0..MaxBranches /\ ids' = ids + 1 /\ ids < MaxBranches
        /\ FreshId = ids + 1
    BY ConvFacts DEF Draw, FreshId
  <1>2. /\ ids' \in 0..MaxBranches /\ ids <= ids' /\ FreshId = ids'
        /\ FreshId \in 1..ids' /\ FreshId \in 0..MaxBranches /\ FreshId \in BranchIds
        /\ FreshId \notin 1..ids
        /\ 1..ids \subseteq 0..MaxBranches /\ 0..ids \subseteq 0..MaxBranches
        /\ 1..ids \subseteq 1..ids' /\ 0..ids \subseteq 0..ids'
    BY <1>1 DEF BranchIds
  <1>3. FreshId \notin Known /\ FreshId \notin HasLane
    BY <1>2, ConvFacts
  <1> QED BY <1>1, <1>2, <1>3 DEF Known, HasLane

(* A part of what a call that appends has to write, with n the last id that  *)
(* was drawn, and x a branch whose row it has written before.                *)
TodoPiece(t, n, x) ==
    /\ t \in Seq(Writes)
    /\ \A k \in DOMAIN t :
          /\ t[k].kind = "branch" =>
                /\ t[k].id \in 1..n /\ SoundRow(t[k].id, t[k].row) /\ t[k].row.status = "active"
                /\ branches[t[k].id].status # "deleted"
                /\ branches[t[k].id] = NoBranch => lanes[t[k].id] # "deleted"
          /\ t[k].kind = "lane" => t[k].id \in 1..n /\ t[k].row.status = "active"
          /\ t[k].kind = "message" => t[k].id \in 1..n /\ t[k].lane \in 1..n
          /\ t[k].kind = "conv" => t[k].id \in 0..n /\ (t[k].id = x \/ ActiveLater(t, k))
          /\ t[k].kind \notin Gone

Makes(t, x) == \E l \in DOMAIN t : t[l].kind = "branch" /\ t[l].id = x

LEMMA PieceIsSound ==
    ASSUME NEW n \in Nat, NEW t, t # <<>>, TodoPiece(t, n, 0)
    PROVE  SoundTodo(t, n)
  <1>1. t \in Seq(Writes) /\ DOMAIN t = 1..Len(t) /\ Len(t) \in Nat
    BY LenProperties DEF TodoPiece
  <1>2. ASSUME NEW k \in DOMAIN t, t[k].kind = "branch" PROVE Undeleted(t, k)
    <2>1. \A l \in 1..(k - 1) : l \in DOMAIN t
      BY <1>1
    <2> QED BY <1>2, <2>1 DEF TodoPiece, Undeleted
  <1>3. ASSUME NEW k \in DOMAIN t, t[k].kind = "conv" PROVE ActiveLater(t, k)
    BY <1>3 DEF TodoPiece, ActiveLater
  <1> QED BY <1>1, <1>2, <1>3 DEF SoundTodo, TodoPiece

LEMMA PiecesJoin ==
    ASSUME NEW n \in Nat, NEW s, NEW t, NEW x, TodoPiece(s, n, 0), Makes(s, x), TodoPiece(t, n, x)
    PROVE  TodoPiece(s \o t, n, 0) /\ Makes(s \o t, x) /\ s \o t # <<>>
  <1>1. PICK u : u = s \o t
    OBVIOUS
  <1>2. s \in Seq(Writes) /\ t \in Seq(Writes)
    BY DEF TodoPiece
  <1>3. u \in Seq(Writes) /\ Joins(u, s, t)
    BY <1>1, <1>2, Joined
  <1>4. /\ Len(s) \in Nat /\ Len(t) \in Nat /\ DOMAIN s = 1..Len(s) /\ DOMAIN t = 1..Len(t)
        /\ DOMAIN u = 1..Len(u) /\ Len(u) = Len(s) + Len(t)
    BY <1>2, <1>3, LenProperties DEF Joins
  <1>5. \A k \in DOMAIN s : k \in DOMAIN u /\ u[k] = s[k]
    BY <1>3, <1>4 DEF Joins
  <1>6. Makes(u, x)
    BY <1>5 DEF Makes
  <1>7. u # <<>>
    BY <1>4, <1>6, EmptySeq DEF Makes
  <1>8. ASSUME NEW k \in DOMAIN s, s[k].kind = "conv" PROVE ActiveLater(u, k)
    <2>1. ActiveLater(s, k)
      BY <1>8 DEF TodoPiece, ActiveLater
    <2>2. \A l \in 1..(k - 1) : l \in DOMAIN s
      BY <1>4
    <2> QED BY <1>5, <2>1, <2>2 DEF ActiveLater
  <1>9. ASSUME NEW i \in DOMAIN t, NEW k \in DOMAIN u, k = Len(s) + i, u[k] = t[i],
               t[i].kind = "conv"
        PROVE  ActiveLater(u, k)
    <2>1. CASE t[i].id = x
      <3>1. PICK l \in DOMAIN s : s[l].kind = "branch" /\ s[l].id = x
        BY DEF Makes
      <3>2. l \in 1..(k - 1)
        BY <1>4, <1>9
      <3> QED BY <1>5, <1>9, <2>1, <3>1, <3>2 DEF ActiveLater
    <2>2. CASE ActiveLater(t, i)
      <3>1. CASE t[i].id \in Known \cup {0, 1}
        BY <1>9, <3>1 DEF ActiveLater
      <3>2. CASE \E l \in 1..(i - 1) : t[l].kind = "branch" /\ t[l].id = t[i].id
        <4>1. PICK l \in 1..(i - 1) : t[l].kind = "branch" /\ t[l].id = t[i].id
          BY <3>2
        <4>2. l \in 1..Len(t) /\ Len(s) + l \in 1..(k - 1)
          BY <1>4, <1>9
        <4>3. u[Len(s) + l] = t[l]
          BY <1>3, <4>2 DEF Joins
        <4> QED BY <1>9, <4>1, <4>2, <4>3 DEF ActiveLater
      <3> QED BY <2>2, <3>1, <3>2 DEF ActiveLater
    <2> QED BY <1>9, <2>1, <2>2 DEF TodoPiece
  <1>10. ASSUME NEW k \in DOMAIN u
         PROVE  \/ k \in DOMAIN s /\ u[k] = s[k]
                \/ \E i \in DOMAIN t : k = Len(s) + i /\ u[k] = t[i]
    <2>1. CASE k <= Len(s)
      BY <1>4, <1>5, <2>1
    <2>2. CASE k > Len(s)
      <3>1. PICK i : i = k - Len(s)
        OBVIOUS
      <3>2. i \in 1..Len(t) /\ k = Len(s) + i
        BY <1>4, <2>2, <3>1
      <3> QED BY <1>3, <1>4, <3>2 DEF Joins
    <2> QED BY <1>4, <2>1, <2>2
  <1>11. TodoPiece(u, n, 0)
    <2> SUFFICES ASSUME NEW k \in DOMAIN u
                 PROVE  /\ u[k].kind = "branch" =>
                              /\ u[k].id \in 1..n /\ SoundRow(u[k].id, u[k].row)
                              /\ u[k].row.status = "active"
                              /\ branches[u[k].id].status # "deleted"
                              /\ branches[u[k].id] = NoBranch => lanes[u[k].id] # "deleted"
                        /\ u[k].kind = "lane" => u[k].id \in 1..n /\ u[k].row.status = "active"
                        /\ u[k].kind = "message" => u[k].id \in 1..n /\ u[k].lane \in 1..n
                        /\ u[k].kind = "conv" => u[k].id \in 0..n /\ ActiveLater(u, k)
                        /\ u[k].kind \notin Gone
      BY <1>3 DEF TodoPiece
    <2>1. CASE k \in DOMAIN s /\ u[k] = s[k]
      BY <1>8, <2>1 DEF TodoPiece
    <2>2. CASE \E i \in DOMAIN t : k = Len(s) + i /\ u[k] = t[i]
      BY <1>9, <2>2 DEF TodoPiece
    <2> QED BY <1>10, <2>1, <2>2
  <1> QED BY <1>1, <1>6, <1>7, <1>11

(* The pieces: a branch that is made and becomes active, and a message.      *)
LEMMA NewActivePiece ==
    ASSUME NEW n \in 0..MaxBranches, NEW b \in 1..n, NEW row \in BranchRows,
           row.status = "active", SoundRow(b, row), branches[b] = NoBranch, lanes[b] = "none"
    PROVE  TodoPiece(NewActive(b, row), n, 0) /\ Makes(NewActive(b, row), b)
  <1>0. b \in 0..MaxBranches /\ n \in Nat
    BY ConvAssumption
  <1>1. PICK l, r, c : l = WriteLane(b, "active") /\ r = WriteBranch(b, row) /\ c = WriteConv(b)
    OBVIOUS
  <1>2. /\ l \in Writes /\ l.kind = "lane" /\ l.id = b /\ l.row.status = "active"
        /\ r \in Writes /\ r.kind = "branch" /\ r.id = b /\ r.row = row
        /\ c \in Writes /\ c.kind = "conv" /\ c.id = b
    BY <1>0, <1>1, WriteKinds
  <1>3. PICK s, t : s = <<l, r>> /\ t = <<c>>
    OBVIOUS
  <1>4. /\ s \in Seq(Writes) /\ Len(s) = 2 /\ s[1] = l /\ s[2] = r
        /\ t \in Seq(Writes) /\ Len(t) = 1 /\ t[1] = c
    BY <1>2, <1>3
  <1>5. PICK u : u = s \o t
    OBVIOUS
  <1>6. u \in Seq(Writes) /\ Joins(u, s, t)
    BY <1>4, <1>5, Joined, Zenon
  <1>7. DOMAIN u = 1..3 /\ u[1] = l /\ u[2] = r /\ u[3] = c
    <2>1. Len(u) = 3
      BY <1>4, <1>6 DEF Joins
    <2>2. u[1] = s[1] /\ u[2] = s[2] /\ u[2 + 1] = t[1]
      BY <1>4, <1>6 DEF Joins
    <2> QED BY <1>4, <1>6, <2>1, <2>2, LenProperties
  <1>8. ActiveLater(u, 3)
    BY <1>2, <1>7 DEF ActiveLater
  <1>9. NoBranch.status # "deleted" /\ {"lane", "branch", "conv"} \cap Gone = {}
    BY DEF NoBranch, Gone
  <1>10. TodoPiece(u, n, 0)
    BY <1>0, <1>2, <1>6, <1>7, <1>8, <1>9 DEF TodoPiece
  <1>11. Makes(u, b)
    BY <1>2, <1>7 DEF Makes
  <1>12. u = NewActive(b, row)
    BY <1>1, <1>3, <1>5 DEF NewActive, NewBranch
  <1> QED BY <1>10, <1>11, <1>12

LEMMA AppendPiece ==
    ASSUME NEW n \in 0..MaxBranches, NEW b \in 1..n, NEW lane \in 1..n, NEW row \in BranchRows,
           row.status = "active", SoundRow(b, row), branches[b].status # "deleted",
           branches[b] = NoBranch => lanes[b] # "deleted",
           NEW operator \in BOOLEAN, NEW active \in 0..n, NEW x,
           active = x, b = x \/ b \in Known
    PROVE  TodoPiece(AppendWrites(operator, b, row, lane, "active", active), n, x)
  <1>0. b \in 0..MaxBranches /\ lane \in 0..MaxBranches /\ n \in Nat
    BY ConvAssumption
  <1>1. PICK a : a = IF operator \/ active = 0 THEN b ELSE active
    OBVIOUS
  <1>2. a \in 0..n /\ a \in 0..MaxBranches /\ (a = x \/ a \in Known)
    BY <1>0, <1>1, ConvAssumption
  <1>3. PICK m, c, l, r :
           /\ m = WriteMessage(b, lane) /\ c = WriteConv(a)
           /\ l = WriteLane(lane, "active") /\ r = WriteBranch(b, row)
    OBVIOUS
  <1>4. /\ m \in Writes /\ m.kind = "message" /\ m.id = b /\ m.lane = lane
        /\ c \in Writes /\ c.kind = "conv" /\ c.id = a
        /\ l \in Writes /\ l.kind = "lane" /\ l.id = lane /\ l.row.status = "active"
        /\ r \in Writes /\ r.kind = "branch" /\ r.id = b /\ r.row = row
    BY <1>0, <1>2, <1>3, WriteKinds
  <1>5. PICK u : u = <<m, c, l, r>>
    OBVIOUS
  <1>6. u \in Seq(Writes) /\ DOMAIN u = 1..4 /\ u[1] = m /\ u[2] = c /\ u[3] = l /\ u[4] = r
    BY <1>4, <1>5
  <1>7. a = x \/ ActiveLater(u, 2)
    BY <1>2, <1>4, <1>6 DEF ActiveLater
  <1>8. {"lane", "branch", "conv", "message"} \cap Gone = {}
    BY DEF Gone
  <1>9. TodoPiece(u, n, x)
    BY <1>2, <1>4, <1>6, <1>7, <1>8 DEF TodoPiece
  <1>10. u = AppendWrites(operator, b, row, lane, "active", active)
    BY <1>1, <1>3, <1>5 DEF AppendWrites
  <1> QED BY <1>9, <1>10

(* A branch that is made, and the message that is put into it.               *)
LEMMA AppendToNewPiece ==
    ASSUME NEW n \in 0..MaxBranches, NEW b \in 1..n, NEW row \in BranchRows,
           row.status = "active", SoundRow(b, row), branches[b] = NoBranch, lanes[b] = "none"
    PROVE  TodoPiece(AppendToNew(b, row), n, 0) /\ AppendToNew(b, row) # <<>>
  <1>1. n \in Nat /\ b \in 0..n /\ NoBranch.status # "deleted"
    BY ConvAssumption DEF NoBranch
  <1>2. TodoPiece(NewActive(b, row), n, 0) /\ Makes(NewActive(b, row), b)
    BY NewActivePiece
  <1>3. TodoPiece(AppendWrites(TRUE, b, row, b, "active", b), n, b)
    BY <1>1, AppendPiece
  <1> QED BY <1>1, <1>2, <1>3, PiecesJoin DEF AppendToNew

(* What is selected is not deleted. *)
LEMMA SelectedIsLive ==
    ASSUME NEW lane, NEW b, b = SelectBranch(lane), b # 0
    PROVE  b \in Live
  <1>1. Live \subseteq Nat
    BY DEF Live, BranchIds
  <1>2. ASSUME Live # {} PROVE (CHOOSE x \in Live : \A y \in Live : x <= y) \in Live
    BY <1>1, <1>2, LeastOf
  <1> QED BY <1>2 DEF SelectBranch

LEMMA CreateConversationStep ==
    ASSUME ConvInv, NEW w \in ConvWorkers, MayBegin(w), CreateConversation(w)
    PROVE  ConvInv'
  <1>0. Draw /\ ids = 0 /\ UNCHANGED Tables
    BY DEF CreateConversation
  <1>1. PICK todo : todo = <<WriteConv(1), WriteLane(1, "active"), WriteBranch(1, MainRow)>>
    OBVIOUS
  <1>2. Begin(w, todo)
    BY <1>1 DEF CreateConversation
  <1>3. /\ 1 \in 1..ids' /\ 1 \in 0..ids' /\ 1 \in 0..MaxBranches /\ branches[1] = NoBranch
        /\ lanes[1] = "none" /\ ids' \in 0..MaxBranches /\ ids <= ids'
    BY <1>0, DrawnIsFresh
  <1>4. PICK c, l, r : c = WriteConv(1) /\ l = WriteLane(1, "active") /\ r = WriteBranch(1, MainRow)
    OBVIOUS
  <1>5. /\ c \in Writes /\ c.kind = "conv" /\ c.id = 1
        /\ l \in Writes /\ l.kind = "lane" /\ l.id = 1 /\ l.row.status = "active"
        /\ r \in Writes /\ r.kind = "branch" /\ r.id = 1 /\ r.row = MainRow
    BY <1>3, <1>4, WriteKinds, RowKinds
  <1>6. /\ todo \in Seq(Writes) /\ todo # <<>> /\ DOMAIN todo = 1..3
        /\ todo[1] = c /\ todo[2] = l /\ todo[3] = r
    BY <1>1, <1>4, <1>5
  <1>7. SoundRow(1, MainRow)
    BY RowKinds DEF SoundRow, HidesSource
  <1>8. ActiveLater(todo, 1)
    BY <1>5, <1>6 DEF ActiveLater
  <1>9. Undeleted(todo, 3)
    <2>1. \A i \in 1..3 : todo[i].kind = "lane" => todo[i].row.status = "active"
      BY <1>5, <1>6
    <2>2. \A i \in 1..(3 - 1) : todo[i].kind # "branch"
      BY <1>5, <1>6
    <2> QED BY <1>3, <1>5, <1>6, <2>1, <2>2, RowKinds DEF Undeleted
  <1>10. \A k \in 1..3 : todo[k].kind \notin Gone
    BY <1>5, <1>6 DEF Gone
  <1>11. SoundTodo(todo, ids')
    BY <1>3, <1>5, <1>6, <1>7, <1>8, <1>9, <1>10 DEF SoundTodo
  <1> QED BY <1>0, <1>2, <1>3, <1>11, CallBegins

LEMMA MainRowIsSound == \A b \in Nat \ {0} : SoundRow(b, MainRow)
  BY RowKinds DEF SoundRow, HidesSource

LEMMA AppendRootStep ==
    ASSUME ConvInv, NEW w \in ConvWorkers, MayBegin(w), NEW operator \in BOOLEAN,
           AppendRoot(w, operator)
    PROVE  ConvInv'
  <1>1. Draw /\ UNCHANGED Tables
    BY DEF AppendRoot
  <1>2. /\ ids' \in 0..MaxBranches /\ ids' \in Nat /\ ids <= ids' /\ FreshId = ids'
        /\ FreshId \in 1..ids' /\ FreshId \in 0..ids' /\ FreshId \in Nat \ {0}
        /\ branches[FreshId] = NoBranch /\ lanes[FreshId] = "none"
        /\ 1..ids \subseteq 1..ids'
    BY <1>1, DrawnIsFresh
  <1>3. PICK b : b = SelectBranch(FreshId)
    OBVIOUS
  <1>4. PICK s, t : /\ s = NewActive(FreshId, MainRow)
                    /\ t = IF b = 0 THEN <<>>
                           ELSE AppendWrites(operator, b, branches[b], FreshId, "active", FreshId)
    OBVIOUS
  <1>5. Begin(w, s \o t)
    BY <1>3, <1>4 DEF AppendRoot
  <1>6. TodoPiece(s, ids', 0) /\ Makes(s, FreshId)
    BY <1>2, <1>4, RowKinds, MainRowIsSound, NewActivePiece
  <1>7. TodoPiece(t, ids', FreshId)
    <2>1. CASE b = 0
      BY <1>4, <2>1, EmptySeq DEF TodoPiece
    <2>2. CASE b # 0
      <3>1. b \in Live
        BY <1>3, <2>2, SelectedIsLive
      <3>2. /\ b \in Known /\ b \in 1..ids' /\ SoundRow(b, branches[b])
            /\ branches[b].status = "active"
        BY <1>2, <3>1, ConvFacts DEF Live
      <3>3. branches[b] \in BranchRows /\ branches[b] # NoBranch
        BY <3>2 DEF SoundRow, Known
      <3> QED BY <1>2, <1>4, <2>2, <3>2, <3>3, AppendPiece
    <2> QED BY <2>1, <2>2
  <1>8. SoundTodo(s \o t, ids')
    BY <1>2, <1>6, <1>7, PiecesJoin, PieceIsSound
  <1> QED BY <1>1, <1>2, <1>5, <1>8, CallBegins

(* The row of a branch that rewrites, forks or is created.                   *)
LEMMA NewRowIsSound ==
    ASSUME ConvInv, NEW b \in 1..MaxBranches, b \notin 1..ids, NEW parent \in 1..(b - 1),
           NEW source \in {0} \cup DOMAIN messages,
           NEW inherit \in {"inclusive", "exclusive", "none"}, NEW row,
           row = [status |-> "active", parent |-> parent, source |-> source,
                  inherit |-> inherit]
    PROVE  row \in BranchRows /\ row.status = "active" /\ SoundRow(b, row)
  <1>1. /\ MaxBranches \in Nat /\ MaxMessages \in Nat /\ ids \in 0..MaxBranches
        /\ DOMAIN messages = 1..Len(messages) /\ Len(messages) \in 0..MaxMessages
        /\ \A m \in DOMAIN messages : messages[m].branch \in 1..ids
    BY ConvFacts
  <1>2. parent \in 0..MaxBranches /\ source \in 0..MaxMessages /\ parent < b
    BY <1>1
  <1>3. row \in BranchRows /\ row.status = "active" /\ row.parent = parent /\ row.source = source
    BY <1>2 DEF BranchRows
  <1>4. HidesSource(b, row)
    <2>1. source \in DOMAIN messages => messages[source].branch # b
      BY <1>1
    <2> QED BY <1>3, <2>1 DEF HidesSource
  <1> QED BY <1>2, <1>3, <1>4 DEF SoundRow

LEMMA AppendRewriteStep ==
    ASSUME ConvInv, NEW w \in ConvWorkers, MayBegin(w), NEW asked \in Known \cup {0},
           NEW source \in DOMAIN messages, NEW inherit \in {"exclusive", "inclusive"},
           AppendRewrite(w, asked, source, inherit)
    PROVE  ConvInv'
  <1>1. Draw /\ UNCHANGED Tables
    BY DEF AppendRewrite
  <1>2. PICK target : target = IF asked = 0 THEN conv.active ELSE asked
    OBVIOUS
  <1>3. PICK lane \in SelectLane(target) :
           Begin(w, AppendToNew(FreshId, [status |-> "active", parent |-> lane,
                                          source |-> source, inherit |-> inherit]))
    BY <1>2 DEF AppendRewrite
  <1>4. PICK row : row = [status |-> "active", parent |-> lane, source |-> source,
                          inherit |-> inherit]
    OBVIOUS
  <1>5. lane \in 1..ids
    BY <1>3, ConvFacts DEF SelectLane
  <1>6. /\ ids' \in 0..MaxBranches /\ ids' \in Nat /\ ids <= ids' /\ FreshId \in 1..ids'
        /\ branches[FreshId] = NoBranch /\ lanes[FreshId] = "none" /\ FreshId = ids + 1
    BY <1>1, DrawnIsFresh
  <1>7. row \in BranchRows /\ row.status = "active" /\ SoundRow(FreshId, row)
    <2>1. /\ FreshId \in 1..MaxBranches /\ FreshId \notin 1..ids /\ lane \in 1..(FreshId - 1)
      BY <1>1, <1>5, DrawnIsFresh, ConvFacts
    <2> QED BY <1>4, <2>1, NewRowIsSound
  <1>8. SoundTodo(AppendToNew(FreshId, row), ids')
    BY <1>6, <1>7, AppendToNewPiece, PieceIsSound
  <1> QED BY <1>1, <1>3, <1>4, <1>6, <1>8, CallBegins

LEMMA AppendRootRewriteStep ==
    ASSUME ConvInv, NEW w \in ConvWorkers, MayBegin(w),
           NEW source \in DOMAIN messages, NEW inherit \in {"exclusive", "inclusive"},
           AppendRootRewrite(w, source, inherit)
    PROVE  ConvInv'
  <1>1. PICK f, g : f = FreshId /\ g = FreshId + 1
    OBVIOUS
  <1>2. /\ f < MaxBranches /\ ids' = g /\ f = ids + 1 /\ g = ids + 2 /\ UNCHANGED Tables
    BY <1>1, ConvFacts DEF AppendRootRewrite, FreshId
  <1>3. /\ ids' \in 0..MaxBranches /\ ids' \in Nat /\ ids <= ids'
        /\ f \in 1..ids' /\ g \in 1..ids' /\ f \in Nat \ {0} /\ f \in 1..(g - 1)
        /\ g \in 1..MaxBranches
        /\ f \in BranchIds /\ g \in BranchIds /\ f \notin 1..ids /\ g \notin 1..ids
    <2>1. MaxBranches \in Nat /\ ids \in 0..MaxBranches
      BY ConvFacts
    <2>2. g \in 1..MaxBranches /\ f \in 1..MaxBranches
      BY <1>2, <2>1
    <2> QED BY <1>2, <2>1, <2>2 DEF BranchIds
  <1>4. /\ branches[f] = NoBranch /\ lanes[f] = "none"
        /\ branches[g] = NoBranch /\ lanes[g] = "none"
    <2>1. f \notin Known /\ g \notin Known /\ f \notin HasLane /\ g \notin HasLane
      BY <1>3, ConvFacts
    <2> QED BY <1>3, <2>1 DEF Known, HasLane
  <1>5. PICK row : row = [status |-> "active", parent |-> f, source |-> source,
                          inherit |-> inherit]
    OBVIOUS
  <1>6. PICK s, t : s = NewActive(f, MainRow) /\ t = AppendToNew(g, row)
    OBVIOUS
  <1>7. Begin(w, s \o t)
    BY <1>1, <1>5, <1>6 DEF AppendRootRewrite
  <1>8. row \in BranchRows /\ row.status = "active" /\ SoundRow(g, row)
    <2>1. g \notin 1..ids
      BY <1>3
    <2> QED BY <1>3, <1>5, <2>1, NewRowIsSound
  <1>9. TodoPiece(s, ids', 0) /\ Makes(s, f)
    BY <1>3, <1>4, <1>6, RowKinds, MainRowIsSound, NewActivePiece
  <1>10. TodoPiece(t, ids', f)
    <2>1. TodoPiece(t, ids', 0)
      BY <1>3, <1>4, <1>6, <1>8, AppendToNewPiece
    <2> QED BY <2>1 DEF TodoPiece, ActiveLater
  <1>11. SoundTodo(s \o t, ids')
    BY <1>3, <1>9, <1>10, PiecesJoin, PieceIsSound
  <1> QED BY <1>2, <1>3, <1>7, <1>11, CallBegins

LEMMA AppendMessageStep ==
    ASSUME ConvInv, NEW w \in ConvWorkers, MayBegin(w), NEW asked \in Known \cup {0},
           NEW operator \in BOOLEAN, AppendMessage(w, operator, asked)
    PROVE  ConvInv'
  <1>1. PICK target : target = IF asked = 0 THEN conv.active ELSE asked
    OBVIOUS
  <1>2. PICK lane \in SelectLane(target) :
           LET b == SelectBranch(lane) IN
           /\ b # 0
           /\ Begin(w, AppendWrites(operator, b, branches[b], lane, lanes[lane], conv.active))
    BY <1>1 DEF AppendMessage
  <1>3. PICK b : b = SelectBranch(lane)
    OBVIOUS
  <1>4. PICK todo : todo = AppendWrites(operator, b, branches[b], lane, lanes[lane], conv.active)
    OBVIOUS
  <1>5. b # 0 /\ Begin(w, todo) /\ UNCHANGED Tables /\ ids' = ids
    BY <1>2, <1>3, <1>4 DEF AppendMessage
  <1>6. b \in Live
    BY <1>3, <1>5, SelectedIsLive
  <1>7. lane \in HasLane
    BY <1>2 DEF SelectLane
  <1>8. PICK active : active = IF operator \/ conv.active = 0 THEN b ELSE conv.active
    OBVIOUS
  <1>9. PICK m, c, l, r :
           /\ m = WriteMessage(b, lane) /\ c = WriteConv(active)
           /\ l = WriteLane(lane, lanes[lane]) /\ r = WriteBranch(b, branches[b])
    OBVIOUS
  <1>10. todo = <<m, c, l, r>>
    BY <1>4, <1>8, <1>9 DEF AppendWrites
  <1>11. /\ b \in Known /\ b \in BranchIds /\ b \in 1..ids /\ lane \in 1..ids
         /\ active \in 0..ids
         /\ 1..ids \subseteq 0..MaxBranches /\ 0..ids \subseteq 0..MaxBranches
         /\ lanes[lane] \in {"active", "deleted"} /\ SoundRow(b, branches[b])
         /\ ids \in 0..MaxBranches /\ ids <= ids /\ branches[b].status = "active"
    <2>1. b \in Known /\ b \in 1..ids /\ lane \in 1..ids /\ lane \in BranchIds
          /\ lanes[lane] \in {"none", "active", "deleted"} /\ conv.active \in 0..ids
          /\ MaxBranches \in Nat /\ ids \in 0..MaxBranches /\ b \in BranchIds
      BY <1>6, <1>7, ConvFacts
    <2>2. SoundRow(b, branches[b])
      BY <2>1, ConvFacts
    <2>3. lanes[lane] # "none" /\ branches[b].status = "active"
      BY <1>6, <1>7 DEF HasLane, Live
    <2> QED BY <1>8, <2>1, <2>2, <2>3
  <1>12. branches[b] \in BranchRows
    BY <1>11 DEF SoundRow
  <1>13. /\ m \in Writes /\ m.kind = "message" /\ m.id = b /\ m.lane = lane
         /\ c \in Writes /\ c.kind = "conv" /\ c.id = active
         /\ l \in Writes /\ l.kind = "lane" /\ l.id = lane /\ l.row.status = lanes[lane]
         /\ r \in Writes /\ r.kind = "branch" /\ r.id = b /\ r.row = branches[b]
    BY <1>9, <1>11, <1>12, WriteKinds
  <1>14. /\ todo \in Seq(Writes) /\ todo # <<>> /\ DOMAIN todo = 1..4
         /\ todo[1] = m /\ todo[2] = c /\ todo[3] = l /\ todo[4] = r
    BY <1>10, <1>13
  <1>15. ~history.purged => ActiveLater(todo, 2)
    <2>1. ~history.purged => active \in Known \cup {0, 1}
      BY <1>8, <1>11 DEF ConvInv, ActiveIsKnown
    <2> QED BY <1>13, <1>14, <2>1 DEF ActiveLater
  <1>16. Undeleted(todo, 4)
    <2>1. \A k \in 1..(4 - 1) : todo[k].kind # "branch"
      BY <1>13, <1>14
    <2> QED BY <1>11, <1>13, <1>14, <2>1 DEF Undeleted, NoBranch
  <1>17. \A k \in 1..4 : todo[k].kind \notin Gone
    BY <1>13, <1>14 DEF Gone
  <1>18. SoundTodo(todo, ids')
    BY <1>5, <1>11, <1>13, <1>14, <1>15, <1>16, <1>17 DEF SoundTodo
  <1> QED BY <1>5, <1>11, <1>18, CallBegins

LEMMA SwitchBranchStep ==
    ASSUME ConvInv, NEW w \in ConvWorkers, MayBegin(w), NEW b \in Known, SwitchBranch(w, b)
    PROVE  ConvInv'
  <1>1. PICK todo : todo = <<WriteConv(b)>>
    OBVIOUS
  <1>2. Begin(w, todo) /\ UNCHANGED Tables /\ ids' = ids
    BY <1>1 DEF SwitchBranch
  <1>3. b \in 1..ids /\ b \in 0..ids /\ b \in 0..MaxBranches /\ ids \in 0..MaxBranches /\ ids <= ids
    BY ConvFacts
  <1>4. PICK c : c = WriteConv(b)
    OBVIOUS
  <1>5. c \in Writes /\ c.kind = "conv" /\ c.id = b
    BY <1>3, <1>4, WriteKinds
  <1>6. todo \in Seq(Writes) /\ todo # <<>> /\ DOMAIN todo = 1..1 /\ todo[1] = c
    BY <1>1, <1>4, <1>5
  <1>7. SoundTodo(todo, ids')
    BY <1>2, <1>3, <1>5, <1>6 DEF SoundTodo, ActiveLater, Gone
  <1> QED BY <1>2, <1>3, <1>7, CallBegins

LEMMA UpdateBranchStep ==
    ASSUME ConvInv, NEW w \in ConvWorkers, MayBegin(w), NEW b \in Known, UpdateBranch(w, b)
    PROVE  ConvInv'
  <1>1. PICK todo : todo = <<WriteBranch(b, branches[b])>>
    OBVIOUS
  <1>2. Begin(w, todo) /\ UNCHANGED Tables /\ ids' = ids /\ b \in Live
    BY <1>1 DEF UpdateBranch
  <1>3. /\ b \in 1..ids /\ b \in 0..MaxBranches /\ ids \in 0..MaxBranches /\ ids <= ids
        /\ SoundRow(b, branches[b]) /\ branches[b] \in BranchRows
        /\ branches[b].status = "active"
    BY <1>2, ConvFacts DEF SoundRow, Live
  <1>4. PICK r : r = WriteBranch(b, branches[b])
    OBVIOUS
  <1>5. r \in Writes /\ r.kind = "branch" /\ r.id = b /\ r.row = branches[b]
    BY <1>3, <1>4, WriteKinds
  <1>6. todo \in Seq(Writes) /\ todo # <<>> /\ DOMAIN todo = 1..1 /\ todo[1] = r
    BY <1>1, <1>4, <1>5
  <1>7. Undeleted(todo, 1)
    BY <1>3, <1>5, <1>6 DEF Undeleted, NoBranch
  <1>8. SoundTodo(todo, ids')
    BY <1>2, <1>3, <1>5, <1>6, <1>7 DEF SoundTodo, Gone
  <1> QED BY <1>2, <1>3, <1>8, CallBegins

LEMMA DeleteConversationStep ==
    ASSUME ConvInv, NEW w \in ConvWorkers, MayBegin(w), DeleteConversation(w)
    PROVE  ConvInv'
  <1>1. PICK todo : todo = [i \in 1..4 |->
           RowWrite(<<"unconv", "unlane", "unmessage", "unbranch">>[i], 0, NoBranch)]
    OBVIOUS
  <1>2. Begin(w, todo) /\ UNCHANGED Tables /\ ids' = ids
    BY <1>1 DEF DeleteConversation
  <1>3. ids \in 0..MaxBranches /\ ids <= ids
    BY ConvFacts
  <1>4. \A i \in 1..4 : <<"unconv", "unlane", "unmessage", "unbranch">>[i] \in Gone
    BY DEF Gone
  <1>5. \A i \in 1..4 : todo[i] \in Writes /\ todo[i].kind \in Gone
    BY <1>1, <1>4, WriteKinds
  <1>6. todo[1].kind = "unconv"
    <2>1. <<"unconv", "unlane", "unmessage", "unbranch">>[1] = "unconv"
      OBVIOUS
    <2>2. todo[1] = RowWrite("unconv", 0, NoBranch)
      BY <1>1, <2>1
    <2> QED BY <2>2, WriteKinds DEF Gone
  <1>7. todo \in Seq(Writes) /\ todo # <<>> /\ DOMAIN todo = 1..4
    BY <1>1, <1>5
  <1>8. SoundTodo(todo, ids')
    BY <1>5, <1>6, <1>7 DEF SoundTodo, Gone
  <1> QED BY <1>2, <1>3, <1>8, CallBegins

(* The writes of branch.create.                                              *)
LEMMA CreatedAreSound ==
    ASSUME ConvInv, Draw, NEW row \in BranchRows, row.status = "active",
           NEW b, b = FreshId, SoundRow(b, row),
           NEW l, NEW r, NEW c,
           l = WriteLane(b, "active"), r = WriteBranch(b, row), c = WriteConv(b),
           NEW n \in 2..3, NEW todo \in Seq(Writes), Len(todo) = n,
           todo[1] = l, todo[2] = r, n = 3 => todo[3] = c
    PROVE  SoundTodo(todo, ids')
  <1>1. /\ b \in 1..ids' /\ b \in 0..ids' /\ b \in 0..MaxBranches /\ branches[b] = NoBranch
        /\ lanes[b] = "none"
    BY DrawnIsFresh
  <1>2. /\ l.kind = "lane" /\ l.id = b /\ l.row.status = "active"
        /\ r.kind = "branch" /\ r.id = b /\ r.row = row
        /\ c.kind = "conv" /\ c.id = b
    BY <1>1, WriteKinds
  <1>3. todo # <<>> /\ DOMAIN todo = 1..n
    <2>1. DOMAIN todo = 1..n
      BY LenProperties
    <2>2. todo = <<>> => Len(todo) = 0
      BY EmptySeq
    <2> QED BY <2>1, <2>2
  <1>4. ASSUME NEW k \in 1..n
        PROVE  /\ todo[k].kind = "branch" => k = 2 /\ todo[k] = r
               /\ todo[k].kind = "lane" => k = 1 /\ todo[k] = l
               /\ todo[k].kind # "message"
               /\ todo[k].kind = "conv" => k = 3 /\ todo[k] = c
               /\ todo[k].kind \notin Gone
    BY <1>2 DEF Gone
  <1>5. n = 3 => ActiveLater(todo, 3)
    BY <1>2 DEF ActiveLater
  <1>6. Undeleted(todo, 2)
    <2>1. \A i \in 1..n : todo[i].kind = "lane" => todo[i].row.status = "active"
      BY <1>2, <1>4
    <2>2. \A i \in 1..(2 - 1) : todo[i].kind # "branch"
      BY <1>2
    <2> QED BY <1>1, <1>2, <1>3, <2>1, <2>2, RowKinds DEF Undeleted
  <1> QED BY <1>1, <1>2, <1>3, <1>4, <1>5, <1>6 DEF SoundTodo

LEMMA CreatedWrites ==
    ASSUME ConvInv, Draw, NEW row \in BranchRows, row.status = "active",
           SoundRow(FreshId, row), NEW activate \in BOOLEAN
    PROVE  SoundTodo(NewBranch(FreshId, row) \o IF activate THEN <<WriteConv(FreshId)>> ELSE <<>>, ids')
  <1>1. PICK b : b = FreshId
    OBVIOUS
  <1>2. PICK l, r, c : l = WriteLane(b, "active") /\ r = WriteBranch(b, row) /\ c = WriteConv(b)
    OBVIOUS
  <1>3. l \in Writes /\ r \in Writes /\ c \in Writes
    <2>1. b \in 0..MaxBranches
      BY <1>1, DrawnIsFresh
    <2> QED BY <1>2, <2>1, WriteKinds
  <1>4. PICK s, t : s = <<l, r>> /\ t = IF activate THEN <<c>> ELSE <<>>
    OBVIOUS
  <1>5. PICK n : n = IF activate THEN 3 ELSE 2
    OBVIOUS
  <1>6. /\ s \in Seq(Writes) /\ Len(s) = 2 /\ s[1] = l /\ s[2] = r
        /\ t \in Seq(Writes) /\ Len(t) = n - 2 /\ (n = 3 => t[1] = c) /\ n \in 2..3
    <2>1. s \in Seq(Writes) /\ Len(s) = 2 /\ s[1] = l /\ s[2] = r
      BY <1>3, <1>4
    <2>2. CASE activate
      BY <1>3, <1>4, <1>5, <2>1, <2>2
    <2>3. CASE ~activate
      BY <1>3, <1>4, <1>5, <2>1, <2>3
    <2> QED BY <2>2, <2>3
  <1>7. PICK todo : todo = s \o t
    OBVIOUS
  <1>8. todo \in Seq(Writes) /\ Joins(todo, s, t)
    <2>1. s \in Seq(Writes) /\ t \in Seq(Writes)
      BY <1>6
    <2> QED BY <1>7, <2>1, Joined
  <1>9. Len(todo) = n /\ todo[1] = l /\ todo[2] = r /\ (n = 3 => todo[3] = c)
    <2>1. Len(todo) = n /\ todo[1] = l /\ todo[2] = r
      BY <1>6, <1>8 DEF Joins
    <2>2. n = 3 => todo[2 + 1] = t[1]
      BY <1>6, <1>8 DEF Joins
    <2> QED BY <1>6, <2>1, <2>2
  <1>10. SoundTodo(todo, ids')
    BY <1>1, <1>2, <1>6, <1>8, <1>9, CreatedAreSound
  <1>11. todo = NewBranch(FreshId, row) \o IF activate THEN <<WriteConv(FreshId)>> ELSE <<>>
    BY <1>1, <1>2, <1>4, <1>7 DEF NewBranch
  <1> QED BY <1>10, <1>11

LEMMA CreateBranchStep ==
    ASSUME ConvInv, NEW w \in ConvWorkers, MayBegin(w), NEW asked \in Known \cup {0},
           NEW source \in {0} \cup DOMAIN messages,
           NEW inherit \in {"exclusive", "inclusive", "none"}, NEW activate \in BOOLEAN,
           CreateBranch(w, asked, source, inherit, activate)
    PROVE  ConvInv'
  <1>1. Draw /\ UNCHANGED Tables
    BY DEF CreateBranch
  <1>2. PICK parent : parent = IF asked = 0 THEN conv.active ELSE asked
    OBVIOUS
  <1>3. PICK row : row = [status |-> "active", parent |-> parent, source |-> source,
                          inherit |-> inherit]
    OBVIOUS
  <1>4. parent \in 1..ids
    <2>1. parent # 0
      BY <1>2 DEF CreateBranch
    <2>2. Known \subseteq 1..ids /\ conv.active \in 0..ids /\ ids \in 0..MaxBranches
      BY ConvFacts
    <2> QED BY <1>2, <2>1, <2>2
  <1>5. row \in BranchRows /\ row.status = "active" /\ SoundRow(FreshId, row)
    <2>1. /\ FreshId \in 1..MaxBranches /\ FreshId \notin 1..ids /\ parent \in 1..(FreshId - 1)
      BY <1>1, <1>4, DrawnIsFresh, ConvFacts
    <2> QED BY <1>3, <2>1, NewRowIsSound
  <1>6. PICK todo : todo = NewBranch(FreshId, row) \o IF activate THEN <<WriteConv(FreshId)>> ELSE <<>>
    OBVIOUS
  <1>7. Begin(w, todo)
    BY <1>2, <1>3, <1>6 DEF CreateBranch
  <1>8. SoundTodo(todo, ids')
    BY <1>1, <1>5, <1>6, CreatedWrites
  <1>9. ids' \in 0..MaxBranches /\ ids <= ids'
    BY <1>1, DrawnIsFresh
  <1> QED BY <1>1, <1>7, <1>8, <1>9, CallBegins

(* The writes of branch.delete: rows that move, rows that are deleted, lanes,*)
(* and the choice of a branch.                                               *)
MovedRows(S, up) == [i \in 1..Cardinality(S) |->
                       WriteBranch(Ordered(S)[i],
                                   [branches[Ordered(S)[i]] EXCEPT !.parent = up])]
DeletedRows(S)   == [i \in 1..Cardinality(S) |-> DeletedRow(Ordered(S)[i])]
ShutLanes(S)     == [i \in 1..Cardinality(S) |-> WriteLane(Ordered(S)[i], "deleted")]
InFour(A, B, C, d) == A \o B \o C \o <<d>>
FromFour(todo, A, B, C, d) ==
    \A k \in DOMAIN todo :
       \/ k \in DOMAIN A /\ todo[k] = A[k]
       \/ k > Len(A) /\ \/ \E i \in DOMAIN B : todo[k] = B[i]
                        \/ \E i \in DOMAIN C : todo[k] = C[i]
                        \/ todo[k] = d

LEMMA InTwo ==
    ASSUME NEW S, NEW s \in Seq(S), NEW t \in Seq(S), NEW u \in Seq(S), Joins(u, s, t),
           NEW k \in DOMAIN u
    PROVE  \/ k \in DOMAIN s /\ u[k] = s[k]
           \/ k > Len(s) /\ \E i \in DOMAIN t : u[k] = t[i]
  <1>1. /\ Len(s) \in Nat /\ Len(t) \in Nat /\ DOMAIN s = 1..Len(s) /\ DOMAIN t = 1..Len(t)
        /\ DOMAIN u = 1..Len(u)
    BY LenProperties
  <1>2. /\ Len(u) = Len(s) + Len(t)
        /\ \A i \in 1..Len(s) : u[i] = s[i]
        /\ \A i \in 1..Len(t) : u[Len(s) + i] = t[i]
    BY DEF Joins
  <1>3. CASE k <= Len(s)
    BY <1>1, <1>2, <1>3
  <1>4. CASE k > Len(s)
    <2>1. PICK i : i = k - Len(s)
      OBVIOUS
    <2>2. i \in 1..Len(t) /\ k = Len(s) + i
      BY <1>1, <1>2, <1>4, <2>1
    <2> QED BY <1>1, <1>2, <1>4, <2>2
  <1> QED BY <1>1, <1>3, <1>4

LEMMA DeletionWrites ==
    ASSUME NEW A \in Seq(Writes), NEW B \in Seq(Writes), NEW C \in Seq(Writes), NEW d \in Writes,
           NEW todo, todo = InFour(A, B, C, d)
    PROVE  /\ todo \in Seq(Writes) /\ todo # <<>>
           /\ FromFour(todo, A, B, C, d)
  <1>1. PICK D : D = <<d>>
    OBVIOUS
  <1>2. D \in Seq(Writes) /\ Len(D) = 1 /\ D[1] = d /\ DOMAIN D = 1..1
    BY <1>1
  <1>3. PICK u, v, w : u = A \o B /\ v = u \o C /\ w = v \o D
    OBVIOUS
  <1>4. w = todo
    BY <1>1, <1>3 DEF InFour
  <1>5. u \in Seq(Writes) /\ Joins(u, A, B)
    BY <1>3, Joined
  <1>6. v \in Seq(Writes) /\ Joins(v, u, C)
    <2>1. u \in Seq(Writes)
      BY <1>5
    <2> QED BY <1>3, <2>1, Joined
  <1>7. w \in Seq(Writes) /\ Joins(w, v, D)
    <2>1. v \in Seq(Writes) /\ D \in Seq(Writes)
      BY <1>2, <1>6
    <2> QED BY <1>3, <2>1, Joined
  <1>8. /\ Len(A) \in Nat /\ Len(B) \in Nat /\ Len(C) \in Nat
        /\ Len(u) = Len(A) + Len(B) /\ Len(v) = Len(u) + Len(C) /\ Len(w) = Len(v) + 1
    BY <1>2, <1>5, <1>6, <1>7, LenProperties DEF Joins
  <1>9. ASSUME NEW k \in DOMAIN w
        PROVE  \/ k \in DOMAIN A /\ w[k] = A[k]
               \/ k > Len(A) /\ \/ \E i \in DOMAIN B : w[k] = B[i]
                                \/ \E i \in DOMAIN C : w[k] = C[i]
                                \/ w[k] = d
    <2>1. \/ k \in DOMAIN v /\ w[k] = v[k]
          \/ k > Len(v) /\ \E i \in DOMAIN D : w[k] = D[i]
      <3>1. v \in Seq(Writes) /\ D \in Seq(Writes) /\ w \in Seq(Writes) /\ Joins(w, v, D)
        BY <1>2, <1>6, <1>7
      <3> QED BY <3>1, InTwo
    <2>2. ASSUME k \in DOMAIN v
          PROVE  \/ k \in DOMAIN u /\ v[k] = u[k]
                 \/ k > Len(u) /\ \E i \in DOMAIN C : v[k] = C[i]
      BY <1>5, <1>6, <2>2, InTwo
    <2>3. ASSUME k \in DOMAIN u
          PROVE  \/ k \in DOMAIN A /\ u[k] = A[k]
                 \/ k > Len(A) /\ \E i \in DOMAIN B : u[k] = B[i]
      BY <1>5, <2>3, InTwo
    <2>4. DOMAIN w = 1..Len(w) /\ k \in Nat
      BY <1>7, LenProperties
    <2>5. CASE k > Len(v)
      <3>1. w[k] = d
        <4>1. k \notin DOMAIN v
          BY <1>6, <2>5, LenProperties
        <4> QED BY <1>2, <2>1, <4>1
      <3>2. k > Len(A)
        BY <1>8, <2>4, <2>5
      <3> QED BY <3>1, <3>2
    <2>6. CASE k \in DOMAIN v /\ w[k] = v[k] /\ k > Len(u)
      <3>1. k \notin DOMAIN u
        BY <1>5, <2>6, LenProperties
      <3>2. \E i \in DOMAIN C : w[k] = C[i]
        BY <2>2, <2>6, <3>1
      <3>3. k > Len(A)
        BY <1>8, <2>4, <2>6
      <3> QED BY <3>2, <3>3
    <2>7. CASE k \in DOMAIN u /\ w[k] = u[k]
      BY <2>3, <2>7
    <2> QED BY <2>1, <2>2, <2>5, <2>6, <2>7
  <1>10. w # <<>>
    BY <1>8, EmptySeq
  <1> QED BY <1>4, <1>7, <1>9, <1>10 DEF FromFour

LEMMA ListedAsSeq ==
    ASSUME NEW n \in Nat, NEW S, NEW f \in [1..n -> S]
    PROVE  f \in Seq(S) /\ Len(f) = n /\ DOMAIN f = 1..n
  <1>1. f \in Seq(S)
    BY SeqDef
  <1> QED BY <1>1, LenProperties

LEMMA DeletionIsSound ==
    ASSUME ConvInv, NEW b \in Live, NEW gone \in SUBSET Known, NEW shut \in SUBSET HasLane,
           NEW children, children \in SUBSET {c \in Live : branches[c].parent = b},
           NEW up, up = branches[b].parent
    PROVE  SoundTodo(
              InFour(MovedRows(children, up), DeletedRows(gone), ShutLanes(shut),
                     Choose(b, conv.active, gone)), ids)
  <1>a. PICK A, B, C, d : /\ A = MovedRows(children, up) /\ B = DeletedRows(gone)
                          /\ C = ShutLanes(shut) /\ d = Choose(b, conv.active, gone)
    OBVIOUS
  <1>e. PICK todo : todo = InFour(A, B, C, d)
    OBVIOUS
  <1>1. /\ MaxBranches \in Nat /\ ids \in 0..MaxBranches /\ Live \subseteq Known
        /\ Known \subseteq 1..ids /\ HasLane \subseteq 1..ids /\ conv.active \in 0..ids
        /\ Known \subseteq BranchIds
        /\ 1..ids \subseteq 0..MaxBranches /\ 0..ids \subseteq 0..MaxBranches
    <2>1. /\ MaxBranches \in Nat /\ ids \in 0..MaxBranches /\ Live \subseteq Known
          /\ Known \subseteq 1..ids /\ HasLane \subseteq 1..ids /\ conv.active \in 0..ids
          /\ Known \subseteq BranchIds
      BY ConvFacts
    <2> QED BY <2>1
  <1>2. /\ Cardinality(children) \in Nat /\ Ordered(children) \in [1..Cardinality(children) -> children]
        /\ Cardinality(gone) \in Nat /\ Ordered(gone) \in [1..Cardinality(gone) -> gone]
        /\ Cardinality(shut) \in Nat /\ Ordered(shut) \in [1..Cardinality(shut) -> shut]
    <2>1. /\ children \in SUBSET (0..MaxBranches) /\ gone \in SUBSET (0..MaxBranches)
          /\ shut \in SUBSET (0..MaxBranches)
      BY <1>1
    <2> QED BY <1>1, <2>1, OrderedIs
  <1>3. ASSUME NEW c \in Known
        PROVE  branches[c] \in BranchRows /\ branches[c].parent < c /\ HidesSource(c, branches[c])
    BY ConvFacts DEF SoundRow
  <1>4. ASSUME NEW c \in children
        PROVE  \E row \in BranchRows :
                  /\ row = [branches[c] EXCEPT !.parent = up]
                  /\ row.status = "active" /\ branches[c].status = "active"
                  /\ c \in Known /\ SoundRow(c, row)
    <2>1. c \in Live /\ c \in Known /\ b \in Known /\ branches[c].parent = b
      BY <1>1
    <2>2. PICK row : row = [branches[c] EXCEPT !.parent = up]
      OBVIOUS
    <2>3. /\ branches[c] \in BranchRows /\ branches[b] \in BranchRows
          /\ branches[b].parent < b /\ branches[c].parent < c /\ HidesSource(c, branches[c])
      BY <1>3, <2>1
    <2>4. /\ row \in BranchRows /\ row.status = branches[c].status
          /\ row.parent = up /\ row.source = branches[c].source
          /\ row.inherit = branches[c].inherit
      BY <2>2, <2>3 DEF BranchRows
    <2>5. branches[c].status = "active"
      BY <2>1 DEF Live
    <2>6. branches[b].parent \in Nat /\ b \in Nat /\ c \in Nat
      BY <1>1, <2>1, <2>3 DEF BranchRows
    <2>7. row.parent < c
      BY <2>1, <2>3, <2>4, <2>6
    <2>8. HidesSource(c, row)
      BY <2>3, <2>4 DEF HidesSource
    <2> QED BY <2>1, <2>2, <2>4, <2>5, <2>7, <2>8 DEF SoundRow
  <1>5. ASSUME NEW c \in gone
        PROVE  \E row \in BranchRows :
                  /\ row = [branches[c] EXCEPT !.status = "deleted"]
                  /\ row.status = "deleted" /\ c \in Known /\ SoundRow(c, row)
    <2>1. PICK row : row = [branches[c] EXCEPT !.status = "deleted"]
      OBVIOUS
    <2>2. /\ branches[c] \in BranchRows /\ branches[c].parent < c /\ HidesSource(c, branches[c])
          /\ c \in Known
      BY <1>3
    <2>3. /\ row \in BranchRows /\ row.status = "deleted"
          /\ row.parent = branches[c].parent /\ row.source = branches[c].source
          /\ row.inherit = branches[c].inherit
      BY <2>1, <2>2 DEF BranchRows
    <2>4. HidesSource(c, row)
      BY <2>2, <2>3 DEF HidesSource
    <2> QED BY <2>1, <2>2, <2>3, <2>4 DEF SoundRow
  <1>6. ASSUME NEW i \in 1..Cardinality(children)
        PROVE  /\ A[i] \in Writes /\ A[i].kind = "branch" /\ A[i].id \in 1..ids
               /\ SoundRow(A[i].id, A[i].row) /\ A[i].row.status = "active"
               /\ branches[A[i].id].status = "active"
    <2>1. PICK c \in children : c = Ordered(children)[i]
      BY <1>2
    <2>2. PICK row \in BranchRows :
             /\ row = [branches[c] EXCEPT !.parent = up]
             /\ row.status = "active" /\ branches[c].status = "active"
             /\ c \in Known /\ SoundRow(c, row)
      BY <1>4
    <2>3. A[i] = WriteBranch(c, row)
      BY <1>a, <2>1, <2>2 DEF MovedRows
    <2>4. c \in 0..MaxBranches /\ c \in 1..ids
      BY <1>1, <2>2
    <2>5. A[i] \in Writes /\ A[i].kind = "branch" /\ A[i].id = c /\ A[i].row = row
      BY <2>2, <2>3, <2>4, WriteKinds
    <2> QED BY <2>2, <2>4, <2>5
  <1>7. ASSUME NEW i \in 1..Cardinality(gone)
        PROVE  /\ B[i] \in Writes /\ B[i].kind = "branch" /\ B[i].id \in 1..ids
               /\ SoundRow(B[i].id, B[i].row) /\ B[i].row.status = "deleted"
    <2>1. PICK c \in gone : c = Ordered(gone)[i]
      BY <1>2
    <2>2. PICK row \in BranchRows :
             /\ row = [branches[c] EXCEPT !.status = "deleted"]
             /\ row.status = "deleted" /\ c \in Known /\ SoundRow(c, row)
      BY <1>5
    <2>3. B[i] = WriteBranch(c, row)
      BY <1>a, <2>1, <2>2 DEF DeletedRows, DeletedRow
    <2>4. c \in 0..MaxBranches /\ c \in 1..ids
      BY <1>1, <2>2
    <2>5. B[i] \in Writes /\ B[i].kind = "branch" /\ B[i].id = c /\ B[i].row = row
      BY <2>2, <2>3, <2>4, WriteKinds
    <2> QED BY <2>2, <2>4, <2>5
  <1>8. ASSUME NEW i \in 1..Cardinality(shut)
        PROVE  /\ C[i] \in Writes /\ C[i].kind = "lane" /\ C[i].id \in 1..ids
               /\ C[i].row.status = "deleted"
    <2>1. PICK c \in shut : c = Ordered(shut)[i]
      BY <1>2
    <2>2. C[i] = WriteLane(c, "deleted")
      BY <1>a, <2>1 DEF ShutLanes
    <2>3. c \in 0..MaxBranches /\ c \in 1..ids
      BY <1>1
    <2>4. C[i] \in Writes /\ C[i].kind = "lane" /\ C[i].id = c /\ C[i].row.status = "deleted"
      BY <2>2, <2>3, WriteKinds
    <2> QED BY <2>3, <2>4
  <1>9. d \in Writes /\ d.kind = "choose"
    <2>1. b \in 0..MaxBranches /\ conv.active \in 0..MaxBranches /\ gone \in SUBSET BranchIds
      BY <1>1
    <2> QED BY <1>a, <2>1, WriteKinds
  <1>10. /\ A \in Seq(Writes) /\ Len(A) = Cardinality(children) /\ DOMAIN A = 1..Cardinality(children)
         /\ B \in Seq(Writes) /\ DOMAIN B = 1..Cardinality(gone)
         /\ C \in Seq(Writes) /\ DOMAIN C = 1..Cardinality(shut)
    <2>1. A \in [1..Cardinality(children) -> Writes]
      BY <1>6, <1>a DEF MovedRows
    <2>2. B \in [1..Cardinality(gone) -> Writes]
      BY <1>7, <1>a DEF DeletedRows
    <2>3. C \in [1..Cardinality(shut) -> Writes]
      BY <1>8, <1>a DEF ShutLanes
    <2> QED BY <1>2, <2>1, <2>2, <2>3, ListedAsSeq
  <1>11. /\ todo \in Seq(Writes) /\ todo # <<>>
         /\ \A k \in DOMAIN todo :
               \/ k \in DOMAIN A /\ todo[k] = A[k]
               \/ k > Len(A) /\ \/ \E i \in DOMAIN B : todo[k] = B[i]
                                \/ \E i \in DOMAIN C : todo[k] = C[i]
                                \/ todo[k] = d
    <2>1. A \in Seq(Writes) /\ B \in Seq(Writes) /\ C \in Seq(Writes) /\ d \in Writes
      BY <1>9, <1>10
    <2>2. todo \in Seq(Writes) /\ todo # <<>> /\ FromFour(todo, A, B, C, d)
      BY <1>e, <2>1, DeletionWrites
    <2> QED BY <2>2 DEF FromFour
  <1>12. DOMAIN todo = 1..Len(todo) /\ Len(todo) \in Nat
    BY <1>11, LenProperties
  <1>13. ASSUME NEW k \in DOMAIN todo
         PROVE  /\ todo[k].kind = "branch" => todo[k].id \in 1..ids /\ SoundRow(todo[k].id, todo[k].row)
                /\ todo[k].kind = "lane" => todo[k].id \in 1..ids /\ todo[k].row.status = "deleted"
                /\ todo[k].kind \notin {"message", "conv"} \cup Gone
                /\ todo[k].kind = "branch" /\ todo[k].row.status = "active" => k <= Len(A)
                /\ k <= Len(A) => todo[k] = A[k] /\ k \in DOMAIN A
    <2>1. CASE k \in DOMAIN A /\ todo[k] = A[k]
      BY <1>6, <1>10, <2>1 DEF Gone
    <2>2. CASE k > Len(A) /\ \E i \in DOMAIN B : todo[k] = B[i]
      <3>1. ~(k <= Len(A))
        BY <1>2, <1>10, <1>12, <2>2
      <3> QED BY <1>7, <1>10, <2>2, <3>1 DEF Gone
    <2>3. CASE k > Len(A) /\ \E i \in DOMAIN C : todo[k] = C[i]
      <3>1. ~(k <= Len(A))
        BY <1>2, <1>10, <1>12, <2>3
      <3> QED BY <1>8, <1>10, <2>3, <3>1 DEF Gone
    <2>4. CASE k > Len(A) /\ todo[k] = d
      <3>1. ~(k <= Len(A))
        BY <1>2, <1>10, <1>12, <2>4
      <3> QED BY <1>9, <2>4, <3>1 DEF Gone
    <2> QED BY <1>11, <2>1, <2>2, <2>3, <2>4
  <1>14. ASSUME NEW k \in DOMAIN todo, todo[k].kind = "branch", todo[k].row.status = "active"
         PROVE  Undeleted(todo, k)
    <2>1. k <= Len(A) /\ todo[k] = A[k] /\ k \in DOMAIN A
      BY <1>13, <1>14
    <2>2. branches[todo[k].id].status = "active"
      BY <1>6, <1>10, <2>1
    <2>3. ASSUME NEW l \in 1..(k - 1) PROVE todo[l].row.status = "active"
      <3>1. l \in DOMAIN todo /\ l <= Len(A)
        BY <1>2, <1>10, <1>12, <2>1
      <3>2. todo[l] = A[l] /\ l \in DOMAIN A
        BY <1>13, <3>1
      <3> QED BY <1>6, <1>10, <3>2
    <2> QED BY <2>2, <2>3 DEF Undeleted, NoBranch
  <1>15. SoundTodo(todo, ids)
    <2>1. \A k \in DOMAIN todo : todo[k].kind \notin Gone
      BY <1>13
    <2> QED BY <1>11, <1>13, <1>14, <2>1 DEF SoundTodo
  <1> QED BY <1>a, <1>e, <1>15

LEMMA DeleteBranchStep ==
    ASSUME ConvInv, NEW w \in ConvWorkers, MayBegin(w), NEW b \in Known, NEW tree \in BOOLEAN,
           DeleteBranch(w, b, tree)
    PROVE  ConvInv'
  <1>1. PICK gone, shut, children, up :
           /\ gone = IF tree THEN Subtree(b) ELSE {b}
           /\ shut = gone \cap HasLane
           /\ children = IF tree THEN {} ELSE {c \in Live : branches[c].parent = b}
           /\ up = branches[b].parent
    OBVIOUS
  <1>2. b \in Live /\ UNCHANGED Tables /\ ids' = ids
    BY DEF DeleteBranch
  <1>3. /\ gone \in SUBSET Known /\ shut \in SUBSET HasLane
        /\ children \in SUBSET {c \in Live : branches[c].parent = b}
    BY <1>1, SubtreeIs
  <1>4. PICK todo : todo =
              InFour(MovedRows(children, up), DeletedRows(gone), ShutLanes(shut),
                     Choose(b, conv.active, gone))
    OBVIOUS
  <1>5. Begin(w, todo)
    BY <1>1, <1>4, Zenon DEF DeleteBranch, InFour, MovedRows, DeletedRows, ShutLanes
  <1>6. SoundTodo(todo, ids)
    BY <1>1, <1>2, <1>3, <1>4, DeletionIsSound
  <1>7. ids \in 0..MaxBranches /\ ids <= ids
    BY ConvFacts
  <1> QED BY <1>2, <1>5, <1>6, <1>7, CallBegins

LEMMA HandleStep ==
    ASSUME ConvInv, NEW w \in ConvWorkers, Handle(w)
    PROVE  ConvInv'
  <1>1. MayBegin(w)
    BY DEF Handle
  <1>2. CASE CreateConversation(w)
    BY <1>1, <1>2, CreateConversationStep
  <1>3. CASE \E operator \in BOOLEAN : AppendRoot(w, operator)
    BY <1>1, <1>3, AppendRootStep
  <1>10. CASE \E source \in DOMAIN messages, i \in {"exclusive", "inclusive"} :
                 AppendRootRewrite(w, source, i)
    BY <1>1, <1>10, AppendRootRewriteStep
  <1>4. CASE DeleteConversation(w)
    BY <1>1, <1>4, DeleteConversationStep
  <1>5. CASE \E asked \in Known \cup {0}, operator \in BOOLEAN : AppendMessage(w, operator, asked)
    BY <1>1, <1>5, AppendMessageStep
  <1>6. CASE \E asked \in Known \cup {0}, source \in DOMAIN messages,
                i \in {"exclusive", "inclusive"} : AppendRewrite(w, asked, source, i)
    BY <1>1, <1>6, AppendRewriteStep
  <1>7. CASE \E asked \in Known \cup {0}, source \in {0} \cup DOMAIN messages,
                i \in {"exclusive", "inclusive", "none"}, activate \in BOOLEAN :
                CreateBranch(w, asked, source, i, activate)
    BY <1>1, <1>7, CreateBranchStep
  <1>8. CASE \E b \in Known : SwitchBranch(w, b) \/ UpdateBranch(w, b)
    BY <1>1, <1>8, SwitchBranchStep, UpdateBranchStep
  <1>9. CASE \E b \in Known, tree \in BOOLEAN : DeleteBranch(w, b, tree)
    BY <1>1, <1>9, DeleteBranchStep
  <1> QED BY <1>2, <1>3, <1>4, <1>5, <1>6, <1>7, <1>8, <1>9, <1>10, Zenon DEF Handle

-----------------------------------------------------------------------------
(* Statements. *)

(* A statement is the first of what its call had to write; the rest stays.   *)
LEMMA Popped ==
    ASSUME ConvInv, NEW w \in ConvWorkers, calls[w].todo # <<>>, Pop(w)
    PROVE  /\ calls' \in [ConvWorkers -> [todo : Seq(Writes), alone : BOOLEAN]]
           /\ \A v \in ConvWorkers \ {w} : calls'[v] = calls[v]
           /\ calls[w].todo \in Seq(Writes) /\ Len(calls[w].todo) \in Nat \ {0}
           /\ 1 \in DOMAIN calls[w].todo
           /\ DOMAIN calls[w].todo = 1..Len(calls[w].todo)
           /\ Item(w) = calls[w].todo[1] /\ Item(w) \in Writes
           /\ DOMAIN calls'[w].todo = 1..(Len(calls[w].todo) - 1)
           /\ \A k \in DOMAIN calls'[w].todo : calls'[w].todo[k] = calls[w].todo[k + 1]
           /\ calls'[w].todo # <<>> => calls'[w].alone = calls[w].alone
           /\ calls'[w] # calls[w]
  <1>1. PICK call \in [todo : Seq(Writes), alone : BOOLEAN] : call = calls[w]
    BY ConvFacts
  <1>2. PICK todo \in Seq(Writes) : todo = call.todo
    BY <1>1
  <1>3. todo # <<>>
    BY <1>1, <1>2
  <1>4. /\ Len(todo) \in Nat \ {0} /\ DOMAIN todo = 1..Len(todo) /\ 1 \in DOMAIN todo
        /\ todo[1] \in Writes /\ Head(todo) = todo[1]
    BY <1>3, EmptySeq, LenProperties, ElementOfSeq
  <1>5. PICK rest : rest = Tail(todo)
    OBVIOUS
  <1>6. /\ rest \in Seq(Writes) /\ Len(rest) = Len(todo) - 1
        /\ \A i \in 1..Len(rest) : rest[i] = todo[i + 1]
    BY <1>3, <1>5, HeadTailProperties
  <1>7. PICK new : new = IF Len(todo) = 1 THEN NoCall ELSE [call EXCEPT !.todo = rest]
    OBVIOUS
  <1>8. /\ new \in [todo : Seq(Writes), alone : BOOLEAN]
        /\ new.todo \in Seq(Writes) /\ Len(new.todo) = Len(todo) - 1
        /\ \A i \in 1..Len(new.todo) : new.todo[i] = todo[i + 1]
        /\ new.todo # <<>> => new.alone = call.alone
    <2>1. CASE Len(todo) = 1
      <3>1. new.todo = <<>> /\ new.alone = TRUE /\ new = NoCall
        BY <1>7, <2>1 DEF NoCall
      <3>2. <<>> \in Seq(Writes) /\ Len(<<>>) = 0
        BY EmptySeq
      <3>3. new \in [todo : Seq(Writes), alone : BOOLEAN]
        BY <3>1, <3>2 DEF NoCall
      <3> QED BY <2>1, <3>1, <3>2, <3>3
    <2>2. CASE Len(todo) # 1
      <3>1. /\ new.todo = rest /\ new.alone = call.alone
            /\ new \in [todo : Seq(Writes), alone : BOOLEAN]
        BY <1>6, <1>7, <2>2
      <3> QED BY <1>6, <3>1
    <2> QED BY <2>1, <2>2
  <1>9. calls' = [calls EXCEPT ![w] = new]
    <2>1. calls' = [calls EXCEPT ![w] = IF Len(calls[w].todo) = 1 THEN NoCall
                                        ELSE [calls[w] EXCEPT !.todo = Tail(calls[w].todo)]]
      BY DEF Pop
    <2>2. new = IF Len(calls[w].todo) = 1 THEN NoCall
                ELSE [calls[w] EXCEPT !.todo = Tail(calls[w].todo)]
      BY <1>1, <1>2, <1>5, <1>7
    <2> QED BY <2>1, <2>2, Zenon
  <1>10. /\ calls' \in [ConvWorkers -> [todo : Seq(Writes), alone : BOOLEAN]]
         /\ calls'[w] = new /\ \A v \in ConvWorkers \ {w} : calls'[v] = calls[v]
    <2>1. calls \in [ConvWorkers -> [todo : Seq(Writes), alone : BOOLEAN]]
      BY ConvFacts
    <2> QED BY <1>8, <1>9, <2>1
  <1>11. new # call
    <2>1. Len(new.todo) = Len(todo) - 1 /\ Len(todo) \in Nat
      BY <1>4, <1>8
    <2>2. Len(new.todo) # Len(todo)
      BY <2>1
    <2> QED BY <1>2, <2>2
  <1>12. Item(w) = todo[1]
    BY <1>1, <1>2, <1>4 DEF Item
  <1>13. DOMAIN new.todo = 1..Len(new.todo)
    BY <1>8, LenProperties
  <1>14. /\ todo \in Seq(Writes) /\ calls[w].todo = todo /\ calls[w].alone = call.alone
         /\ calls[w] = call /\ calls'[w] = new
    BY <1>1, <1>2, <1>10
  <1> QED BY <1>4, <1>8, <1>10, <1>11, <1>12, <1>13, <1>14

(* What the other calls, and this one, still have to write stays sound when  *)
(* rows and messages stay.                                                   *)
LEMMA WritesStaySound ==
    ASSUME ConvInv, NEW w \in ConvWorkers, calls[w].todo # <<>>, Pop(w),
           ids' = ids, history'.purged = history.purged,
           ~history.purged => /\ Known \subseteq Known'
                              /\ Item(w).kind = "branch" => Item(w).id \in Known'
                              /\ \A m \in DOMAIN messages : m \in DOMAIN messages'
                                                            /\ messages'[m] = messages[m]
    PROVE  CallsTyped' /\ WritesAreSound' /\ DeletionsAreWhole'
  <1>1. /\ calls' \in [ConvWorkers -> [todo : Seq(Writes), alone : BOOLEAN]]
        /\ \A v \in ConvWorkers \ {w} : calls'[v] = calls[v]
        /\ Len(calls[w].todo) \in Nat \ {0} /\ 1 \in DOMAIN calls[w].todo
        /\ DOMAIN calls[w].todo = 1..Len(calls[w].todo)
        /\ Item(w) = calls[w].todo[1]
        /\ DOMAIN calls'[w].todo = 1..(Len(calls[w].todo) - 1)
        /\ \A k \in DOMAIN calls'[w].todo : calls'[w].todo[k] = calls[w].todo[k + 1]
    BY Popped
  <1>2. ASSUME NEW b, NEW row, SoundRow(b, row) PROVE SoundRow(b, row)'
    BY <1>2 DEF SoundRow, HidesSource
  <1>3. ASSUME NEW it, SoundWrite(it) PROVE SoundWrite(it)'
    BY <1>2, <1>3 DEF SoundWrite
  <1>4. \A v \in ConvWorkers : \A k \in DOMAIN calls[v].todo :
           /\ SoundWrite(calls[v].todo[k])
           /\ ~history.purged /\ calls[v].todo[k].kind = "conv" => ActiveLater(calls[v].todo, k)
    BY DEF ConvInv, WritesAreSound, Todo
  <1>5. \A v \in ConvWorkers : \A k, l \in DOMAIN calls[v].todo :
           calls[v].todo[k].kind \in Gone => calls[v].todo[l].kind \in Gone
    BY DEF ConvInv, DeletionsAreWhole, Todo
  <1>6. CallsTyped'
    BY <1>1 DEF CallsTyped
  <1>7. WritesAreSound'
    <2> SUFFICES ASSUME NEW v \in ConvWorkers, NEW t, t = calls'[v].todo, NEW k \in DOMAIN t
                 PROVE  /\ SoundWrite(t[k])'
                        /\ ~history'.purged /\ t[k].kind = "conv" => ActiveLater(t, k)'
      BY DEF WritesAreSound, Todo
    <2>1. CASE v # w
      <3>1. t = calls[v].todo
        BY <1>1, <2>1
      <3>2. /\ SoundWrite(t[k])
            /\ ~history.purged /\ t[k].kind = "conv" => ActiveLater(t, k)
        BY <1>4, <3>1
      <3>3. ~history.purged /\ ActiveLater(t, k) => ActiveLater(t, k)'
        BY DEF ActiveLater
      <3> QED BY <1>3, <3>2, <3>3
    <2>2. CASE v = w
      <3>1. PICK old : old = calls[w].todo
        OBVIOUS
      <3>2. /\ Len(old) \in Nat /\ DOMAIN old = 1..Len(old) /\ DOMAIN t = 1..(Len(old) - 1)
            /\ \A i \in DOMAIN t : t[i] = old[i + 1]
            /\ Item(w) = old[1]
        BY <1>1, <2>2, <3>1
      <3>3. k + 1 \in DOMAIN old /\ t[k] = old[k + 1] /\ k \in Nat
        BY <3>2
      <3>4. /\ SoundWrite(t[k])
            /\ ~history.purged /\ t[k].kind = "conv" => ActiveLater(old, k + 1)
        BY <1>4, <3>1, <3>3
      <3>5. ASSUME ~history.purged, ActiveLater(old, k + 1) PROVE ActiveLater(t, k)'
        <4>1. CASE old[k + 1].id \in Known \cup {0, 1}
          BY <3>3, <3>5, <4>1 DEF ActiveLater
        <4>2. CASE \E l \in 1..((k + 1) - 1) : old[l].kind = "branch" /\ old[l].id = old[k + 1].id
          <5>1. PICK l \in 1..((k + 1) - 1) : old[l].kind = "branch" /\ old[l].id = old[k + 1].id
            BY <4>2
          <5>2. CASE l = 1
            BY <3>2, <3>3, <3>5, <5>1, <5>2 DEF ActiveLater
          <5>3. CASE l # 1
            <6>1. l - 1 \in 1..(k - 1) /\ l - 1 \in DOMAIN t /\ (l - 1) + 1 = l
              BY <3>2, <3>3, <5>3
            <6>2. t[l - 1] = old[l]
              BY <3>2, <6>1
            <6> QED BY <3>3, <5>1, <6>1, <6>2 DEF ActiveLater
          <5> QED BY <5>2, <5>3
        <4> QED BY <3>5, <4>1, <4>2 DEF ActiveLater
      <3> QED BY <1>3, <3>4, <3>5
    <2> QED BY <2>1, <2>2
  <1>8. DeletionsAreWhole'
    <2> SUFFICES ASSUME NEW v \in ConvWorkers, NEW t, t = calls'[v].todo,
                        NEW k \in DOMAIN t, NEW l \in DOMAIN t, t[k].kind \in Gone
                 PROVE  t[l].kind \in Gone
      BY DEF DeletionsAreWhole, Todo
    <2>1. CASE v # w
      BY <1>1, <1>5, <2>1
    <2>2. CASE v = w
      <3>1. PICK old : old = calls[w].todo
        OBVIOUS
      <3>2. /\ Len(old) \in Nat /\ DOMAIN old = 1..Len(old) /\ DOMAIN t = 1..(Len(old) - 1)
            /\ \A i \in DOMAIN t : t[i] = old[i + 1]
        BY <1>1, <2>2, <3>1
      <3>3. t[k] = old[k + 1] /\ t[l] = old[l + 1] /\ k + 1 \in DOMAIN old /\ l + 1 \in DOMAIN old
        BY <3>2
      <3> QED BY <1>5, <3>1, <3>3
    <2> QED BY <2>1, <2>2
  <1> QED BY <1>6, <1>7, <1>8

(* A call that overlaps with no other still writes live rows.                *)
LEMMA StillAlone ==
    ASSUME ConvInv, NEW w \in ConvWorkers, calls[w].todo # <<>>, Pop(w),
           \A todo \in Todo(w) : \A k \in DOMAIN todo \ {1} :
              todo[k].kind = "branch" /\ Undeleted(todo, k) =>
                 /\ branches'[todo[k].id].status # "deleted"
                 /\ branches'[todo[k].id] = NoBranch =>
                       branches[todo[k].id] = NoBranch /\ lanes'[todo[k].id] # "deleted"
    PROVE  AloneWritesLive'
  <1>1. /\ \A v \in ConvWorkers \ {w} : calls'[v] = calls[v]
        /\ Len(calls[w].todo) \in Nat \ {0} /\ 1 \in DOMAIN calls[w].todo
        /\ DOMAIN calls[w].todo = 1..Len(calls[w].todo)
        /\ DOMAIN calls'[w].todo = 1..(Len(calls[w].todo) - 1)
        /\ \A k \in DOMAIN calls'[w].todo : calls'[w].todo[k] = calls[w].todo[k + 1]
        /\ calls'[w].todo # <<>> => calls'[w].alone = calls[w].alone
    BY Popped
  <1> SUFFICES ASSUME NEW v \in ConvWorkers, calls'[v].alone, calls'[v].todo # <<>>
               PROVE  /\ \A u \in ConvWorkers \ {v} : calls'[u].todo = <<>>
                      /\ \A t \in Todo(v)' : \A k \in DOMAIN t :
                            t[k].kind = "branch" /\ t[k].row.status = "active"
                               => Undeleted(t, k)'
    BY DEF AloneWritesLive, FreeWorker
  <1>2. ASSUME NEW x \in ConvWorkers, calls[x].alone, calls[x].todo # <<>>
        PROVE  /\ \A u \in ConvWorkers \ {x} : calls[u].todo = <<>>
               /\ \A todo \in {calls[x].todo} : \A k \in DOMAIN todo :
                     todo[k].kind = "branch" /\ todo[k].row.status = "active"
                        => Undeleted(todo, k)
    BY <1>2 DEF ConvInv, AloneWritesLive, FreeWorker, Todo
  <1>3. v = w
    BY <1>1, <1>2
  <1>4. calls[w].alone /\ \A u \in ConvWorkers \ {w} : calls[u].todo = <<>>
    BY <1>1, <1>2, <1>3
  <1>5. \A u \in ConvWorkers \ {v} : calls'[u].todo = <<>>
    BY <1>1, <1>3, <1>4
  <1>6. ASSUME NEW t, t = calls'[w].todo, NEW k \in DOMAIN t, t[k].kind = "branch",
               t[k].row.status = "active"
        PROVE  Undeleted(t, k)'
    <2>1. PICK old : old = calls[w].todo
      OBVIOUS
    <2>2. /\ Len(old) \in Nat /\ DOMAIN old = 1..Len(old) /\ DOMAIN t = 1..(Len(old) - 1)
          /\ \A i \in DOMAIN t : t[i] = old[i + 1]
      BY <1>1, <1>6, <2>1
    <2>3. k + 1 \in DOMAIN old \ {1} /\ t[k] = old[k + 1] /\ k \in Nat
      BY <2>2
    <2>4. Undeleted(old, k + 1)
      BY <1>2, <1>4, <1>6, <2>1, <2>3
    <2>5. /\ branches'[t[k].id].status # "deleted"
          /\ branches'[t[k].id] = NoBranch =>
                branches[t[k].id] = NoBranch /\ lanes'[t[k].id] # "deleted"
      BY <1>6, <2>1, <2>3, <2>4 DEF Todo
    <2>6. ASSUME branches[t[k].id] = NoBranch, NEW l \in DOMAIN t, t[l].kind = "lane",
                 t[l].id = t[k].id
          PROVE  t[l].row.status = "active"
      <3>1. l + 1 \in DOMAIN old /\ t[l] = old[l + 1]
        BY <2>2
      <3> QED BY <2>3, <2>4, <2>6, <3>1 DEF Undeleted
    <2>7. ASSUME NEW l \in 1..(k - 1), t[l].kind = "branch", t[l].id = t[k].id
          PROVE  t[l].row.status = "active"
      <3>1. l \in DOMAIN t /\ l + 1 \in 1..((k + 1) - 1)
        BY <2>2
      <3>2. t[l] = old[l + 1]
        BY <2>2, <3>1
      <3> QED BY <2>3, <2>4, <2>7, <3>1, <3>2 DEF Undeleted
    <2> QED BY <2>5, <2>6, <2>7 DEF Undeleted
  <1>7. \A t \in Todo(v)' : t = calls'[w].todo
    BY <1>3 DEF Todo
  <1> QED BY <1>5, <1>6, <1>7

(* What a statement is about to write.                                       *)
LEMMA FirstWrite ==
    ASSUME ConvInv, NEW w \in ConvWorkers, calls[w].todo # <<>>, Pop(w)
    PROVE  /\ SoundWrite(Item(w)) /\ Item(w) \in Writes
           /\ ~history.purged /\ Item(w).kind = "conv" => Item(w).id \in Known \cup {0, 1}
  <1>1. PICK old : old = calls[w].todo
    OBVIOUS
  <1>2. Item(w) = old[1] /\ 1 \in DOMAIN old /\ Item(w) \in Writes
    BY <1>1, Popped
  <1>3. /\ SoundWrite(old[1])
        /\ ~history.purged /\ old[1].kind = "conv" => ActiveLater(old, 1)
    BY <1>1, <1>2 DEF ConvInv, WritesAreSound, Todo
  <1>4. ActiveLater(old, 1) => old[1].id \in Known \cup {0, 1}
    BY DEF ActiveLater
  <1> QED BY <1>2, <1>3, <1>4

LEMMA UpsertConversationStep ==
    ASSUME ConvInv, NEW w \in ConvWorkers, UpsertConversation(w)
    PROVE  ConvInv'
  <1>1. /\ calls[w].todo # <<>> /\ Pop(w)
        /\ UNCHANGED <<branches, lanes, messages, ids, history>>
        /\ \/ Item(w).kind = "conv" /\ conv' = [there |-> TRUE, active |-> Item(w).id]
           \/ /\ Item(w).kind = "choose"
              /\ \E b \in NextActive(Item(w).id, Item(w).lane, Item(w).without) :
                    conv' = [there |-> TRUE, active |-> b]
    <2>1. UNCHANGED <<branches, lanes, messages, ids, history>>
      BY DEF UpsertConversation
    <2>2. CASE StartsWith(w, "conv") /\ conv' = [there |-> TRUE, active |-> Item(w).id]
      <3>1. calls[w].todo # <<>> /\ Pop(w) /\ Item(w).kind = "conv"
        BY <2>2 DEF StartsWith, Item
      <3> QED BY <2>1, <2>2, <3>1
    <2>3. CASE /\ StartsWith(w, "choose")
               /\ \E b \in NextActive(Item(w).id, Item(w).lane, Item(w).without) :
                     conv' = [there |-> TRUE, active |-> b]
      <3>1. calls[w].todo # <<>> /\ Pop(w) /\ Item(w).kind = "choose"
        BY <2>3 DEF StartsWith, Item
      <3> QED BY <2>1, <2>3, <3>1
    <2> QED BY <2>2, <2>3, Zenon DEF UpsertConversation
  <1>2. Known' = Known
    BY <1>1 DEF Known
  <1>3. PICK a : /\ conv' = [there |-> TRUE, active |-> a] /\ a \in 0..ids
                 /\ ~history.purged => a \in Known \cup {0, 1}
    <2>1. CASE Item(w).kind = "conv"
      BY <1>1, <2>1, FirstWrite DEF SoundWrite
    <2>2. CASE Item(w).kind = "choose"
      <3>1. PICK b \in NextActive(Item(w).id, Item(w).lane, Item(w).without) :
               conv' = [there |-> TRUE, active |-> b]
        BY <1>1, <2>2
      <3>2. b \in Live \cup {0}
        BY DEF NextActive
      <3>3. Live \subseteq Known /\ Known \subseteq 1..ids /\ ids \in Nat
        BY ConvFacts
      <3>4. b \in 0..ids /\ b \in Known \cup {0, 1}
        BY <3>2, <3>3
      <3> QED BY <3>1, <3>4
    <2> QED BY <1>1, <2>1, <2>2
  <1>4. CallsTyped' /\ WritesAreSound' /\ DeletionsAreWhole'
    <2>1. \A m \in DOMAIN messages : m \in DOMAIN messages' /\ messages'[m] = messages[m]
      BY <1>1
    <2>2. Item(w).kind # "branch"
      BY <1>1
    <2> QED BY <1>1, <1>2, <2>1, <2>2, WritesStaySound
  <1>5. AloneWritesLive'
    BY <1>1, StillAlone DEF Undeleted
  <1>6. conv'.active = a /\ conv' \in [there : BOOLEAN, active : 0..MaxBranches]
    <2>1. a \in 0..MaxBranches
      BY <1>3, ConvFacts
    <2> QED BY <1>3, <2>1
  <1>7. ConvTypeOK'
    BY <1>1, <1>4, <1>6 DEF ConvInv, ConvTypeOK, CallsTyped
  <1>8. IdsAreDrawn'
    <2>1. conv'.active <= ids
      BY <1>3, <1>6
    <2> QED BY <1>1, <2>1 DEF ConvInv, IdsAreDrawn
  <1>9. RowsAreSound'
    BY <1>1, <1>2 DEF ConvInv, RowsAreSound, SoundRow, HidesSource
  <1>10. ActiveIsKnown'
    BY <1>1, <1>2, <1>3, <1>6 DEF ConvInv, ActiveIsKnown
  <1> QED BY <1>4, <1>5, <1>7, <1>8, <1>9, <1>10 DEF ConvInv

LEMMA UpsertLaneStep ==
    ASSUME ConvInv, NEW w \in ConvWorkers, UpsertLane(w)
    PROVE  ConvInv'
  <1>1. /\ calls[w].todo # <<>> /\ Pop(w) /\ Item(w).kind = "lane"
        /\ lanes' = [lanes EXCEPT ![Item(w).id] = Item(w).row.status]
        /\ UNCHANGED <<conv, branches, messages, ids, history>>
    BY DEF UpsertLane, StartsWith, Item
  <1>2. Known' = Known
    BY <1>1 DEF Known
  <1>3. PICK b, st : b = Item(w).id /\ st = Item(w).row.status
    OBVIOUS
  <1>4. b \in 1..ids /\ st \in {"active", "deleted"}
    BY <1>1, <1>3, FirstWrite DEF SoundWrite
  <1>5. /\ lanes' = [lanes EXCEPT ![b] = st]
        /\ lanes' \in [BranchIds -> {"none", "active", "deleted"}]
        /\ \A c \in BranchIds : lanes'[c] = IF c = b THEN st ELSE lanes[c]
    <2>1. /\ lanes \in [BranchIds -> {"none", "active", "deleted"}] /\ b \in BranchIds
      BY <1>4, ConvFacts
    <2> QED BY <1>1, <1>3, <1>4, <2>1
  <1>6. CallsTyped' /\ WritesAreSound' /\ DeletionsAreWhole'
    <2>1. \A m \in DOMAIN messages : m \in DOMAIN messages' /\ messages'[m] = messages[m]
      BY <1>1
    <2>2. Item(w).kind # "branch"
      BY <1>1
    <2> QED BY <1>1, <1>2, <2>1, <2>2, WritesStaySound
  <1>7. AloneWritesLive'
    <2>1. ASSUME NEW todo \in Todo(w), NEW k \in DOMAIN todo \ {1}, todo[k].kind = "branch",
                 Undeleted(todo, k)
          PROVE  /\ branches'[todo[k].id].status # "deleted"
                 /\ branches'[todo[k].id] = NoBranch =>
                       branches[todo[k].id] = NoBranch /\ lanes'[todo[k].id] # "deleted"
      <3>1. todo = calls[w].todo
        BY DEF Todo
      <3>2. 1 \in DOMAIN todo /\ todo[1] = Item(w)
        BY <1>1, <3>1, Popped
      <3>3. todo[k].id \in BranchIds
        <4>1. SoundWrite(todo[k])
          BY DEF ConvInv, WritesAreSound
        <4> QED BY <2>1, <4>1, ConvFacts DEF SoundWrite
      <3>4. CASE branches[todo[k].id] = NoBranch
        <4>1. lanes[todo[k].id] # "deleted"
          BY <2>1, <3>4 DEF Undeleted
        <4>2. todo[k].id = b => st = "active"
          BY <1>1, <1>3, <2>1, <3>2, <3>4 DEF Undeleted
        <4> QED BY <1>1, <1>5, <2>1, <3>3, <3>4, <4>1, <4>2 DEF Undeleted
      <3>5. CASE branches[todo[k].id] # NoBranch
        BY <1>1, <2>1, <3>5 DEF Undeleted
      <3> QED BY <3>4, <3>5
    <2> QED BY <1>1, <2>1, StillAlone
  <1>8. ConvTypeOK'
    BY <1>1, <1>5, <1>6 DEF ConvInv, ConvTypeOK, CallsTyped
  <1>9. IdsAreDrawn'
    <2>1. b <= ids
      BY <1>4, ConvFacts
    <2> QED BY <1>1, <1>5, <2>1 DEF ConvInv, IdsAreDrawn
  <1>10. RowsAreSound'
    BY <1>1, <1>2 DEF ConvInv, RowsAreSound, SoundRow, HidesSource
  <1>11. ActiveIsKnown'
    BY <1>1, <1>2 DEF ConvInv, ActiveIsKnown
  <1> QED BY <1>6, <1>7, <1>8, <1>9, <1>10, <1>11 DEF ConvInv

LEMMA UpsertBranchStep ==
    ASSUME ConvInv, NEW w \in ConvWorkers, UpsertBranch(w)
    PROVE  ConvInv'
  <1>1. /\ calls[w].todo # <<>> /\ Pop(w) /\ Item(w).kind = "branch"
        /\ branches' = [branches EXCEPT ![Item(w).id] = Item(w).row]
        /\ history' = [history EXCEPT !.opened = @ \/ Item(w).id = 1]
        /\ UNCHANGED <<conv, lanes, messages, ids>>
    BY DEF UpsertBranch, StartsWith, Item
  <1>2. PICK b, row : b = Item(w).id /\ row = Item(w).row
    OBVIOUS
  <1>3. b \in 1..ids /\ b \in BranchIds /\ SoundRow(b, row) /\ row \in BranchRows /\ row # NoBranch
    BY <1>1, <1>2, FirstWrite, ConvFacts, RowKinds DEF SoundWrite, SoundRow
  <1>4. /\ branches' \in [BranchIds -> BranchRows \cup {NoBranch}]
        /\ \A c \in BranchIds : branches'[c] = IF c = b THEN row ELSE branches[c]
    <2>1. branches \in [BranchIds -> BranchRows \cup {NoBranch}]
      BY ConvFacts
    <2> QED BY <1>1, <1>2, <1>3, <2>1
  <1>5. Known' = Known \cup {b}
    BY <1>3, <1>4 DEF Known
  <1>6. /\ history' \in [opened : BOOLEAN, purged : BOOLEAN, calls : 0..MaxConvCalls]
        /\ history'.purged = history.purged
        /\ history'.opened => history.opened \/ b = 1
    <2>1. history \in [opened : BOOLEAN, purged : BOOLEAN, calls : 0..MaxConvCalls]
      BY DEF ConvInv, ConvTypeOK
    <2>2. (history.opened \/ Item(w).id = 1) \in BOOLEAN
      BY Zenon
    <2> QED BY <1>1, <1>2, <2>1, <2>2
  <1>7. CallsTyped' /\ WritesAreSound' /\ DeletionsAreWhole'
    <2>1. \A m \in DOMAIN messages : m \in DOMAIN messages' /\ messages'[m] = messages[m]
      BY <1>1
    <2>2. Known \subseteq Known' /\ Item(w).id \in Known'
      BY <1>2, <1>5
    <2> QED BY <1>1, <1>6, <2>1, <2>2, WritesStaySound
  <1>8. AloneWritesLive'
    <2>1. ASSUME NEW todo \in Todo(w), NEW k \in DOMAIN todo \ {1}, todo[k].kind = "branch",
                 Undeleted(todo, k)
          PROVE  /\ branches'[todo[k].id].status # "deleted"
                 /\ branches'[todo[k].id] = NoBranch =>
                       branches[todo[k].id] = NoBranch /\ lanes'[todo[k].id] # "deleted"
      <3>1. todo = calls[w].todo
        BY DEF Todo
      <3>2. 1 \in DOMAIN todo /\ todo[1] = Item(w) /\ k \in Nat /\ k # 1 /\ k > 0
        BY <1>1, <3>1, Popped
      <3>3. todo[k].id \in BranchIds
        <4>1. SoundWrite(todo[k])
          BY DEF ConvInv, WritesAreSound
        <4> QED BY <2>1, <4>1, ConvFacts DEF SoundWrite
      <3>4. CASE todo[k].id = b
        <4>1. row.status = "active"
          <5>1. 1 \in 1..(k - 1)
            BY <3>2
          <5> QED BY <1>1, <1>2, <2>1, <3>2, <3>4, <5>1 DEF Undeleted
        <4> QED BY <1>3, <1>4, <3>3, <3>4, <4>1
      <3>5. CASE todo[k].id # b
        BY <1>1, <1>4, <2>1, <3>3, <3>5 DEF Undeleted
      <3> QED BY <3>4, <3>5
    <2> QED BY <1>1, <2>1, StillAlone
  <1>9. ConvTypeOK'
    BY <1>1, <1>4, <1>6, <1>7 DEF ConvInv, ConvTypeOK, CallsTyped
  <1>10. IdsAreDrawn'
    <2>1. b <= ids
      BY <1>3, ConvFacts
    <2> QED BY <1>1, <1>4, <2>1 DEF ConvInv, IdsAreDrawn
  <1>11. RowsAreSound'
    <2>1. SUFFICES ASSUME NEW c \in Known', NEW r, r = branches'[c] PROVE SoundRow(c, r)'
      BY DEF RowsAreSound
    <2>2. c \in BranchIds
      BY <2>1 DEF Known
    <2>3. SoundRow(c, r)
      <3>1. CASE c = b
        BY <1>3, <1>4, <2>1, <2>2, <3>1
      <3>2. CASE c # b
        BY <1>4, <1>5, <2>1, <2>2, <3>2, ConvFacts
      <3> QED BY <3>1, <3>2
    <2> QED BY <1>1, <1>6, <2>3 DEF SoundRow, HidesSource
  <1>12. ActiveIsKnown'
    BY <1>1, <1>5, <1>6 DEF ConvInv, ActiveIsKnown
  <1> QED BY <1>7, <1>8, <1>9, <1>10, <1>11, <1>12 DEF ConvInv

LEMMA InsertMessageStep ==
    ASSUME ConvInv, NEW w \in ConvWorkers, InsertMessage(w)
    PROVE  ConvInv'
  <1>1. /\ calls[w].todo # <<>> /\ Pop(w) /\ Item(w).kind = "message"
        /\ Len(messages) < MaxMessages
        /\ messages' = Append(messages, [branch |-> Item(w).id, lane |-> Item(w).lane])
        /\ UNCHANGED <<conv, branches, lanes, ids, history>>
    BY DEF InsertMessage, StartsWith, Item
  <1>2. Known' = Known
    BY <1>1 DEF Known
  <1>3. PICK m : m = [branch |-> Item(w).id, lane |-> Item(w).lane]
    OBVIOUS
  <1>4. m \in [branch : 1..ids, lane : 1..ids]
    BY <1>1, <1>3, FirstWrite DEF SoundWrite
  <1>5. /\ messages' \in Seq([branch : 1..ids, lane : 1..ids])
        /\ Len(messages') = Len(messages) + 1
        /\ \A i \in 1..Len(messages) : messages'[i] = messages[i]
        /\ DOMAIN messages' = 1..Len(messages') /\ DOMAIN messages = 1..Len(messages)
        /\ Len(messages) \in Nat
    <2>1. messages \in Seq([branch : 1..ids, lane : 1..ids])
      BY ConvFacts
    <2>2. messages' = Append(messages, m)
      BY <1>1, <1>3
    <2>3. /\ messages' \in Seq([branch : 1..ids, lane : 1..ids])
          /\ Len(messages') = Len(messages) + 1
          /\ \A i \in 1..Len(messages) : messages'[i] = messages[i]
      BY <1>4, <2>1, <2>2, AppendProperties
    <2> QED BY <2>1, <2>3, LenProperties
  <1>6. \A i \in DOMAIN messages : i \in DOMAIN messages' /\ messages'[i] = messages[i]
    BY <1>5
  <1>7. CallsTyped' /\ WritesAreSound' /\ DeletionsAreWhole'
    <2>1. Item(w).kind # "branch"
      BY <1>1
    <2> QED BY <1>1, <1>2, <1>6, <2>1, WritesStaySound
  <1>8. AloneWritesLive'
    BY <1>1, StillAlone DEF Undeleted
  <1>9. ConvTypeOK'
    <2>1. Len(messages') <= MaxMessages
      BY <1>1, <1>5, ConvAssumption
    <2> QED BY <1>1, <1>5, <1>7, <2>1 DEF ConvInv, ConvTypeOK, CallsTyped
  <1>10. IdsAreDrawn'
    BY <1>1 DEF ConvInv, IdsAreDrawn
  <1>11. RowsAreSound'
    BY <1>1, <1>2, <1>6 DEF ConvInv, RowsAreSound, SoundRow, HidesSource
  <1>12. ActiveIsKnown'
    BY <1>1, <1>2 DEF ConvInv, ActiveIsKnown
  <1> QED BY <1>7, <1>8, <1>9, <1>10, <1>11, <1>12 DEF ConvInv

LEMMA DeleteRowsStep ==
    ASSUME ConvInv, NEW w \in ConvWorkers, DeleteRows(w)
    PROVE  ConvInv'
  <1>1. /\ calls[w].todo # <<>> /\ Pop(w) /\ Item(w).kind \in Gone
        /\ UNCHANGED <<ids, history>>
    BY DEF DeleteRows, StartsWith, Item, Gone
  <1>2. /\ conv' = conv \/ conv' = [conv EXCEPT !.there = FALSE, !.active = 0]
        /\ lanes' = lanes \/ lanes' = [b \in BranchIds |-> "none"]
        /\ messages' = messages \/ messages' = <<>>
        /\ branches' = branches \/ branches' = [b \in BranchIds |-> NoBranch]
    BY DEF DeleteRows
  <1>3. history.purged /\ history'.purged
    BY <1>1, FirstWrite DEF SoundWrite
  <1>4. CallsTyped' /\ WritesAreSound' /\ DeletionsAreWhole'
    BY <1>1, <1>3, WritesStaySound
  <1>5. AloneWritesLive'
    <2>1. ASSUME NEW todo \in Todo(w), NEW k \in DOMAIN todo PROVE todo[k].kind # "branch"
      <3>1. todo = calls[w].todo
        BY DEF Todo
      <3>2. 1 \in DOMAIN todo /\ todo[1] = Item(w)
        BY <1>1, <3>1, Popped
      <3>3. todo[k].kind \in Gone
        BY <1>1, <3>2 DEF ConvInv, DeletionsAreWhole
      <3> QED BY <3>3 DEF Gone
    <2> QED BY <1>1, <2>1, StillAlone
  <1>6. /\ conv' \in [there : BOOLEAN, active : 0..MaxBranches] /\ conv'.active <= ids
        /\ lanes' \in [BranchIds -> {"none", "active", "deleted"}]
        /\ branches' \in [BranchIds -> BranchRows \cup {NoBranch}]
        /\ messages' \in Seq([branch : 1..ids, lane : 1..ids]) /\ Len(messages') <= MaxMessages
    <2>1. /\ conv \in [there : BOOLEAN, active : 0..MaxBranches] /\ conv.active <= ids
          /\ MaxBranches \in Nat /\ MaxMessages \in Nat /\ ids \in Nat
      BY ConvFacts, ConvAssumption DEF ConvInv, ConvTypeOK
    <2>2. conv' \in [there : BOOLEAN, active : 0..MaxBranches] /\ conv'.active <= ids
      <3>1. CASE conv' = conv
        BY <2>1, <3>1
      <3>2. CASE conv' = [conv EXCEPT !.there = FALSE, !.active = 0]
        <4>1. PICK bound : bound = 0..MaxBranches
          OBVIOUS
        <4>2. conv \in [there : BOOLEAN, active : bound] /\ 0 \in bound
          BY <2>1, <4>1
        <4>3. conv'.active = 0
          BY <3>2, <4>2
        <4>4. conv' \in [there : BOOLEAN, active : bound]
          BY <3>2, <4>2
        <4> QED BY <2>1, <4>1, <4>3, <4>4
      <3> QED BY <1>2, <3>1, <3>2
    <2>3. /\ lanes' \in [BranchIds -> {"none", "active", "deleted"}]
          /\ branches' \in [BranchIds -> BranchRows \cup {NoBranch}]
      BY <1>2, ConvFacts
    <2>4. messages' \in Seq([branch : 1..ids, lane : 1..ids]) /\ Len(messages') <= MaxMessages
      <3>1. messages \in Seq([branch : 1..ids, lane : 1..ids]) /\ Len(messages) <= MaxMessages
        BY DEF ConvInv, ConvTypeOK
      <3>2. <<>> \in Seq([branch : 1..ids, lane : 1..ids]) /\ Len(<<>>) = 0 /\ 0 <= MaxMessages
        BY <2>1, EmptySeq
      <3> QED BY <1>2, <3>1, <3>2
    <2> QED BY <2>2, <2>3, <2>4
  <1>7. ConvTypeOK'
    BY <1>1, <1>4, <1>6 DEF ConvInv, ConvTypeOK, CallsTyped
  <1>8. IdsAreDrawn'
    <2>1. \A b \in BranchIds : branches'[b] = branches[b] \/ branches'[b] = NoBranch
      BY <1>2
    <2>2. \A b \in BranchIds : lanes'[b] = lanes[b] \/ lanes'[b] = "none"
      BY <1>2
    <2> QED BY <1>1, <1>6, <2>1, <2>2 DEF ConvInv, IdsAreDrawn
  <1>9. RowsAreSound'
    <2>1. Known' \subseteq Known /\ \A b \in Known' : branches'[b] = branches[b]
      BY <1>2 DEF Known
    <2> QED BY <1>3, <2>1 DEF ConvInv, RowsAreSound, SoundRow, HidesSource
  <1>10. ActiveIsKnown'
    BY <1>3 DEF ActiveIsKnown
  <1> QED BY <1>4, <1>5, <1>7, <1>8, <1>9, <1>10 DEF ConvInv

LEMMA BackfillStep ==
    ASSUME ConvInv, NEW w \in ConvWorkers, Backfill(w)
    PROVE  ConvInv'
  <1>1. /\ branches' = [b \in BranchIds |->
              IF b \in HasLane \ Known THEN [MainRow EXCEPT !.status = lanes[b]]
              ELSE branches[b]]
        /\ history' = [history EXCEPT !.opened = @ \/ 1 \in HasLane]
        /\ UNCHANGED <<conv, lanes, messages, calls, ids>>
    BY DEF Backfill
  <1>2. ASSUME NEW b \in HasLane
        PROVE  /\ [MainRow EXCEPT !.status = lanes[b]] \in BranchRows
               /\ [MainRow EXCEPT !.status = lanes[b]] # NoBranch
               /\ [MainRow EXCEPT !.status = lanes[b]].status = lanes[b]
               /\ [MainRow EXCEPT !.status = lanes[b]].parent = 0
               /\ [MainRow EXCEPT !.status = lanes[b]].inherit = "inclusive"
               /\ lanes[b] \in {"active", "deleted"} /\ b \in 1..ids /\ b \in BranchIds
    <2>1. lanes[b] \in {"active", "deleted"} /\ b \in 1..ids /\ b \in BranchIds
      BY ConvFacts DEF HasLane
    <2>2. PICK row : row = [MainRow EXCEPT !.status = lanes[b]]
      OBVIOUS
    <2>3. row \in BranchRows /\ row.status = lanes[b] /\ row.parent = 0 /\ row.inherit = "inclusive"
      BY <2>1, <2>2, RowKinds DEF BranchRows
    <2> QED BY <2>1, <2>2, <2>3, RowKinds
  <1>3. /\ branches' \in [BranchIds -> BranchRows \cup {NoBranch}]
        /\ \A b \in BranchIds : b \notin HasLane \ Known => branches'[b] = branches[b]
        /\ \A b \in HasLane \ Known :
              /\ branches'[b] \in BranchRows /\ branches'[b] # NoBranch
              /\ branches'[b].status = lanes[b] /\ branches'[b].parent = 0
              /\ branches'[b].inherit = "inclusive"
    <2>1. branches \in [BranchIds -> BranchRows \cup {NoBranch}]
      BY ConvFacts
    <2> QED BY <1>1, <1>2, <2>1
  <1>4. Known' = Known \cup HasLane
    <2>1. Known' \subseteq Known \cup HasLane
      BY <1>3 DEF Known
    <2>2. Known \subseteq Known'
      BY <1>3 DEF Known
    <2>3. HasLane \subseteq Known'
      <3>1. \A b \in HasLane \ Known : b \in Known'
        BY <1>2, <1>3 DEF Known
      <3> QED BY <2>2, <3>1
    <2> QED BY <2>1, <2>2, <2>3
  <1>5. /\ history' \in [opened : BOOLEAN, purged : BOOLEAN, calls : 0..MaxConvCalls]
        /\ history'.purged = history.purged
        /\ history'.opened => history.opened \/ 1 \in HasLane
    <2>1. history \in [opened : BOOLEAN, purged : BOOLEAN, calls : 0..MaxConvCalls]
      BY DEF ConvInv, ConvTypeOK
    <2>2. (history.opened \/ 1 \in HasLane) \in BOOLEAN
      BY Zenon
    <2> QED BY <1>1, <2>1, <2>2
  <1>6. ConvTypeOK'
    BY <1>1, <1>3, <1>5 DEF ConvInv, ConvTypeOK
  <1>7. CallsTyped' /\ DeletionsAreWhole'
    BY <1>1 DEF ConvInv, CallsTyped, DeletionsAreWhole, Todo
  <1>8. IdsAreDrawn'
    <2>1. \A b \in BranchIds : branches'[b] # NoBranch => branches[b] # NoBranch \/ lanes[b] # "none"
      BY <1>3 DEF HasLane
    <2> QED BY <1>1, <2>1 DEF ConvInv, IdsAreDrawn
  <1>9. RowsAreSound'
    <2>1. SUFFICES ASSUME NEW b \in Known', NEW row, row = branches'[b] PROVE SoundRow(b, row)'
      BY DEF RowsAreSound
    <2>2. CASE b \in HasLane \ Known
      <3>1. b \in 1..ids /\ 0 < b
        BY <1>2, <2>2, ConvFacts
      <3> QED BY <1>3, <2>1, <2>2, <3>1 DEF SoundRow, HidesSource
    <2>3. CASE b \notin HasLane \ Known
      <3>1. b \in Known /\ row = branches[b]
        BY <1>3, <1>4, <2>1, <2>3 DEF Known
      <3>2. SoundRow(b, row)
        BY <3>1, ConvFacts
      <3> QED BY <1>1, <1>5, <3>2 DEF SoundRow, HidesSource
    <2> QED BY <2>2, <2>3
  <1>10. ActiveIsKnown'
    BY <1>1, <1>4, <1>5 DEF ConvInv, ActiveIsKnown
  <1>11. WritesAreSound'
    <2> SUFFICES ASSUME NEW v \in ConvWorkers, NEW t \in Todo(v), NEW k \in DOMAIN t
                 PROVE  /\ SoundWrite(t[k])'
                        /\ ~history'.purged /\ t[k].kind = "conv" => ActiveLater(t, k)'
      BY <1>1 DEF WritesAreSound, Todo
    <2>1. /\ SoundWrite(t[k])
          /\ ~history.purged /\ t[k].kind = "conv" => ActiveLater(t, k)
      BY DEF ConvInv, WritesAreSound
    <2>2. SoundWrite(t[k])'
      BY <1>1, <1>5, <2>1 DEF SoundWrite, SoundRow, HidesSource
    <2>3. ActiveLater(t, k) => ActiveLater(t, k)'
      BY <1>4 DEF ActiveLater
    <2> QED BY <1>5, <2>1, <2>2, <2>3
  <1>12. AloneWritesLive'
    <2> SUFFICES ASSUME NEW v \in ConvWorkers, calls[v].alone, ~FreeWorker(v)
                 PROVE  /\ \A u \in ConvWorkers \ {v} : FreeWorker(u)
                        /\ \A t \in Todo(v) : \A k \in DOMAIN t :
                              t[k].kind = "branch" /\ t[k].row.status = "active"
                                 => Undeleted(t, k)'
      BY <1>1 DEF AloneWritesLive, FreeWorker, Todo
    <2>1. /\ \A u \in ConvWorkers \ {v} : FreeWorker(u)
          /\ \A t \in Todo(v) : \A k \in DOMAIN t :
                t[k].kind = "branch" /\ t[k].row.status = "active" => Undeleted(t, k)
      BY DEF ConvInv, AloneWritesLive
    <2>2. ASSUME NEW t \in Todo(v), NEW k \in DOMAIN t, t[k].kind = "branch", Undeleted(t, k)
          PROVE  Undeleted(t, k)'
      <3>1. PICK b : b = t[k].id
        OBVIOUS
      <3>2. b \in BranchIds
        <4>1. SoundWrite(t[k])
          BY DEF ConvInv, WritesAreSound
        <4> QED BY <2>2, <3>1, <4>1, ConvFacts DEF SoundWrite
      <3>3. branches'[b].status # "deleted" /\ (branches'[b] = NoBranch => branches[b] = NoBranch)
        <4>1. CASE b \in HasLane \ Known
          <5>1. branches[b] = NoBranch
            BY <3>2, <4>1, ConvFacts
          <5>2. lanes[b] # "deleted"
            BY <2>2, <3>1, <5>1 DEF Undeleted
          <5> QED BY <1>3, <4>1, <5>2
        <4>2. CASE b \notin HasLane \ Known
          BY <1>3, <2>2, <3>1, <3>2, <4>2 DEF Undeleted
        <4> QED BY <4>1, <4>2
      <3> QED BY <1>1, <2>2, <3>1, <3>3 DEF Undeleted
    <2> QED BY <2>1, <2>2
  <1> QED BY <1>6, <1>7, <1>8, <1>9, <1>10, <1>11, <1>12 DEF ConvInv

LEMMA CallFailsStep ==
    ASSUME ConvInv, NEW w \in ConvWorkers, CallFails(w)
    PROVE  ConvInv'
  <1>1. /\ ~FreeWorker(w) /\ calls' = [calls EXCEPT ![w] = NoCall]
        /\ UNCHANGED <<conv, branches, lanes, messages, ids, history>>
        /\ Known' = Known
    BY DEF CallFails, Tables, Known
  <1>2. /\ calls' \in [ConvWorkers -> [todo : Seq(Writes), alone : BOOLEAN]]
        /\ calls'[w].todo = <<>> /\ \A v \in ConvWorkers \ {w} : calls'[v] = calls[v]
    <2>1. NoCall \in [todo : Seq(Writes), alone : BOOLEAN] /\ NoCall.todo = <<>>
      BY EmptySeq DEF NoCall
    <2> QED BY <1>1, <2>1, ConvFacts
  <1>3. DOMAIN <<>> = {}
    OBVIOUS
  <1>4. ConvTypeOK' /\ CallsTyped'
    BY <1>1, <1>2 DEF ConvInv, ConvTypeOK, CallsTyped
  <1>5. IdsAreDrawn' /\ RowsAreSound' /\ ActiveIsKnown'
    BY <1>1 DEF ConvInv, IdsAreDrawn, RowsAreSound, SoundRow, HidesSource, ActiveIsKnown
  <1>6. WritesAreSound'
    <2> SUFFICES ASSUME NEW v \in ConvWorkers, NEW t, t = calls'[v].todo, NEW k \in DOMAIN t
                 PROVE  /\ SoundWrite(t[k])'
                        /\ ~history'.purged /\ t[k].kind = "conv" => ActiveLater(t, k)'
      BY DEF WritesAreSound, Todo
    <2>1. v # w /\ t = calls[v].todo
      BY <1>2, <1>3
    <2>2. /\ SoundWrite(t[k])
          /\ ~history.purged /\ t[k].kind = "conv" => ActiveLater(t, k)
      BY <2>1 DEF ConvInv, WritesAreSound, Todo
    <2> QED BY <1>1, <2>2 DEF SoundWrite, SoundRow, HidesSource, ActiveLater
  <1>7. DeletionsAreWhole'
    <2> SUFFICES ASSUME NEW v \in ConvWorkers, NEW t, t = calls'[v].todo,
                        NEW k \in DOMAIN t, NEW l \in DOMAIN t, t[k].kind \in Gone
                 PROVE  t[l].kind \in Gone
      BY DEF DeletionsAreWhole, Todo
    <2>1. v # w /\ t = calls[v].todo
      BY <1>2, <1>3
    <2> QED BY <2>1 DEF ConvInv, DeletionsAreWhole, Todo
  <1>8. AloneWritesLive'
    <2> SUFFICES ASSUME NEW v \in ConvWorkers, calls'[v].alone, ~FreeWorker(v)' PROVE FALSE
      BY DEF AloneWritesLive
    <2>1. v # w /\ calls'[v] = calls[v]
      BY <1>2 DEF FreeWorker
    <2>2. calls[v].alone /\ ~FreeWorker(v)
      BY <2>1 DEF FreeWorker
    <2>3. FreeWorker(w)
      BY <2>1, <2>2 DEF ConvInv, AloneWritesLive
    <2> QED BY <1>1, <2>3
  <1> QED BY <1>4, <1>5, <1>6, <1>7, <1>8 DEF ConvInv

-----------------------------------------------------------------------------
(* The specification. *)

LEMMA ConvInitially == ConvInit => ConvInv
  <1> SUFFICES ASSUME ConvInit PROVE ConvInv
    OBVIOUS
  <1>1. /\ MaxBranches \in Nat /\ MaxMessages \in Nat /\ MaxConvCalls \in Nat
    BY ConvAssumption
  <1>2. /\ conv = [there |-> FALSE, active |-> 0]
        /\ branches = [b \in BranchIds |-> NoBranch]
        /\ lanes = [b \in BranchIds |-> "none"]
        /\ messages = <<>>
        /\ calls = [v \in ConvWorkers |-> NoCall]
        /\ ids = 0
        /\ history = [opened |-> FALSE, purged |-> FALSE, calls |-> 0]
    BY DEF ConvInit
  <1>3. CallsTyped /\ \A v \in ConvWorkers : calls[v].todo = <<>>
    <2>1. NoCall \in [todo : Seq(Writes), alone : BOOLEAN] /\ NoCall.todo = <<>>
      BY EmptySeq DEF NoCall
    <2> QED BY <1>2, <2>1 DEF CallsTyped
  <1>4. ConvTypeOK
    <2>1. 0 \in 0..MaxBranches /\ 0 \in 0..MaxConvCalls /\ 0 <= MaxMessages
      BY <1>1
    <2>2. <<>> \in Seq([branch : 1..ids, lane : 1..ids]) /\ Len(<<>>) = 0
      BY EmptySeq
    <2>3. messages \in Seq([branch : 1..ids, lane : 1..ids]) /\ Len(messages) <= MaxMessages
      BY <1>2, <2>1, <2>2
    <2>4. conv \in [there : BOOLEAN, active : 0..MaxBranches]
      BY <1>2, <2>1
    <2>5. history \in [opened : BOOLEAN, purged : BOOLEAN, calls : 0..MaxConvCalls]
      BY <1>2, <2>1
    <2>6. /\ branches \in [BranchIds -> BranchRows \cup {NoBranch}]
          /\ lanes \in [BranchIds -> {"none", "active", "deleted"}]
          /\ ids \in 0..MaxBranches
      BY <1>2, <2>1
    <2>7. DOMAIN calls = ConvWorkers /\ \A v \in ConvWorkers : calls[v].alone \in BOOLEAN
      BY <1>3 DEF CallsTyped
    <2> QED BY <2>3, <2>4, <2>5, <2>6, <2>7 DEF ConvTypeOK
  <1>5. DOMAIN <<>> = {}
    OBVIOUS
  <1>6. Known = {}
    BY <1>2 DEF Known
  <1>7. IdsAreDrawn /\ RowsAreSound /\ ActiveIsKnown
    BY <1>2, <1>6 DEF IdsAreDrawn, RowsAreSound, ActiveIsKnown
  <1>8. WritesAreSound /\ DeletionsAreWhole
    BY <1>3, <1>5 DEF WritesAreSound, DeletionsAreWhole, Todo
  <1>9. AloneWritesLive
    BY <1>3 DEF AloneWritesLive, FreeWorker
  <1> QED BY <1>3, <1>4, <1>7, <1>8, <1>9 DEF ConvInv

LEMMA ConvSteps == ConvInv /\ [ConvNext]_convVars => ConvInv'
  <1> SUFFICES ASSUME ConvInv, [ConvNext]_convVars PROVE ConvInv'
    OBVIOUS
  <1>1. CASE UNCHANGED convVars
    <2>1. /\ UNCHANGED <<conv, branches, lanes, messages, calls, ids, history>>
          /\ Known' = Known
      BY <1>1 DEF convVars, Known
    <2>2. ConvTypeOK' /\ CallsTyped' /\ IdsAreDrawn' /\ ActiveIsKnown' /\ DeletionsAreWhole'
      BY <2>1 DEF ConvInv, ConvTypeOK, CallsTyped, IdsAreDrawn, ActiveIsKnown, DeletionsAreWhole,
             Todo
    <2>3. RowsAreSound'
      BY <2>1 DEF ConvInv, RowsAreSound, SoundRow, HidesSource
    <2>4. WritesAreSound'
      BY <2>1 DEF ConvInv, WritesAreSound, SoundWrite, SoundRow, HidesSource, ActiveLater, Todo
    <2>5. AloneWritesLive'
      BY <2>1 DEF ConvInv, AloneWritesLive, Undeleted, FreeWorker, Todo
    <2> QED BY <2>2, <2>3, <2>4, <2>5 DEF ConvInv
  <1>2. CASE ConvNext
    <2>1. PICK w \in ConvWorkers :
             \/ Handle(w)
             \/ UpsertConversation(w) \/ UpsertLane(w) \/ UpsertBranch(w)
             \/ InsertMessage(w) \/ DeleteRows(w) \/ Backfill(w) \/ CallFails(w)
      BY <1>2 DEF ConvNext
    <2> QED BY <2>1, HandleStep, UpsertConversationStep, UpsertLaneStep, UpsertBranchStep,
               InsertMessageStep, DeleteRowsStep, BackfillStep, CallFailsStep
  <1> QED BY <1>1, <1>2

(* What the calls have still to write is sound in every state of every run.  *)
THEOREM ConversationInvariant == ConvSpec => []ConvInv
  <1>1. ConvInit => ConvInv
    BY ConvInitially
  <1>2. ConvInv /\ [ConvNext]_convVars => ConvInv'
    BY ConvSteps
  <1> QED BY <1>1, <1>2, PTL DEF ConvSpec

(* The branches of a conversation are a tree whose views terminate, the      *)
(* branch it shows has a row, and a branch made to rewrite a message never   *)
(* shows it: for every number of workers whose statements mix, of branches   *)
(* and of messages (branch_views.rs, lib.rs of conversation-service).        *)
THEOREM TreeIsSound == ConvSpec => []BranchTreeIsSound
  <1>1. ConvInv => BranchTreeIsSound
    BY TreeFollows
  <1> QED BY <1>1, ConversationInvariant, PTL

(* A deleted branch comes back only by a call that overlapped with another:  *)
(* the row that it writes was read before the deletion (upsert_branch).      *)
LEMMA RevivalStep ==
    ASSUME ConvInv, ConvNext, NEW b \in BranchIds,
           branches[b].status = "deleted", branches'[b].status = "active"
    PROVE  \E w \in ConvWorkers : calls'[w] # calls[w] /\ ~calls[w].alone
  <1>1. PICK w \in ConvWorkers :
             \/ Handle(w)
             \/ UpsertConversation(w) \/ UpsertLane(w) \/ UpsertBranch(w)
             \/ InsertMessage(w) \/ DeleteRows(w) \/ Backfill(w) \/ CallFails(w)
    BY DEF ConvNext
  <1>2. NoBranch.status = "none" /\ branches[b] # NoBranch /\ branches'[b] # NoBranch
    BY RowKinds
  <1>3. branches' # branches
    OBVIOUS
  <1>4. ~Handle(w)
    BY <1>3 DEF Handle, Tables, CreateConversation, AppendRoot, AppendRootRewrite, DeleteConversation,
           AppendMessage, AppendRewrite, CreateBranch, SwitchBranch, UpdateBranch, DeleteBranch
  <1>5. ~UpsertConversation(w) /\ ~UpsertLane(w) /\ ~InsertMessage(w) /\ ~CallFails(w)
    BY <1>3 DEF UpsertConversation, UpsertLane, InsertMessage, CallFails, Tables
  <1>6. ~DeleteRows(w)
    BY <1>2, <1>3 DEF DeleteRows
  <1>7. ~Backfill(w)
    <2>1. b \in Known
      BY <1>2 DEF Known
    <2> QED BY <2>1 DEF Backfill
  <1>8. UpsertBranch(w)
    BY <1>1, <1>4, <1>5, <1>6, <1>7
  <1>9. /\ calls[w].todo # <<>> /\ Pop(w) /\ Item(w).kind = "branch"
        /\ branches' = [branches EXCEPT ![Item(w).id] = Item(w).row]
    BY <1>8 DEF UpsertBranch, StartsWith, Item
  <1>10. Item(w).id = b /\ Item(w).row.status = "active"
    <2>1. branches \in [BranchIds -> BranchRows \cup {NoBranch}]
      BY ConvFacts
    <2> QED BY <1>9, <2>1
  <1>11. ~calls[w].alone
    <2>1. PICK todo \in Todo(w) : todo = calls[w].todo
      BY DEF Todo
    <2>2. 1 \in DOMAIN todo /\ todo[1] = Item(w)
      BY <1>9, <2>1, Popped
    <2>3. calls[w].alone => Undeleted(todo, 1)
      BY <1>9, <1>10, <2>2 DEF ConvInv, AloneWritesLive, FreeWorker
    <2> QED BY <1>10, <2>2, <2>3 DEF Undeleted
  <1>12. calls'[w] # calls[w]
    BY <1>9, Popped
  <1> QED BY <1>11, <1>12

THEOREM RevivalNeedsOverlap == ConvSpec => RevivedOnlyByOverlap
  <1>1. ConvInv /\ [ConvNext]_convVars =>
           [\A b \in BranchIds :
               branches[b].status = "deleted" /\ branches'[b].status = "active"
                  => \E w \in ConvWorkers : calls'[w] # calls[w] /\ ~calls[w].alone]_convVars
    BY RevivalStep
  <1> QED BY <1>1, ConversationInvariant, PTL DEF ConvSpec, RevivedOnlyByOverlap

-----------------------------------------------------------------------------
(* The turns of a conversation: workers.                                     *)

TurnRows ==
    [step : Steps, job : Jobs, left : Seq(TurnAgents), turn : Turns \cup {NoTurn},
     key : LoopIds \cup {NoTurn}, managed : BOOLEAN, recovering : BOOLEAN, backlog : SUBSET Turns,
     loop : Loops, result : {"completed", "failed"}]

(* The steps in which a worker may still come to say something of its loop.  *)
Acts == {"prepare", "confirm", "tell", "ask", "tool", "park", "resume", "reply", "sorry"}

(* Where an invocation can stand: recovery runs the first steps of a turn    *)
(* only, the drive claims turns and the hooks resume loops.                  *)
SoundTurn(p) ==
    /\ p.step \in Acts \cup {"finish"} => p.turn \in Turns /\ p.key \in LoopIds
    /\ p.step = "remark" => p.turn \in Turns /\ p.recovering
    /\ p.step \in {"prepare", "confirm"} => p.key = Direct(p.turn)
    /\ p.recovering =>
          p.step \in {"remark", "prepare", "confirm", "tell", "ask", "park", "sorry", "finish"}
    /\ p.step = "idle" <=> p.job.kind = "none"
    /\ p.job.kind = "drive" => p.job.message \in Messages
    /\ p.job.kind = "hook" => p.job.op \in TurnOps
    /\ ~p.recovering /\ p.step \in {"claim", "prepare", "confirm", "tell"} => p.job.kind = "drive"
    /\ p.step \in {"tool", "resume", "reply"} => p.job.kind = "hook"
    /\ ~p.recovering /\ p.step \in {"ask", "park", "sorry", "finish"} =>
          p.job.kind \in {"drive", "hook"}
    /\ p.step = "tool" => p.loop.calls > 0
    /\ p.step \in {"park", "resume"} =>
          /\ p.loop.op # 0 /\ p.loop.kind # "none"
          /\ p.loop.kind = "runtime" => p.loop.calls > 0

(* An invocation past its recovery: of a drive, of a hook, and one that has  *)
(* not come so far.                                                          *)
Past(p)       == p.step \notin {"idle", "recover", "serve"} /\ ~p.recovering
Claims(p)     == p.job.kind = "drive" /\ Past(p)
Resumes(p, o) == p.job.kind = "hook" /\ p.job.op = o /\ Past(p)
Awaits(p, o)  == p.job.kind = "hook" /\ p.job.op = o /\ ~Past(p)

-----------------------------------------------------------------------------
(* The turns of a conversation: the inductive invariant.                     *)

TurnWorkersSound == workers \in [TurnWorkers -> TurnRows] /\ \A w \in TurnWorkers : SoundTurn(workers[w])

(* Only messages that were sent have turns. *)
Sent(m) == drives[m] # "unsent"
TurnsWereSent ==
    /\ \A w \in TurnWorkers :
          /\ workers[w].turn # NoTurn => Sent(workers[w].turn[1])
          /\ \A t \in workers[w].backlog : Sent(t[1])
          /\ workers[w].job.kind = "drive" => Sent(workers[w].job.message)
    /\ \A t \in Turns : receipts[t] # "none" => Sent(t[1])
    /\ \A o \in DOMAIN turnOps : Sent(turnOps[o].turn[1])
    /\ \A k \in LoopIds : rows[k] # NoRow => Sent(rowTurn[k][1])

(* A turn works for a run only if its message has confirmed a plan. *)
Confirmed(p, by) ==
    \/ p.step = "confirm"
    \/ p.step \in {"tell", "ask", "park"} /\ ~InHook(p) /\ ~IsDirect(p.key)
    => p.turn[1] \in by
RunsAreConfirmed == \A w \in TurnWorkers : Confirmed(workers[w], confirming)

(* A completed turn, and one about to be, was answered. *)
WasAnswered(t) == t \in said \/ (t[1] \in confirming /\ Executed(t))
CompletedWereSaid ==
    /\ \A t \in Turns : receipts[t] = "completed" => WasAnswered(t)
    /\ \A w \in TurnWorkers : workers[w].step = "finish" /\ workers[w].result = "completed"
                                 => WasAnswered(workers[w].turn)

(* A hook is that of an operation that ended, and one worker at most has it. *)
HooksAreTaken ==
    /\ \A o \in TurnOps : hooks[o].state # "none" =>
          o \in DOMAIN turnOps /\ turnOps[o].status # "running"
    /\ \A o \in TurnOps : hooks[o].state \in {"none", "due", "taken"} => hooks[o].attempts < MaxDeliveries
    /\ \A w \in TurnWorkers : workers[w].job.kind = "hook" => hooks[workers[w].job.op].state = "taken"
    /\ \A v, w \in TurnWorkers :
          /\ workers[v].job.kind = "hook" /\ workers[w].job.kind = "hook"
          /\ workers[v].job.op = workers[w].job.op
          => v = w

(* A loop that is parked, or about to be, waits for its own operation; the   *)
(* operation of one about to be parked is new.                               *)
WaitsFor(ops, k, loop) ==
    loop.op # 0 => /\ loop.op \in DOMAIN ops
                   /\ ops[loop.op].key = k /\ ops[loop.op].kind = loop.kind
                   /\ loop.kind = "runtime" => loop.calls > 0
ParksOwn(ops, p) == WaitsFor(ops, p.key, p.loop) /\ (p.loop.op # 0 => ops[p.loop.op].turn = p.turn)
ParkedAreOwn ==
    /\ \A k \in LoopIds : WaitsFor(turnOps, k, rows[k])
    /\ \A w \in TurnWorkers : workers[w].step = "park" =>
          /\ ParksOwn(turnOps, workers[w])
          /\ \A k \in LoopIds : rows[k].op # workers[w].loop.op
          /\ \A v \in TurnWorkers :
                /\ workers[v].step = "park" /\ workers[v].loop.op = workers[w].loop.op => v = w
                /\ ~Resumes(workers[v], workers[w].loop.op)

(* A hook resumes the loop of its operation, and has taken the row away      *)
(* before it replies.                                                        *)
ResumedAreOwn ==
    \A w \in TurnWorkers : LET p == workers[w] IN
        p.job.kind = "hook" /\ Past(p) =>
            /\ p.job.op \in DOMAIN turnOps /\ turnOps[p.job.op].key = p.key
            /\ p.step = "reply" => rows[p.key].op # p.job.op

(* Who is addressed is claimed or still to come. *)
AddressedAreClaimed ==
    \A w \in TurnWorkers : LET p == workers[w] IN
        Claims(p) =>
            \A i \in DOMAIN Addressed[p.job.message] :
               \/ receipts[<<p.job.message, Addressed[p.job.message][i]>>] # "none"
               \/ \E j \in DOMAIN p.left : p.left[j] = Addressed[p.job.message][i]

(* What may still say something of a loop: the workers that act on it, and   *)
(* its parked row while the hook of its operation is to be served.  Each is  *)
(* a start of the loop or a death.                                           *)
Acting(k)    == {w \in TurnWorkers : workers[w].step \in Acts /\ workers[w].key = k}
HookComes(o) == hooks[o].state \in {"none", "due"} \/ \E w \in TurnWorkers : Awaits(workers[w], o)
ToCome(k)    == IF rows[k].op # 0 /\ HookComes(rows[k].op) THEN 1 ELSE 0
StartsAreSpentOnce ==
    \A k \in LoopIds : /\ IsFiniteSet(Acting(k))
                        /\ Cardinality(Acting(k)) + ToCome(k) <= owed[k] + deaths

TurnInv ==
    /\ TurnsTypeOK
    /\ TurnWorkersSound
    /\ TurnsWereSent
    /\ RunsAreConfirmed
    /\ CompletedWereSaid
    /\ HooksAreTaken
    /\ ParkedAreOwn
    /\ ResumedAreOwn
    /\ AddressedAreClaimed
    /\ StartsAreSpentOnce

-----------------------------------------------------------------------------
(* The turns of a conversation: what the workers' steps have in common.      *)

OthersStay(w) == \A v \in TurnWorkers : v # w => workers'[v] = workers[v]

(* The worker answers its invocation. *)
Answers(w) == \E outcome \in {"ok", "skip", "fail"} : Respond(w, outcome)

(* It goes on with it. *)
Moves(w, p) ==
    /\ workers' = [workers EXCEPT ![w] = p] /\ p \in TurnRows /\ SoundTurn(p)
    /\ p.job = workers[w].job /\ p.backlog \subseteq workers[w].backlog
    /\ UNCHANGED <<drives, hooks>>

(* It stays in its turn, goes on with the loop, or leaves the turn for the   *)
(* next one.                                                                 *)
StaysInTurn(w, p) ==
    /\ Moves(w, p)
    /\ p.left = workers[w].left /\ p.recovering = workers[w].recovering /\ p.turn = workers[w].turn
Advances(w, p) == StaysInTurn(w, p) /\ p.key = workers[w].key

Leaves(w, p) ==
    /\ Moves(w, p)
    /\ p.left = workers[w].left /\ ~p.recovering /\ p.turn = NoTurn /\ p.key = NoTurn
    /\ p.step = IF workers[w].recovering THEN "recover" ELSE "claim"

LEMMA TurnFields ==
    ASSUME NEW p \in TurnRows
    PROVE  /\ p = [step |-> p.step, job |-> p.job, left |-> p.left, turn |-> p.turn, key |-> p.key,
                   managed |-> p.managed, recovering |-> p.recovering, backlog |-> p.backlog,
                   loop |-> p.loop, result |-> p.result]
           /\ p.step \in Steps /\ p.job \in Jobs /\ p.left \in Seq(TurnAgents)
           /\ p.turn \in Turns \cup {NoTurn} /\ p.key \in LoopIds \cup {NoTurn}
           /\ p.managed \in BOOLEAN /\ p.recovering \in BOOLEAN
           /\ p.backlog \in SUBSET Turns /\ p.loop \in Loops /\ p.result \in {"completed", "failed"}
  BY DEF TurnRows

LEMMA TurnParts ==
    ASSUME NEW t \in Turns
    PROVE  t = <<t[1], t[2]>> /\ t[1] \in Messages /\ t[2] \in TurnAgents
  BY DEF Turns

LEMMA KeyParts ==
    /\ \A t \in Turns : Direct(t) \in LoopIds /\ IsDirect(Direct(t))
    /\ \A k \in LoopIds : k[1] \in Turns /\ k[2] \in 0..MaxTurnRuns
    /\ \A k \in LoopIds : IsDirect(k) => k = Direct(k[1])
  <1>1. \A t \in Turns : Direct(t) \in LoopIds /\ IsDirect(Direct(t))
    BY TurnAssumption DEF LoopIds, Direct, IsDirect
  <1> QED BY <1>1 DEF LoopIds, Direct, IsDirect

LEMMA JobFields ==
    ASSUME NEW j \in Jobs
    PROVE  /\ j = [kind |-> j.kind, message |-> j.message, handler |-> j.handler, op |-> j.op]
           /\ j.kind \in {"none", "drive", "hook", "other"} /\ j.message \in Messages \cup {0}
           /\ j.handler \in {"task", "default"} /\ j.op \in 0..MaxTurnOps
  BY DEF Jobs

LEMMA LoopFields ==
    ASSUME NEW l \in Loops
    PROVE  l = [op |-> l.op, kind |-> l.kind, calls |-> l.calls] /\ l.op \in 0..MaxTurnOps
           /\ l.kind \in {"none", "provider", "runtime"} /\ l.calls \in 0..MaxCalls
  BY DEF Loops

LEMMA JobOfHook ==
    ASSUME NEW j \in Jobs, NEW o \in 0..MaxTurnOps
    PROVE  LET d == [j EXCEPT !.kind = "hook", !.op = o]
           IN  d \in Jobs /\ d.kind = "hook" /\ d.op = o
  BY DEF Jobs

LEMMA IdleIsSound == NoJob \in Jobs /\ IdleProcess \in TurnRows /\ SoundTurn(IdleProcess) /\ ~Past(IdleProcess)
  <1>1. NoJob \in Jobs /\ NoJob.kind = "none"
    BY TurnAssumption DEF NoJob, Jobs
  <1>2. Fresh \in Loops
    BY TurnAssumption DEF Fresh, Loops
  <1>3. IdleProcess \in TurnRows
    BY <1>1, <1>2 DEF IdleProcess, TurnRows, Steps, NoTurn
  <1> QED BY <1>1, <1>3 DEF IdleProcess, SoundTurn, Past, Acts

(* One worker more or less acts on a loop. *)
Share(w, k) == IF workers[w].step \in Acts /\ workers[w].key = k THEN 1 ELSE 0

LEMMA ActingChanges ==
    ASSUME NEW w \in TurnWorkers, OthersStay(w), NEW k, IsFiniteSet(Acting(k))
    PROVE  /\ IsFiniteSet(Acting(k)')
           /\ Cardinality(Acting(k)) \in Nat /\ Cardinality(Acting(k)') \in Nat
           /\ Cardinality(Acting(k)') = Cardinality(Acting(k)) - Share(w, k) + Share(w, k)'
  <1> DEFINE A == Acting(k)
             B == Acting(k)'
  <1>1. \A v \in TurnWorkers : v # w => (v \in A <=> v \in B)
    BY DEF OthersStay, Acting
  <1>2. /\ w \in A <=> Share(w, k) = 1
        /\ w \in B <=> Share(w, k)' = 1
        /\ Share(w, k) \in {0, 1} /\ Share(w, k)' \in {0, 1}
    BY DEF Acting, Share
  <1>3. A \subseteq TurnWorkers /\ B \subseteq TurnWorkers
    BY DEF Acting
  <1> HIDE DEF A, B
  <1>4. IsFiniteSet(A) /\ Cardinality(A) \in Nat
    BY FS_CardinalityType DEF A
  <1>5. CASE w \in A /\ w \notin B
    <2>1. B = A \ {w}
      BY <1>1, <1>3, <1>5
    <2>2. IsFiniteSet(B) /\ Cardinality(B) = Cardinality(A) - 1
      BY <1>4, <1>5, <2>1, FS_RemoveElement
    <2> QED BY <1>2, <1>4, <1>5, <2>2, FS_CardinalityType DEF A, B
  <1>6. CASE w \notin A /\ w \in B
    <2>1. B = A \cup {w}
      BY <1>1, <1>3, <1>6
    <2> QED BY <1>2, <1>4, <1>6, <2>1, FS_AddElement DEF A, B
  <1>7. CASE w \in A <=> w \in B
    <2>1. B = A
      BY <1>1, <1>3, <1>7
    <2> QED BY <1>2, <1>4, <1>7, <2>1 DEF A, B
  <1> QED BY <1>5, <1>6, <1>7

-----------------------------------------------------------------------------
(* The turns of a conversation: the shape of each step.                      *)

LEMMA AnswersIs ==
    ASSUME TurnWorkersSound, TurnsTypeOK, NEW w \in TurnWorkers, Answers(w)
    PROVE  /\ workers' = [workers EXCEPT ![w] = IdleProcess] /\ workers'[w] = IdleProcess
           /\ OthersStay(w)
           /\ drives' \in [Messages -> {"unsent", "task", "default", "called", "done"}]
           /\ \A m \in Messages : Sent(m) => Sent(m)'
           /\ \A o \in TurnOps : (workers[w].job.kind = "hook" /\ workers[w].job.op = o)
                 \/ hooks'[o] = hooks[o]
           /\ workers[w].job.kind # "hook" => hooks' = hooks
  <1>1. workers' = [workers EXCEPT ![w] = IdleProcess] /\ DOMAIN workers = TurnWorkers
    BY DEF Answers, Respond, Become, TurnWorkersSound
  <1>2. workers'[w] = IdleProcess /\ OthersStay(w)
    BY <1>1 DEF OthersStay
  <1>3. workers[w] \in TurnRows /\ workers[w].job \in Jobs /\ SoundTurn(workers[w])
    BY DEF TurnWorkersSound, TurnRows
  <1>4. /\ drives' \in [Messages -> {"unsent", "task", "default", "called", "done"}]
        /\ \A m \in Messages : Sent(m) => Sent(m)'
    <2>1. workers[w].job.handler \in {"task", "default"}
      BY <1>3 DEF Jobs
    <2> QED BY <1>3, <2>1 DEF Answers, Respond, DriveGoesOn, NextHandler, Sent, TurnsTypeOK
  <1>5. \A o \in TurnOps : (workers[w].job.kind = "hook" /\ workers[w].job.op = o)
                 \/ hooks'[o] = hooks[o]
    BY <1>3 DEF Answers, Respond, HookGoesOn, HookEnds, TurnsTypeOK, SoundTurn
  <1> QED BY <1>1, <1>2, <1>4, <1>5 DEF Answers, Respond, HookGoesOn

LEMMA EndTurnIs ==
    ASSUME TurnWorkersSound, NEW w \in TurnWorkers, NEW error \in BOOLEAN, EndTurn(w, error),
           workers[w].step \in {"prepare", "confirm", "tell", "park", "sorry"},
           workers[w].recovering \/ workers[w].job.kind = "drive" \/ error
    PROVE  /\ \/ /\ Answers(w) /\ error /\ ~workers[w].recovering
              \/ \E p \in TurnRows : Leaves(w, p)
           /\ IF error THEN MarkReceipt(workers[w].turn, "failed") ELSE UNCHANGED receipts
  <1> DEFINE q == workers[w]
             n == [q EXCEPT !.turn = NoTurn, !.key = NoTurn, !.loop = Fresh, !.recovering = FALSE]
  <1>1. q \in TurnRows /\ SoundTurn(q)
    BY DEF TurnWorkersSound
  <1>2. Fresh \in Loops
    BY TurnAssumption DEF Fresh, Loops
  <1>3. IF error THEN MarkReceipt(q.turn, "failed") ELSE UNCHANGED receipts
    BY DEF EndTurn
  <1>4. CASE q.recovering
    <2> DEFINE p == [n EXCEPT !.step = "recover"]
    <2>1. /\ p \in TurnRows /\ p.job = q.job /\ p.left = q.left /\ p.backlog = q.backlog
          /\ ~p.recovering /\ p.turn = NoTurn /\ p.key = NoTurn /\ p.step = "recover" /\ p.loop = Fresh
      BY <1>1, <1>2, TurnFields DEF TurnRows, Steps
    <2>2. workers' = [workers EXCEPT ![w] = p] /\ UNCHANGED <<drives, hooks>>
      BY <1>4 DEF EndTurn, Become
    <2> HIDE DEF p
    <2>3. SoundTurn(p)
      BY <1>1, <2>1 DEF SoundTurn, Acts, Fresh
    <2>4. Leaves(w, p)
      BY <1>4, <2>1, <2>2, <2>3 DEF Leaves, Moves
    <2> QED BY <1>3, <2>1, <2>3, <2>4
  <1>5. CASE ~q.recovering /\ error
    <2>1. Respond(w, "fail")
      BY <1>5 DEF EndTurn
    <2> QED BY <1>3, <1>5, <2>1 DEF Answers
  <1>6. CASE ~q.recovering /\ ~error
    <2> DEFINE p == [n EXCEPT !.step = "claim"]
    <2>1. /\ p \in TurnRows /\ p.job = q.job /\ p.left = q.left /\ p.backlog = q.backlog
          /\ ~p.recovering /\ p.turn = NoTurn /\ p.key = NoTurn /\ p.step = "claim" /\ p.loop = Fresh
      BY <1>1, <1>2, TurnFields DEF TurnRows, Steps
    <2>2. workers' = [workers EXCEPT ![w] = p] /\ UNCHANGED <<drives, hooks>>
      BY <1>6 DEF EndTurn, Become
    <2> HIDE DEF p
    <2>3. SoundTurn(p)
      BY <1>1, <1>6, <2>1 DEF SoundTurn, Acts, Fresh
    <2>4. Leaves(w, p)
      BY <1>6, <2>1, <2>2, <2>3 DEF Leaves, Moves
    <2> QED BY <1>3, <2>1, <2>3, <2>4
  <1> QED BY <1>4, <1>5, <1>6

LEMMA GoIs ==
    ASSUME TurnWorkersSound, NEW w \in TurnWorkers, NEW step \in Steps, Go(w, step),
           SoundTurn([workers[w] EXCEPT !.step = step]), UNCHANGED <<drives, hooks>>
    PROVE  \E p \in TurnRows : Advances(w, p) /\ p.step = step /\ p.loop = workers[w].loop
  <1> DEFINE p == [workers[w] EXCEPT !.step = step]
  <1>1. workers[w] \in TurnRows
    BY DEF TurnWorkersSound
  <1>2. /\ p \in TurnRows /\ p.job = workers[w].job /\ p.left = workers[w].left
        /\ p.backlog = workers[w].backlog /\ p.recovering = workers[w].recovering
        /\ p.turn = workers[w].turn /\ p.key = workers[w].key /\ p.step = step
        /\ p.loop = workers[w].loop
    BY <1>1, TurnFields DEF TurnRows
  <1>3. workers' = [workers EXCEPT ![w] = p] /\ SoundTurn(p)
    BY DEF Go, Become
  <1> HIDE DEF p
  <1> QED BY <1>2, <1>3 DEF Advances, StaysInTurn, Moves

(* recover_stale_conversation_receipts *)
RecoverMarks(w) ==
    \E t \in workers[w].backlog : \/ MarkReceipt(t, "failed")
                                  \/ t \in said /\ MarkReceipt(t, "completed")

LEMMA RecoverIs ==
    ASSUME TurnWorkersSound, NEW w \in TurnWorkers, Recover(w)
    PROVE  \E p \in TurnRows :
              /\ Moves(w, p) /\ p.left = workers[w].left
              /\ \/ p.step = "serve" /\ ~p.recovering /\ p.turn = workers[w].turn /\ UNCHANGED receipts
                 \/ /\ p.step = "recover" /\ ~p.recovering /\ p.turn = workers[w].turn
                    /\ RecoverMarks(w)
                 \/ p.step = "remark" /\ p.recovering /\ p.turn \in workers[w].backlog
                    /\ UNCHANGED receipts
  <1> DEFINE q == workers[w]
  <1>1. q \in TurnRows /\ SoundTurn(q) /\ q.step = "recover" /\ ~q.recovering
        /\ UNCHANGED <<drives, hooks>> /\ q.job.kind # "none"
    BY DEF TurnWorkersSound, SoundTurn, Recover
  <1>2. CASE q.backlog = {}
    <2>1. Go(w, "serve") /\ UNCHANGED receipts
      BY <1>2 DEF Recover
    <2>2. SoundTurn([q EXCEPT !.step = "serve"])
      BY <1>1, TurnFields DEF SoundTurn, Acts
    <2>3. "serve" \in Steps
      BY DEF Steps
    <2> HIDE DEF q
    <2>4. PICK p \in TurnRows : Advances(w, p) /\ p.step = "serve"
      BY <1>1, <2>1, <2>2, <2>3, GoIs DEF q
    <2> QED BY <1>1, <2>1, <2>4 DEF Advances, StaysInTurn, q
  <1>3. CASE q.backlog # {}
    <2>1. PICK t \in q.backlog :
             LET next == [q EXCEPT !.backlog = @ \ {t}] IN
                 \/ /\ MarkReceipt(t, "failed")
                    /\ Become(w, next)
                 \/ /\ t \in said
                    /\ MarkReceipt(t, "completed")
                    /\ Become(w, next)
                 \/ /\ t \notin said
                    /\ Become(w, [next EXCEPT !.step = "remark", !.turn = t, !.recovering = TRUE])
                    /\ UNCHANGED receipts
      BY <1>3 DEF Recover
    <2> DEFINE p == [q EXCEPT !.backlog = @ \ {t}]
               r == [p EXCEPT !.step = "remark", !.turn = t, !.recovering = TRUE]
    <2>2. t \in Turns
      BY <1>1 DEF TurnRows
    <2>3. /\ p \in TurnRows /\ p.job = q.job /\ p.left = q.left /\ p.backlog \subseteq q.backlog
          /\ ~p.recovering /\ p.turn = q.turn /\ p.step = "recover" /\ p.loop = q.loop
      BY <1>1, TurnFields DEF TurnRows, Steps
    <2> HIDE DEF p
    <2>4. /\ r \in TurnRows /\ r.job = q.job /\ r.left = q.left /\ r.backlog \subseteq q.backlog
          /\ r.recovering /\ r.turn = t /\ r.step = "remark" /\ r.loop = q.loop
      BY <2>2, <2>3, TurnFields DEF TurnRows, Steps
    <2>5. \/ workers' = [workers EXCEPT ![w] = p] /\ RecoverMarks(w)
          \/ workers' = [workers EXCEPT ![w] = r] /\ UNCHANGED receipts
      BY <2>1 DEF p, Become, RecoverMarks
    <2> HIDE DEF r
    <2>6. SoundTurn(p)
      BY <1>1, <2>3 DEF SoundTurn, Acts
    <2>7. SoundTurn(r)
      BY <1>1, <2>2, <2>4 DEF SoundTurn, Acts
    <2>8. CASE workers' = [workers EXCEPT ![w] = p] /\ RecoverMarks(w)
      <3>1. Moves(w, p)
        BY <1>1, <2>3, <2>6, <2>8 DEF Moves
      <3> QED BY <2>3, <2>8, <3>1
    <2>9. CASE workers' = [workers EXCEPT ![w] = r] /\ UNCHANGED receipts
      <3>1. Moves(w, r)
        BY <1>1, <2>4, <2>7, <2>9 DEF Moves
      <3> QED BY <2>4, <2>9, <3>1
    <2> QED BY <2>5, <2>8, <2>9
  <1> QED BY <1>2, <1>3

(* A worker stays in its turn with another loop. *)
TakesUpLoop(w, step, k) == Become(w, [workers[w] EXCEPT !.step = step, !.key = k])

LEMMA TurnsTo ==
    ASSUME TurnWorkersSound, NEW w \in TurnWorkers, NEW step \in {"prepare", "ask", "tell"},
           NEW k \in LoopIds, workers[w].turn \in Turns,
           TakesUpLoop(w, step, k),
           workers[w].recovering \/ workers[w].job.kind = "drive",
           step = "prepare" => k = Direct(workers[w].turn), UNCHANGED <<drives, hooks>>
    PROVE  \E p \in TurnRows : StaysInTurn(w, p) /\ p.step = step /\ p.key = k
  <1> DEFINE q == workers[w]
             p == [q EXCEPT !.step = step, !.key = k]
  <1>1. q \in TurnRows /\ SoundTurn(q)
    BY DEF TurnWorkersSound
  <1>2. /\ p \in TurnRows /\ p.job = q.job /\ p.left = q.left /\ p.backlog = q.backlog
        /\ p.recovering = q.recovering /\ p.turn = q.turn /\ p.key = k /\ p.step = step
        /\ p.loop = q.loop
    BY <1>1, TurnFields DEF TurnRows, Steps
  <1>3. workers' = [workers EXCEPT ![w] = p]
    BY DEF Become, TakesUpLoop
  <1> HIDE DEF p
  <1>4. SoundTurn(p)
    BY <1>1, <1>2 DEF SoundTurn, Acts
  <1> QED BY <1>2, <1>3, <1>4 DEF StaysInTurn, Moves

LEMMA RemarkIs ==
    ASSUME TurnWorkersSound, NEW w \in TurnWorkers, Remark(w)
    PROVE  /\ \E p \in TurnRows :
                 StaysInTurn(w, p) /\ p.step = "prepare" /\ p.key = Direct(workers[w].turn)
           /\ workers[w].step = "remark" /\ workers[w].recovering /\ workers[w].turn \in Turns
  <1>1. /\ workers[w] \in TurnRows /\ SoundTurn(workers[w]) /\ workers[w].step = "remark"
        /\ Become(w, [workers[w] EXCEPT !.step = "prepare", !.key = Direct(workers[w].turn)])
        /\ UNCHANGED <<drives, hooks>>
    BY DEF TurnWorkersSound, Remark
  <1>2. workers[w].recovering /\ workers[w].turn \in Turns
    BY <1>1 DEF SoundTurn
  <1>3. Direct(workers[w].turn) \in LoopIds
    BY <1>2, KeyParts
  <1>4. TakesUpLoop(w, "prepare", Direct(workers[w].turn))
    BY <1>1 DEF TakesUpLoop
  <1> QED BY <1>1, <1>2, <1>3, <1>4, TurnsTo

LEMMA ServeDriveIs ==
    ASSUME TurnWorkersSound, TurnAssumption, NEW w \in TurnWorkers, ServeDrive(w)
    PROVE  /\ workers[w].step = "serve" /\ ~workers[w].recovering
           /\ \/ Answers(w)
              \/ \E p \in TurnRows :
                    /\ Moves(w, p) /\ p.step = "claim" /\ ~p.recovering /\ p.turn = workers[w].turn
                    /\ p.left = Addressed[p.job.message]
  <1> DEFINE q == workers[w]
             p == [q EXCEPT !.step = "claim", !.managed = (q.job.handler = "task"),
                            !.left = Addressed[q.job.message]]
  <1>1. q \in TurnRows /\ SoundTurn(q) /\ q.step = "serve" /\ q.job.kind = "drive"
    BY DEF TurnWorkersSound, ServeDrive
  <1>2. q.job.message \in Messages /\ ~q.recovering
    BY <1>1 DEF SoundTurn
  <1>3. Addressed[q.job.message] \in Seq(TurnAgents)
    BY <1>2 DEF TurnAssumption
  <1>4. /\ p \in TurnRows /\ p.job = q.job /\ p.left = Addressed[q.job.message]
        /\ p.backlog = q.backlog /\ ~p.recovering /\ p.turn = q.turn /\ p.step = "claim"
        /\ p.loop = q.loop
    BY <1>1, <1>2, <1>3, TurnFields DEF TurnRows, Steps
  <1>5. CASE Respond(w, "skip")
    BY <1>1, <1>2, <1>5 DEF Answers
  <1>6. CASE workers' = [workers EXCEPT ![w] = p] /\ UNCHANGED <<drives, hooks>>
    <2> HIDE DEF p
    <2>1. SoundTurn(p)
      BY <1>1, <1>2, <1>4 DEF SoundTurn, Acts
    <2>2. Moves(w, p)
      BY <1>4, <1>6, <2>1 DEF Moves
    <2> QED BY <1>1, <1>2, <1>4, <2>2
  <1> QED BY <1>5, <1>6 DEF ServeDrive, Become

LEMMA TurnOpFields ==
    ASSUME TurnsTypeOK, NEW o \in DOMAIN turnOps
    PROVE  /\ turnOps[o].turn \in Turns /\ turnOps[o].key \in LoopIds
           /\ turnOps[o].kind \in {"provider", "runtime"}
           /\ turnOps[o].status \in {"running", "succeeded", "failed", "abandoned"}
           /\ o \in 1..Len(turnOps) /\ Len(turnOps) \in Nat
  <1> DEFINE R == [turn : Turns, key : LoopIds, kind : {"provider", "runtime"},
                   status : {"running", "succeeded", "failed", "abandoned"}]
  <1>1. turnOps \in Seq(R)
    BY DEF TurnsTypeOK
  <1>2. o \in 1..Len(turnOps) /\ Len(turnOps) \in Nat
    BY <1>1, LenProperties
  <1>3. turnOps[o] \in R
    BY <1>1, <1>2, ElementOfSeq
  <1> QED BY <1>2, <1>3

LEMMA ServeHookIs ==
    ASSUME TurnWorkersSound, ParkedAreOwn, TurnsTypeOK, NEW w \in TurnWorkers, ServeHook(w),
           workers[w].job.op \in DOMAIN turnOps
    PROVE  /\ workers[w].step = "serve" /\ workers[w].job.kind = "hook" /\ ~workers[w].recovering
           /\ \/ Answers(w)
              \/ \E p \in TurnRows :
                    /\ Moves(w, p) /\ p.step = "resume" /\ ~p.recovering /\ p.left = workers[w].left
                    /\ p.key = turnOps[p.job.op].key /\ rows[p.key] # NoRow
                    /\ p.loop = rows[p.key] /\ p.turn = rowTurn[p.key] /\ rows[p.key].op = p.job.op
  <1> DEFINE q == workers[w]
             o == q.job.op
             k == turnOps[o].key
             p == [q EXCEPT !.step = "resume", !.key = k, !.turn = rowTurn[k], !.loop = rows[k]]
  <1>1. q \in TurnRows /\ SoundTurn(q) /\ q.step = "serve" /\ q.job.kind = "hook"
    BY DEF TurnWorkersSound, ServeHook
  <1>2. o \in TurnOps /\ ~q.recovering /\ o # 0
    BY <1>1, TurnAssumption DEF SoundTurn, TurnOps
  <1>3. k \in LoopIds /\ turnOps[o].kind # "none" /\ rowTurn[k] \in Turns
    BY TurnOpFields DEF TurnsTypeOK
  <1>4. CASE \E outcome \in {"ok", "fail"} : Respond(w, outcome)
    BY <1>1, <1>2, <1>4 DEF Answers
  <1>5. CASE rows[k] # NoRow /\ rows[k].op = o
             /\ workers' = [workers EXCEPT ![w] = p] /\ UNCHANGED <<drives, hooks>>
    <2>1. rows[k] \in Loops
      BY <1>3, <1>5 DEF TurnsTypeOK
    <2>2. /\ p \in TurnRows /\ p.job = q.job /\ p.left = q.left /\ p.backlog = q.backlog
          /\ ~p.recovering /\ p.turn = rowTurn[k] /\ p.key = k /\ p.step = "resume" /\ p.loop = rows[k]
      <3>1. PICK turn \in Turns, loop \in Loops, key \in LoopIds :
               turn = rowTurn[k] /\ loop = rows[k] /\ key = k
        BY <1>3, <2>1
      <3>2. p = [q EXCEPT !.step = "resume", !.key = key, !.turn = turn, !.loop = loop]
        BY <3>1
      <3> HIDE DEF p, k
      <3> QED BY <1>1, <1>2, <3>1, <3>2, TurnFields DEF TurnRows, Steps
    <2>3. /\ rows[k].kind = turnOps[o].kind /\ turnOps[o].kind # "none"
          /\ rows[k].kind = "runtime" => rows[k].calls > 0
      BY <1>2, <1>3, <1>5 DEF ParkedAreOwn, WaitsFor
    <2> HIDE DEF p
    <2>4. SoundTurn(p)
      BY <1>1, <1>2, <1>3, <1>5, <2>2, <2>3 DEF SoundTurn, Acts
    <2>5. Moves(w, p)
      BY <1>5, <2>2, <2>4 DEF Moves
    <2> QED BY <1>1, <1>2, <1>5, <2>2, <2>5
  <1> QED BY <1>4, <1>5 DEF ServeHook, Become

LEMMA ClaimIs ==
    ASSUME TurnWorkersSound, NEW w \in TurnWorkers, ClaimNext(w)
    PROVE  /\ workers[w].step = "claim" /\ ~workers[w].recovering /\ workers[w].job.kind = "drive"
           /\ \/ workers[w].left = <<>> /\ Answers(w) /\ UNCHANGED <<receipts, owed>>
              \/ LET t == <<workers[w].job.message, Head(workers[w].left)>> IN
                 /\ workers[w].left # <<>> /\ t \in Turns
                 /\ \E p \in TurnRows :
                       /\ Moves(w, p) /\ ~p.recovering /\ p.left = Tail(workers[w].left)
                       /\ \/ /\ p.step = "prepare" /\ p.turn = t /\ p.key = Direct(t)
                             /\ MarkReceipt(t, "running") /\ Starts(t)
                          \/ /\ p.step = "claim" /\ p.turn = workers[w].turn
                             /\ receipts[t] # "none" /\ UNCHANGED <<receipts, owed>>
  <1> DEFINE q == workers[w]
             t == <<q.job.message, Head(q.left)>>
             n == [q EXCEPT !.step = "prepare", !.turn = t, !.key = Direct(t), !.left = Tail(@)]
             p == [q EXCEPT !.left = Tail(@)]
  <1>1. q \in TurnRows /\ SoundTurn(q) /\ q.step = "claim"
    BY DEF TurnWorkersSound, ClaimNext
  <1>2. q.job.message \in Messages /\ ~q.recovering /\ q.job.kind = "drive"
    BY <1>1 DEF SoundTurn
  <1>3. CASE q.left = <<>>
    <2>1. Respond(w, "ok") /\ UNCHANGED <<receipts, owed>>
      BY <1>3 DEF ClaimNext
    <2> QED BY <1>1, <1>2, <1>3, <2>1 DEF Answers
  <1>4. CASE q.left # <<>>
    <2>1. Head(q.left) \in TurnAgents /\ Tail(q.left) \in Seq(TurnAgents)
      BY <1>1, <1>4, HeadTailProperties DEF TurnRows
    <2>2. t \in Turns /\ Direct(t) \in LoopIds
      <3>1. t \in Turns
        BY <1>2, <2>1 DEF Turns
      <3> HIDE DEF t
      <3> QED BY <3>1, KeyParts
    <2>3. /\ p \in TurnRows /\ p.job = q.job /\ p.left = Tail(q.left) /\ p.backlog = q.backlog
          /\ ~p.recovering /\ p.turn = q.turn /\ p.step = "claim" /\ p.loop = q.loop
      BY <1>1, <1>2, <2>1, TurnFields DEF TurnRows
    <2>4. /\ n \in TurnRows /\ n.job = q.job /\ n.left = Tail(q.left) /\ n.backlog = q.backlog
          /\ ~n.recovering /\ n.turn = t /\ n.key = Direct(t) /\ n.step = "prepare"
          /\ n.loop = q.loop
      <3> HIDE DEF t
      <3> QED BY <1>1, <1>2, <2>1, <2>2, TurnFields DEF TurnRows, Steps
    <2>5. /\ UNCHANGED <<drives, hooks>>
          /\ \/ /\ workers' = [workers EXCEPT ![w] = n]
                /\ MarkReceipt(t, "running") /\ Starts(t)
             \/ /\ workers' = [workers EXCEPT ![w] = p]
                /\ receipts[t] # "none" /\ UNCHANGED <<receipts, owed>>
      BY <1>4 DEF ClaimNext, Become, Claimable
    <2> HIDE DEF p, n
    <2>6. SoundTurn(p) /\ SoundTurn(n)
      BY <1>1, <1>2, <2>2, <2>3, <2>4 DEF SoundTurn, Acts
    <2>7. CASE workers' = [workers EXCEPT ![w] = n] /\ MarkReceipt(t, "running") /\ Starts(t)
      <3>1. Moves(w, n)
        BY <2>4, <2>5, <2>6, <2>7 DEF Moves
      <3> HIDE DEF t
      <3>2. /\ n.step = "prepare" /\ n.turn = t /\ n.key = Direct(t)
            /\ MarkReceipt(t, "running") /\ Starts(t)
        BY <2>4, <2>7
      <3> QED BY <1>1, <1>2, <1>4, <2>2, <2>4, <3>1, <3>2 DEF t
    <2>8. CASE workers' = [workers EXCEPT ![w] = p] /\ receipts[t] # "none" /\ UNCHANGED <<receipts, owed>>
      <3>1. Moves(w, p)
        BY <2>3, <2>5, <2>6, <2>8 DEF Moves
      <3> HIDE DEF t
      <3> QED BY <1>1, <1>2, <1>4, <2>2, <2>3, <2>8, <3>1 DEF t
    <2> QED BY <2>5, <2>7, <2>8
  <1> QED BY <1>3, <1>4

LEMMA PrepareIs ==
    ASSUME TurnWorkersSound, NEW w \in TurnWorkers, Prepare(w)
    PROVE  /\ workers[w].step = "prepare" /\ workers[w].turn \in Turns
           /\ \/ /\ \/ Answers(w) /\ ~workers[w].recovering
                    \/ \E p \in TurnRows : Leaves(w, p)
                 /\ MarkReceipt(workers[w].turn, "failed")
              \/ /\ \E p \in TurnRows :
                       /\ Advances(w, p) /\ p.step \in {"confirm", "tell", "ask"}
                       /\ p.step = "confirm" => workers[w].turn[1] \in confirming
                 /\ UNCHANGED receipts
  <1> DEFINE q == workers[w]
             step == IF q.turn[1] \in confirming THEN "confirm"
                     ELSE IF q.managed /\ ~q.recovering THEN "tell" ELSE "ask"
  <1>1. q \in TurnRows /\ SoundTurn(q) /\ q.step = "prepare" /\ q.turn \in Turns
    BY DEF TurnWorkersSound, Prepare, SoundTurn, Acts
  <1>2. CASE EndTurn(w, TRUE)
    BY <1>1, <1>2, EndTurnIs
  <1>3. CASE Go(w, step) /\ UNCHANGED <<drives, hooks, receipts>>
    <2>1. /\ step \in Steps /\ step \in {"confirm", "tell", "ask"}
          /\ step = "confirm" => q.turn[1] \in confirming
      BY DEF Steps
    <2>2. SoundTurn([q EXCEPT !.step = step])
      BY <1>1, TurnFields DEF SoundTurn, Acts
    <2> HIDE DEF step
    <2>3. \E p \in TurnRows : Advances(w, p) /\ p.step = step /\ p.loop = workers[w].loop
      BY <1>1, <1>3, <2>1, <2>2, GoIs
    <2> QED BY <1>1, <1>3, <2>1, <2>3
  <1> QED BY <1>2, <1>3 DEF Prepare, Go

LEMMA FinishIs ==
    ASSUME TurnWorkersSound, NEW w \in TurnWorkers, NEW result \in {"completed", "failed"},
           NEW loop \in Loops,
           Become(w, [workers[w] EXCEPT !.step = "finish", !.result = result, !.loop = loop]),
           workers[w].turn \in Turns, workers[w].key \in LoopIds,
           workers[w].recovering \/ workers[w].job.kind \in {"drive", "hook"},
           UNCHANGED <<drives, hooks>>
    PROVE  \E p \in TurnRows : Advances(w, p) /\ p.step = "finish" /\ p.result = result
  <1> DEFINE p == [workers[w] EXCEPT !.step = "finish", !.result = result, !.loop = loop]
  <1>1. workers[w] \in TurnRows /\ SoundTurn(workers[w])
    BY DEF TurnWorkersSound
  <1>2. /\ p \in TurnRows /\ p.job = workers[w].job /\ p.left = workers[w].left
        /\ p.backlog = workers[w].backlog /\ p.recovering = workers[w].recovering
        /\ p.turn = workers[w].turn /\ p.key = workers[w].key /\ p.step = "finish"
        /\ p.result = result
    BY <1>1, TurnFields DEF TurnRows, Steps
  <1>3. workers' = [workers EXCEPT ![w] = p]
    BY DEF Become
  <1> HIDE DEF p
  <1>5. workers[w].step # "idle"
    BY <1>1 DEF SoundTurn
  <1>4. SoundTurn(p)
    BY <1>1, <1>2, <1>5 DEF SoundTurn, Acts
  <1> QED BY <1>2, <1>3, <1>4 DEF Advances, StaysInTurn, Moves

(* The same with the loop left as it is. *)
LEMMA FinishesSo ==
    ASSUME TurnWorkersSound, NEW w \in TurnWorkers, NEW result \in {"completed", "failed"},
           Become(w, [workers[w] EXCEPT !.step = "finish", !.result = result]),
           workers[w].turn \in Turns, workers[w].key \in LoopIds,
           workers[w].recovering \/ workers[w].job.kind \in {"drive", "hook"},
           UNCHANGED <<drives, hooks>>
    PROVE  \E p \in TurnRows : Advances(w, p) /\ p.step = "finish" /\ p.result = result
  <1> DEFINE q == workers[w]
  <1>1. q \in TurnRows /\ q.loop \in Loops
    BY TurnFields DEF TurnWorkersSound
  <1>2. [q EXCEPT !.step = "finish", !.result = result]
            = [q EXCEPT !.step = "finish", !.result = result, !.loop = q.loop]
    BY <1>1, TurnFields
  <1>3. Become(w, [q EXCEPT !.step = "finish", !.result = result, !.loop = q.loop])
    BY <1>2
  <1> QED BY <1>1, <1>3, FinishIs

(* A run that a turn may go on with is another loop than its direct reply. *)
LEMMA RunsDiffer ==
    ASSUME NEW t \in Turns, turnRuns \in [Turns -> 0..MaxTurnRuns], NEW k \in Continuable(t)
    PROVE  k \in LoopIds /\ ~IsDirect(k) /\ k # Direct(t)
  <1>1. k \in LoopIds /\ k[1] \in Turns /\ turnRuns[t] \in Nat
    BY KeyParts, TurnAssumption DEF Continuable
  <1>2. turnRuns[k[1]] \in Nat
    BY <1>1, TurnAssumption
  <1>3. k[2] # 0
    BY <1>1, <1>2 DEF Continuable
  <1> QED BY <1>1, <1>3, KeyParts DEF IsDirect

LEMMA ConfirmIs ==
    ASSUME TurnWorkersSound, TurnsTypeOK, NEW w \in TurnWorkers, Confirm(w)
    PROVE  /\ workers[w].step = "confirm" /\ workers[w].turn \in Turns
           /\ workers[w].key = Direct(workers[w].turn)
           /\ workers[w].recovering \/ workers[w].job.kind = "drive"
           /\ \/ /\ \/ Answers(w) /\ ~workers[w].recovering
                    \/ \E p \in TurnRows : Leaves(w, p)
                 /\ MarkReceipt(workers[w].turn, "failed") /\ UNCHANGED owed
              \/ /\ \E p \in TurnRows : Advances(w, p) /\ p.step = "tell"
                 /\ UNCHANGED <<receipts, owed>>
              \/ /\ \E k \in LoopIds :
                       /\ ~IsDirect(k) /\ k # Direct(workers[w].turn) /\ HandsOver(workers[w].turn, k)
                       /\ \E p \in TurnRows :
                             StaysInTurn(w, p) /\ p.step \in {"ask", "tell"} /\ p.key = k
                 /\ UNCHANGED receipts
  <1> DEFINE q == workers[w]
  <1>1. /\ q \in TurnRows /\ SoundTurn(q) /\ q.step = "confirm" /\ q.turn \in Turns
        /\ q.key = Direct(q.turn) /\ (q.recovering \/ q.job.kind = "drive")
        /\ turnRuns \in [Turns -> 0..MaxTurnRuns]
    BY DEF TurnWorkersSound, TurnsTypeOK, Confirm, SoundTurn, Acts
  <1>2. CASE EndTurn(w, TRUE) /\ UNCHANGED owed
    BY <1>1, <1>2, EndTurnIs
  <1>3. CASE Go(w, "tell") /\ UNCHANGED <<drives, hooks, receipts, owed>>
    <2>1. SoundTurn([q EXCEPT !.step = "tell"])
      BY <1>1, TurnFields DEF SoundTurn, Acts
    <2>2. "tell" \in Steps
      BY DEF Steps
    <2>3. \E p \in TurnRows : Advances(w, p) /\ p.step = "tell" /\ p.loop = workers[w].loop
      BY <1>1, <1>3, <2>1, <2>2, GoIs
    <2> QED BY <1>1, <1>3, <2>3
  <1>4. ASSUME NEW k \in Continuable(q.turn), NEW step \in {"ask", "tell"},
               Become(w, [q EXCEPT !.step = step, !.key = k]), HandsOver(q.turn, k),
               UNCHANGED <<drives, hooks, receipts>>
        PROVE  \E p \in TurnRows : StaysInTurn(w, p) /\ p.step = step /\ p.key = k
    <2>1. k \in LoopIds
      BY <1>1, <1>4, RunsDiffer
    <2>2. step \in {"prepare", "ask", "tell"} /\ (step = "prepare" => k = Direct(workers[w].turn))
      OBVIOUS
    <2>3. /\ TurnWorkersSound /\ workers[w].turn \in Turns
          /\ TakesUpLoop(w, step, k)
          /\ workers[w].recovering \/ workers[w].job.kind = "drive"
          /\ UNCHANGED <<drives, hooks>>
      BY <1>1, <1>4 DEF TakesUpLoop
    <2> QED BY <2>1, <2>2, <2>3, TurnsTo
  <1>5. \/ EndTurn(w, TRUE) /\ UNCHANGED owed
        \/ Go(w, "tell") /\ UNCHANGED <<drives, hooks, receipts, owed>>
        \/ \E k \in Continuable(q.turn) : \E step \in {"ask", "tell"} :
              /\ Become(w, [q EXCEPT !.step = step, !.key = k]) /\ HandsOver(q.turn, k)
              /\ UNCHANGED <<drives, hooks, receipts>>
    BY DEF Confirm
  <1>6. CASE \E k \in Continuable(q.turn) : \E step \in {"ask", "tell"} :
              /\ Become(w, [q EXCEPT !.step = step, !.key = k]) /\ HandsOver(q.turn, k)
              /\ UNCHANGED <<drives, hooks, receipts>>
    <2>1. PICK k \in Continuable(q.turn), step \in {"ask", "tell"} :
              /\ Become(w, [q EXCEPT !.step = step, !.key = k]) /\ HandsOver(q.turn, k)
              /\ UNCHANGED <<drives, hooks, receipts>>
      BY <1>6
    <2>2. k \in LoopIds /\ ~IsDirect(k) /\ k # Direct(q.turn)
      BY <1>1, RunsDiffer
    <2>3. \E p \in TurnRows : StaysInTurn(w, p) /\ p.step = step /\ p.key = k
      BY <1>4, <2>1
    <2> QED BY <1>1, <2>1, <2>2, <2>3
  <1> QED BY <1>2, <1>3, <1>5, <1>6

LEMMA TellIs ==
    ASSUME TurnWorkersSound, NEW w \in TurnWorkers, TellOutcome(w)
    PROVE  /\ workers[w].step = "tell" /\ workers[w].turn \in Turns
           /\ workers[w].recovering \/ workers[w].job.kind = "drive"
           /\ \/ /\ \E p \in TurnRows : Advances(w, p) /\ p.step = "finish"
                 /\ Replies(workers[w]) /\ UNCHANGED receipts
              \/ /\ (Answers(w) /\ ~workers[w].recovering) \/ \E p \in TurnRows : Leaves(w, p)
                 /\ MarkReceipt(workers[w].turn, "failed") /\ UNCHANGED <<said, owed>>
  <1> DEFINE q == workers[w]
  <1>1. /\ q \in TurnRows /\ SoundTurn(q) /\ q.step = "tell" /\ q.turn \in Turns
        /\ q.key \in LoopIds /\ (q.recovering \/ q.job.kind = "drive")
    BY DEF TurnWorkersSound, TellOutcome, SoundTurn, Acts
  <1>2. CASE EndTurn(w, TRUE) /\ UNCHANGED <<said, owed>>
    <2>1. (Answers(w) /\ ~q.recovering) \/ \E p \in TurnRows : Leaves(w, p)
      BY <1>1, <1>2, EndTurnIs
    <2>2. MarkReceipt(q.turn, "failed")
      BY <1>1, <1>2, EndTurnIs
    <2> QED BY <1>1, <1>2, <2>1, <2>2
  <1>3. CASE /\ Become(w, [q EXCEPT !.step = "finish", !.result = "completed"])
             /\ UNCHANGED <<drives, hooks, receipts>> /\ Replies(q)
    BY <1>1, <1>3, FinishesSo
  <1> QED BY <1>2, <1>3 DEF TellOutcome

LEMMA AsksIs ==
    ASSUME TurnWorkersSound, TurnsTypeOK, NEW w \in TurnWorkers, NEW kind \in {"provider", "runtime"},
           Asks(w, kind), workers[w].step = (IF kind = "provider" THEN "ask" ELSE "tool"),
           UNCHANGED <<drives, hooks>>
    PROVE  \E p \in TurnRows :
              /\ Advances(w, p) /\ p.step = "park" /\ p.loop.op = Len(turnOps) + 1
              /\ p.loop.kind = kind /\ (kind = "runtime" => p.loop.calls > 0)
              /\ Len(turnOps) < MaxTurnOps
              /\ turnOps' = Append(turnOps, [turn |-> p.turn, key |-> p.key, kind |-> kind,
                                             status |-> "running"])
  <1> DEFINE q == workers[w]
             n == Len(turnOps) + 1
             l == [op |-> n, kind |-> kind, calls |-> q.loop.calls]
             p == [q EXCEPT !.step = "park", !.loop = l]
  <1>1. /\ q \in TurnRows /\ SoundTurn(q) /\ q.turn \in Turns /\ q.loop \in Loops
        /\ q.step = IF kind = "provider" THEN "ask" ELSE "tool"
    BY DEF TurnWorkersSound, SoundTurn, Acts, TurnRows
  <1>2. Len(turnOps) \in Nat /\ n \in 1..MaxTurnOps
    <2>1. Len(turnOps) \in Nat
      BY LenProperties DEF TurnsTypeOK
    <2> QED BY <2>1, TurnAssumption DEF Asks
  <1>3. l \in Loops
    <2>1. n \in 0..MaxTurnOps /\ q.loop.calls \in 0..MaxCalls
      BY <1>1, <1>2, LoopFields
    <2> HIDE DEF n, q
    <2> QED BY <2>1 DEF Loops
  <1>4. workers' = [workers EXCEPT ![w] = p]
    BY DEF Asks, Become
  <1>5. /\ p \in TurnRows /\ p.job = q.job /\ p.left = q.left /\ p.backlog = q.backlog
        /\ p.recovering = q.recovering /\ p.turn = q.turn /\ p.key = q.key /\ p.step = "park"
        /\ p.loop = l
    BY <1>1, <1>3, TurnFields DEF TurnRows, Steps
  <1>6. l.op = n /\ n # 0 /\ l.kind = kind /\ (kind = "runtime" => l.calls > 0)
    BY <1>1, <1>2 DEF SoundTurn
  <1>7. /\ Len(turnOps) < MaxTurnOps
        /\ turnOps' = Append(turnOps, [turn |-> q.turn, key |-> q.key, kind |-> kind,
                                       status |-> "running"])
    BY DEF Asks
  <1> HIDE DEF p, l
  <1>8. SoundTurn(p)
    BY <1>1, <1>5, <1>6 DEF SoundTurn, Acts
  <1>9. Advances(w, p)
    BY <1>4, <1>5, <1>8 DEF Advances, StaysInTurn, Moves
  <1> QED BY <1>5, <1>6, <1>7, <1>9

LEMMA AskIs ==
    ASSUME TurnWorkersSound, TurnsTypeOK, NEW w \in TurnWorkers, Ask(w) \/ CallTool(w)
    PROVE  /\ workers[w].step \in {"ask", "tool"} /\ workers[w].turn \in Turns
           /\ \E p \in TurnRows :
              \/ /\ Advances(w, p) /\ p.step \in {"sorry", "tell"} /\ UNCHANGED turnOps
                 /\ p.step = "tell" => workers[w].step = "ask"
              \/ \E kind \in {"provider", "runtime"} :
                 /\ Advances(w, p) /\ p.step = "park" /\ p.loop.op = Len(turnOps) + 1
                 /\ p.loop.kind = kind /\ (kind = "runtime" => p.loop.calls > 0)
                 /\ Len(turnOps) < MaxTurnOps
                 /\ turnOps' = Append(turnOps, [turn |-> p.turn, key |-> p.key, kind |-> kind,
                                             status |-> "running"])
  <1> DEFINE q == workers[w]
  <1>1. /\ q \in TurnRows /\ SoundTurn(q) /\ q.step \in {"ask", "tool"} /\ q.turn \in Turns
        /\ UNCHANGED <<drives, hooks>>
    BY DEF TurnWorkersSound, Ask, CallTool, SoundTurn, Acts
  <1>2. ASSUME NEW step \in {"sorry", "tell"}, Go(w, step), UNCHANGED turnOps,
               step = "tell" => q.step = "ask" /\ ~InHook(q)
        PROVE  \E p \in TurnRows : Advances(w, p) /\ p.step = step
    <2>1. step \in Steps
      BY DEF Steps
    <2>2. SoundTurn([q EXCEPT !.step = step])
      BY <1>1, <1>2, TurnFields DEF SoundTurn, Acts, InHook
    <2> QED BY <1>1, <1>2, <2>1, <2>2, GoIs
  <1>3. ASSUME NEW kind \in {"provider", "runtime"}, Asks(w, kind),
               q.step = (IF kind = "provider" THEN "ask" ELSE "tool")
        PROVE  \E p \in TurnRows :
              /\ Advances(w, p) /\ p.step = "park" /\ p.loop.op = Len(turnOps) + 1
              /\ p.loop.kind = kind /\ (kind = "runtime" => p.loop.calls > 0)
              /\ Len(turnOps) < MaxTurnOps
              /\ turnOps' = Append(turnOps, [turn |-> p.turn, key |-> p.key, kind |-> kind,
                                             status |-> "running"])
    BY <1>1, <1>3, AsksIs
  <1>4. \/ \E step \in {"sorry", "tell"} :
              Go(w, step) /\ UNCHANGED turnOps /\ (step = "tell" => q.step = "ask" /\ ~InHook(q))
        \/ \E kind \in {"provider", "runtime"} :
              Asks(w, kind) /\ q.step = (IF kind = "provider" THEN "ask" ELSE "tool")
    BY DEF Ask, CallTool
  <1> QED BY <1>1, <1>2, <1>3, <1>4

LEMMA ParkIs ==
    ASSUME TurnWorkersSound, NEW w \in TurnWorkers, Park(w)
    PROVE  /\ workers[w].step = "park" /\ workers[w].turn \in Turns /\ workers[w].key \in LoopIds
           /\ workers[w].loop \in Loops
           /\ SaveRow(workers[w], workers[w].loop) /\ UNCHANGED receipts
           /\ \/ Respond(w, "ok") /\ InHook(workers[w])
              \/ \E p \in TurnRows : Leaves(w, p)
              \/ /\ ~InHook(workers[w]) /\ ~IsDirect(workers[w].key)
                 /\ \E p \in TurnRows : Advances(w, p) /\ p.step = "finish"
  <1> DEFINE q == workers[w]
  <1>1. /\ q \in TurnRows /\ SoundTurn(q) /\ q.step = "park" /\ q.turn \in Turns
        /\ q.key \in LoopIds /\ q.loop \in Loops /\ SaveRow(q, q.loop)
    BY DEF TurnWorkersSound, Park, SoundTurn, Acts, TurnRows
  <1>2. CASE InHook(q)
    BY <1>1, <1>2 DEF Park
  <1>3. CASE ~InHook(q) /\ IsDirect(q.key)
    <2>1. EndTurn(w, FALSE) /\ (q.recovering \/ q.job.kind = "drive")
      BY <1>1, <1>3 DEF Park, SoundTurn, InHook
    <2>2. /\ \E p \in TurnRows : Leaves(w, p)
          /\ UNCHANGED receipts
      BY <1>1, <2>1, EndTurnIs
    <2> QED BY <1>1, <2>2
  <1>4. CASE ~InHook(q) /\ ~IsDirect(q.key)
    <2>1. Fresh \in Loops
      BY TurnAssumption DEF Fresh, Loops
    <2>2. /\ Become(w, [q EXCEPT !.step = "finish", !.result = "completed", !.loop = Fresh])
          /\ UNCHANGED <<drives, hooks, receipts>> /\ (q.recovering \/ q.job.kind = "drive")
      BY <1>1, <1>4 DEF Park, SoundTurn, InHook
    <2>3. \E p \in TurnRows : Advances(w, p) /\ p.step = "finish"
      BY <1>1, <2>1, <2>2, FinishIs
    <2> QED BY <1>1, <1>4, <2>2, <2>3
  <1> QED BY <1>2, <1>3, <1>4

LEMMA FreshLoops ==
    ASSUME NEW n \in 0..MaxCalls
    PROVE  /\ [Fresh EXCEPT !.calls = n] \in Loops /\ [Fresh EXCEPT !.calls = n].op = 0
           /\ [Fresh EXCEPT !.calls = n].calls = n
  BY TurnAssumption DEF Fresh, Loops

(* The worker stays with a loop that it also saves. *)
Takes(w, step, loop) ==
    workers' = [workers EXCEPT ![w] = [workers[w] EXCEPT !.step = step, !.loop = loop]]

LEMMA TakesLoop ==
    ASSUME TurnWorkersSound, NEW w \in TurnWorkers, NEW loop \in Loops, NEW step \in {"tool", "ask"},
           Takes(w, step, loop), workers[w].step = "resume", step = "tool" => loop.calls > 0,
           UNCHANGED <<drives, hooks>>
    PROVE  \E p \in TurnRows : Advances(w, p) /\ p.step = step /\ p.loop = loop
  <1> DEFINE q == workers[w]
             p == [q EXCEPT !.step = step, !.loop = loop]
  <1>1. /\ q \in TurnRows /\ SoundTurn(q) /\ q.step = "resume" /\ q.turn \in Turns
        /\ q.job.kind = "hook" /\ ~q.recovering
    BY DEF TurnWorkersSound, SoundTurn, Acts
  <1>2. /\ p \in TurnRows /\ p.job = q.job /\ p.left = q.left /\ p.backlog = q.backlog
        /\ p.recovering = q.recovering /\ p.turn = q.turn /\ p.key = q.key /\ p.step = step
        /\ p.loop = loop
    BY <1>1, TurnFields DEF TurnRows, Steps
  <1> HIDE DEF p
  <1>3. SoundTurn(p)
    BY <1>1, <1>2 DEF SoundTurn, Acts
  <1> QED BY <1>2, <1>3 DEF Advances, StaysInTurn, Moves, Takes, p

LEMMA ApplyResponseIs ==
    ASSUME TurnWorkersSound, NEW w \in TurnWorkers, ApplyResponse(w)
    PROVE  /\ workers[w].step = "resume" /\ workers[w].turn \in Turns /\ workers[w].key \in LoopIds
           /\ workers[w].job.kind = "hook" /\ ~workers[w].recovering
           /\ \E p \in TurnRows :
              /\ Advances(w, p)
              /\ \/ p.step = "sorry" /\ UNCHANGED <<rows, rowTurn, said>>
                 \/ p.step \in {"reply", "sorry"} /\ DeleteRow(workers[w].key) /\ UNCHANGED said
                 \/ /\ p.step = "tool" /\ p.loop \in Loops /\ p.loop.op = 0
                    /\ SaveRow(workers[w], p.loop)
                    /\ TellsProgress(workers[w].turn[2]) \/ UNCHANGED said
  <1> DEFINE q == workers[w]
  <1>1. /\ q \in TurnRows /\ SoundTurn(q) /\ q.step = "resume" /\ q.turn \in Turns /\ q.key \in LoopIds
        /\ q.job.kind = "hook" /\ ~q.recovering /\ UNCHANGED <<drives, hooks>>
    BY DEF TurnWorkersSound, SoundTurn, Acts, ApplyResponse
  <1>2. ASSUME NEW step \in {"reply", "sorry"}, Go(w, step)
        PROVE  \E p \in TurnRows : Advances(w, p) /\ p.step = step
    <2>1. step \in Steps
      BY DEF Steps
    <2>2. SoundTurn([q EXCEPT !.step = step])
      BY <1>1, TurnFields DEF SoundTurn, Acts
    <2> QED BY <1>1, <1>2, <2>1, <2>2, GoIs
  <1>3. CASE Go(w, "sorry") /\ UNCHANGED <<rows, rowTurn, said>>
    BY <1>1, <1>2, <1>3
  <1>4. CASE DeleteRow(q.key) /\ (\E step \in {"reply", "sorry"} : Go(w, step)) /\ UNCHANGED said
    BY <1>1, <1>2, <1>4
  <1>5. ASSUME NEW l \in Loops, l.calls > 0, Takes(w, "tool", l)
        PROVE  \E p \in TurnRows : Advances(w, p) /\ p.step = "tool" /\ p.loop = l
    BY <1>1, <1>5, TakesLoop
  <1>6. CASE \E n \in 1..MaxCalls :
                  LET loop == [Fresh EXCEPT !.calls = n] IN
                  /\ SaveRow(q, loop)
                  /\ Become(w, [q EXCEPT !.step = "tool", !.loop = loop])
                  /\ TellsProgress(q.turn[2]) \/ UNCHANGED said
    <2>1. PICK n \in 1..MaxCalls :
                  LET loop == [Fresh EXCEPT !.calls = n] IN
                  /\ SaveRow(q, loop)
                  /\ Become(w, [q EXCEPT !.step = "tool", !.loop = loop])
                  /\ TellsProgress(q.turn[2]) \/ UNCHANGED said
      BY <1>6
    <2>2. PICK l \in Loops : l = [Fresh EXCEPT !.calls = n] /\ l.op = 0 /\ l.calls > 0
      <3>1. n \in 0..MaxCalls /\ n > 0
        BY TurnAssumption
      <3> QED BY <3>1, FreshLoops
    <2>3. SaveRow(q, l) /\ Takes(w, "tool", l) /\ (TellsProgress(q.turn[2]) \/ UNCHANGED said)
      BY <2>1, <2>2 DEF Become, Takes
    <2>4. \E p \in TurnRows : Advances(w, p) /\ p.step = "tool" /\ p.loop = l
      BY <1>5, <2>2, <2>3
    <2> QED BY <1>1, <2>2, <2>3, <2>4
  <1> QED BY <1>3, <1>4, <1>6 DEF ApplyResponse

LEMMA ApplyToolIs ==
    ASSUME TurnWorkersSound, NEW w \in TurnWorkers, ApplyTool(w)
    PROVE  /\ workers[w].step = "resume" /\ workers[w].turn \in Turns /\ workers[w].key \in LoopIds
           /\ workers[w].job.kind = "hook" /\ ~workers[w].recovering
           /\ \E p \in TurnRows :
              /\ Advances(w, p) /\ p.step \in {"tool", "ask"} /\ p.loop \in Loops /\ p.loop.op = 0
              /\ SaveRow(workers[w], p.loop)
  <1> DEFINE q == workers[w]
             n == q.loop.calls - 1
             loop == [Fresh EXCEPT !.calls = n]
             step == IF loop.calls > 0 THEN "tool" ELSE "ask"
  <1>1. /\ q \in TurnRows /\ SoundTurn(q) /\ q.step = "resume" /\ q.turn \in Turns /\ q.key \in LoopIds /\ q.loop \in Loops
        /\ q.job.kind = "hook" /\ ~q.recovering /\ UNCHANGED <<drives, hooks>> /\ q.loop.kind = "runtime"
    BY DEF TurnWorkersSound, SoundTurn, Acts, ApplyTool, TurnRows
  <1>2. n \in 0..MaxCalls
    <2>1. q.loop.calls \in 0..MaxCalls /\ q.loop.calls > 0
      BY <1>1, LoopFields DEF SoundTurn
    <2> QED BY <2>1, TurnAssumption
  <1>3. loop \in Loops /\ loop.op = 0
    BY <1>2, FreshLoops
  <1>4. /\ SaveRow(q, loop)
        /\ workers' = [workers EXCEPT ![w] = [q EXCEPT !.step = step, !.loop = loop]]
    <2>1. Become(w, [q EXCEPT !.loop = loop, !.step = step]) /\ SaveRow(q, loop)
      BY DEF ApplyTool
    <2>2. [q EXCEPT !.loop = loop, !.step = step] = [q EXCEPT !.step = step, !.loop = loop]
      <3> HIDE DEF loop, step
      <3> QED BY <1>1, TurnFields
    <2> QED BY <2>1, <2>2 DEF Become
  <1>5. step \in {"tool", "ask"} /\ (step = "tool" => loop.calls > 0)
    OBVIOUS
  <1> HIDE DEF loop, step
  <1>6. \E p \in TurnRows : Advances(w, p) /\ p.step = step /\ p.loop = loop
    <2>1. Takes(w, step, loop)
      BY <1>4 DEF Takes
    <2> QED BY <1>1, <1>3, <1>5, <2>1, TakesLoop
  <1> QED BY <1>1, <1>3, <1>4, <1>5, <1>6

LEMMA ReplyIs ==
    ASSUME TurnWorkersSound, NEW w \in TurnWorkers, Reply(w)
    PROVE  /\ workers[w].step = "reply" /\ workers[w].turn \in Turns
           /\ workers[w].job.kind = "hook" /\ ~workers[w].recovering
           /\ \/ /\ Replies(workers[w])
                 /\ \/ Respond(w, "fail")
                    \/ \E p \in TurnRows : Advances(w, p) /\ p.step = "finish"
              \/ Respond(w, "fail") /\ UNCHANGED <<said, owed>>
  <1> DEFINE q == workers[w]
  <1>1. /\ q \in TurnRows /\ SoundTurn(q) /\ q.step = "reply" /\ q.turn \in Turns
        /\ q.key \in LoopIds /\ q.job.kind = "hook" /\ ~q.recovering
    BY DEF TurnWorkersSound, SoundTurn, Acts, Reply
  <1>2. CASE /\ Replies(q)
             /\ Become(w, [q EXCEPT !.step = "finish", !.result = "completed"])
             /\ UNCHANGED <<drives, hooks>>
    BY <1>1, <1>2, FinishesSo
  <1>3. CASE Respond(w, "fail") /\ (Replies(q) \/ UNCHANGED <<said, owed>>)
    BY <1>1, <1>3
  <1> QED BY <1>2, <1>3 DEF Reply

LEMMA SorryIs ==
    ASSUME TurnWorkersSound, NEW w \in TurnWorkers, Sorry(w)
    PROVE  /\ workers[w].step = "sorry" /\ workers[w].turn \in Turns
           /\ \/ /\ InHook(workers[w])
                 /\ UNCHANGED <<rows, rowTurn, receipts>>
                 /\ \/ /\ Replies(workers[w])
                       /\ \E p \in TurnRows :
                             Advances(w, p) /\ p.step = "finish" /\ p.result = "failed"
                    \/ Respond(w, "fail") /\ UNCHANGED <<said, owed>>
              \/ /\ workers[w].recovering \/ workers[w].job.kind = "drive"
                 /\ DeleteRow(workers[w].key)
                 /\ Answers(w) \/ \E p \in TurnRows : Leaves(w, p)
                 /\ \/ Replies(workers[w]) /\ UNCHANGED receipts
                    \/ MarkReceipt(workers[w].turn, "failed") /\ UNCHANGED <<said, owed>>
  <1> DEFINE q == workers[w]
  <1>1. /\ q \in TurnRows /\ SoundTurn(q) /\ q.step = "sorry" /\ q.turn \in Turns
        /\ q.key \in LoopIds
    BY DEF TurnWorkersSound, SoundTurn, Acts, Sorry
  <1>2. CASE InHook(q)
    <2>1. CASE Respond(w, "fail") /\ UNCHANGED <<said, owed>>
      BY <1>1, <1>2, <2>1 DEF Sorry
    <2>2. CASE /\ Replies(q)
               /\ Become(w, [q EXCEPT !.step = "finish", !.result = "failed"])
               /\ UNCHANGED <<drives, hooks>>
      <3>1. \E p \in TurnRows : Advances(w, p) /\ p.step = "finish" /\ p.result = "failed"
        BY <1>1, <1>2, <2>2, FinishesSo DEF InHook
      <3> QED BY <1>1, <1>2, <2>2, <3>1 DEF Sorry
    <2> QED BY <1>2, <2>1, <2>2 DEF Sorry
  <1>3. CASE ~InHook(q)
    <2>1. q.recovering \/ q.job.kind = "drive"
      BY <1>1, <1>3 DEF SoundTurn, InHook
    <2>2. DeleteRow(q.key)
      BY <1>3 DEF Sorry
    <2>3. CASE Replies(q) /\ EndTurn(w, FALSE)
      <3>1. /\ \E p \in TurnRows : Leaves(w, p)
            /\ UNCHANGED receipts
        BY <1>1, <2>1, <2>3, EndTurnIs
      <3> QED BY <1>1, <2>1, <2>2, <2>3, <3>1
    <2>4. CASE EndTurn(w, TRUE) /\ UNCHANGED <<said, owed>>
      <3>1. Answers(w) \/ \E p \in TurnRows : Leaves(w, p)
        BY <1>1, <2>1, <2>4, EndTurnIs
      <3>2. MarkReceipt(q.turn, "failed")
        BY <1>1, <2>1, <2>4, EndTurnIs
      <3> QED BY <1>1, <2>1, <2>2, <2>4, <3>1, <3>2
    <2> QED BY <1>3, <2>3, <2>4 DEF Sorry
  <1> QED BY <1>2, <1>3

LEMMA MarkIs ==
    ASSUME TurnWorkersSound, NEW w \in TurnWorkers, MarkResult(w)
    PROVE  /\ workers[w].step = "finish" /\ workers[w].turn \in Turns
           /\ workers[w].result \in {"completed", "failed"}
           /\ MarkReceipt(workers[w].turn, workers[w].result)
           /\ \/ InHook(workers[w]) /\ Respond(w, "ok")
              \/ \E p \in TurnRows : Leaves(w, p)
  <1> DEFINE q == workers[w]
             step == IF q.recovering THEN "recover" ELSE "claim"
             p == [q EXCEPT !.step = step, !.turn = NoTurn, !.key = NoTurn, !.recovering = FALSE]
  <1>1. /\ q \in TurnRows /\ SoundTurn(q) /\ q.step = "finish" /\ q.turn \in Turns
        /\ (q.recovering \/ q.job.kind \in {"drive", "hook"}) /\ MarkReceipt(q.turn, q.result)
    BY DEF TurnWorkersSound, SoundTurn, MarkResult
  <1>2. CASE InHook(q)
    BY <1>1, <1>2, TurnFields DEF MarkResult
  <1>3. CASE ~InHook(q)
    <2>0. step \in {"recover", "claim"} /\ (step = "claim" => q.job.kind = "drive")
      BY <1>1, <1>3 DEF InHook
    <2>1. /\ p \in TurnRows /\ p.job = q.job /\ p.left = q.left /\ p.backlog = q.backlog
          /\ ~p.recovering /\ p.turn = NoTurn /\ p.key = NoTurn /\ p.step = step /\ p.loop = q.loop
      <3> HIDE DEF step
      <3> QED BY <1>1, <2>0, TurnFields DEF TurnRows, Steps
    <2>2. workers' = [workers EXCEPT ![w] = p] /\ UNCHANGED <<drives, hooks>>
      BY <1>3 DEF MarkResult, Become
    <2> HIDE DEF p
    <2>5. p.step = IF q.recovering THEN "recover" ELSE "claim"
      BY <2>1
    <2> HIDE DEF step
    <2>3. SoundTurn(p)
      BY <1>1, <2>0, <2>1 DEF SoundTurn, Acts
    <2>4. Leaves(w, p)
      BY <1>1, <2>1, <2>2, <2>3, <2>5 DEF Leaves, Moves
    <2> QED BY <1>1, <2>1, <2>4, TurnFields
  <1> QED BY <1>1, <1>2, <1>3

LEMMA HeldHook ==
    ASSUME HooksAreTaken, TurnWorkersSound, NEW w \in TurnWorkers, workers[w].job.kind = "hook"
    PROVE  /\ workers[w].job.op \in TurnOps /\ workers[w].job.op \in DOMAIN turnOps
           /\ hooks[workers[w].job.op].state = "taken"
           /\ turnOps[workers[w].job.op].status # "running"
  BY DEF HooksAreTaken, TurnWorkersSound, SoundTurn

LEMMA WorkerStepShape ==
    ASSUME TurnInv, NEW w \in TurnWorkers, WorkerStep(w)
    PROVE  Answers(w) \/ \E p \in TurnRows : Moves(w, p)
  <1>1. TurnWorkersSound /\ TurnsTypeOK /\ ParkedAreOwn
    BY DEF TurnInv
  <1>2. CASE Recover(w) \/ Remark(w)
    BY <1>1, <1>2, RecoverIs, RemarkIs DEF StaysInTurn
  <1>3. CASE ServeDrive(w)
    BY <1>1, <1>3, ServeDriveIs, TurnAssumption
  <1>4. CASE ServeHook(w)
    <2>1. workers[w].job.op \in DOMAIN turnOps
      BY <1>4, HeldHook DEF TurnInv, ServeHook
    <2> QED BY <1>1, <1>4, <2>1, ServeHookIs
  <1>5. CASE ServeOther(w)
    BY <1>5 DEF ServeOther, Answers
  <1>6. CASE ClaimNext(w)
    BY <1>1, <1>6, ClaimIs
  <1>7. CASE Prepare(w) \/ Confirm(w) \/ TellOutcome(w)
    BY <1>1, <1>7, PrepareIs, ConfirmIs, TellIs DEF Advances, StaysInTurn, Leaves
  <1>8. CASE Ask(w) \/ CallTool(w)
    BY <1>1, <1>8, AskIs DEF Advances, StaysInTurn
  <1>9. CASE Park(w)
    BY <1>1, <1>9, ParkIs DEF Advances, StaysInTurn, Leaves, Answers
  <1>10. CASE ApplyResponse(w) \/ ApplyTool(w)
    BY <1>1, <1>10, ApplyResponseIs, ApplyToolIs DEF Advances, StaysInTurn
  <1>11. CASE Reply(w)
    BY <1>1, <1>11, ReplyIs DEF Advances, StaysInTurn, Answers
  <1>12. CASE Sorry(w)
    BY <1>1, <1>12, SorryIs DEF Advances, StaysInTurn, Leaves, Answers
  <1>13. CASE MarkResult(w)
    BY <1>1, <1>13, MarkIs DEF Leaves, Answers
  <1> QED BY <1>2, <1>3, <1>4, <1>5, <1>6, <1>7, <1>8, <1>9, <1>10, <1>11, <1>12, <1>13 DEF WorkerStep

(* A worker is called: it recovers first if it has just started. *)
Calls(w, p) ==
    /\ workers' = [workers EXCEPT ![w] = p] /\ p \in TurnRows /\ SoundTurn(p)
    /\ workers[w].step = "idle" /\ p.step \in {"serve", "recover"} /\ ~p.recovering
    /\ p.turn = NoTurn /\ p.key = NoTurn /\ p.backlog \subseteq {t \in Turns : receipts[t] = "running"}

LEMMA CalledIs ==
    ASSUME NEW w \in TurnWorkers, NEW job \in Jobs, Called(w, job), workers[w].step = "idle",
           job.kind # "none", job.kind = "drive" => job.message \in Messages,
           job.kind = "hook" => job.op \in TurnOps
    PROVE  \E p \in TurnRows : Calls(w, p) /\ p.job = job
  <1> DEFINE running == {t \in Turns : receipts[t] = "running"}
             step == IF w \in booted THEN "serve" ELSE "recover"
             backlog == IF w \in booted THEN {} ELSE running
             p == [IdleProcess EXCEPT !.job = job, !.step = step, !.backlog = backlog]
  <1>1. workers' = [workers EXCEPT ![w] = p]
    BY DEF Called, Become
  <1>2. step \in {"serve", "recover"} /\ backlog \subseteq running /\ running \subseteq Turns
    OBVIOUS
  <1> HIDE DEF step, backlog, running
  <1>3. /\ p \in TurnRows /\ p.job = job /\ p.step = step /\ p.backlog = backlog
        /\ ~p.recovering /\ p.turn = NoTurn /\ p.key = NoTurn
    BY <1>2, IdleIsSound DEF TurnRows, IdleProcess, Steps
  <1> HIDE DEF p
  <1>4. SoundTurn(p)
    BY <1>2, <1>3 DEF SoundTurn, Acts
  <1> QED BY <1>1, <1>2, <1>3, <1>4 DEF Calls, running

LEMMA DriveCallIs ==
    ASSUME TurnsTypeOK, NEW w \in TurnWorkers, NEW m \in Messages, DriveCall(w, m)
    PROVE  /\ \E p \in TurnRows : Calls(w, p) /\ p.job.kind = "drive" /\ p.job.message = m
           /\ drives' = [drives EXCEPT ![m] = "called"] /\ Sent(m)
  <1> DEFINE job == [kind |-> "drive", message |-> m, handler |-> drives[m], op |-> 0]
  <1>1. job \in Jobs /\ job.kind = "drive" /\ job.message = m
    BY TurnAssumption DEF Jobs, DriveCall
  <1>2. Called(w, job) /\ workers[w].step = "idle" /\ Sent(m)
    BY DEF DriveCall, Sent
  <1> HIDE DEF job
  <1>3. \E p \in TurnRows : Calls(w, p) /\ p.job = job
    BY <1>1, <1>2, CalledIs
  <1> QED BY <1>1, <1>2, <1>3 DEF DriveCall

LEMMA HookCallIs ==
    ASSUME TurnsTypeOK, NEW w \in TurnWorkers, NEW o \in TurnOps, HookCall(w, o)
    PROVE  /\ \E p \in TurnRows : Calls(w, p) /\ p.job.kind = "hook" /\ p.job.op = o
           /\ hooks[o].state = "due" /\ hooks' = [hooks EXCEPT ![o].state = "taken"]
  <1> DEFINE job == [NoJob EXCEPT !.kind = "hook", !.op = o]
  <1>1. job \in Jobs /\ job.kind = "hook" /\ job.op = o
    <2>1. o \in 0..MaxTurnOps
      BY TurnAssumption DEF TurnOps
    <2> QED BY <2>1, IdleIsSound, JobOfHook
  <1>2. Called(w, job) /\ workers[w].step = "idle"
    BY DEF HookCall
  <1> HIDE DEF job
  <1>3. \E p \in TurnRows : Calls(w, p) /\ p.job = job
    BY <1>1, <1>2, CalledIs
  <1> QED BY <1>1, <1>3 DEF HookCall

LEMMA OtherCallIs ==
    ASSUME NEW w \in TurnWorkers, OtherCall(w)
    PROVE  \E p \in TurnRows : Calls(w, p) /\ p.job.kind = "other"
  <1> DEFINE job == [NoJob EXCEPT !.kind = "other"]
  <1>1. job \in Jobs /\ job.kind = "other"
    BY TurnAssumption DEF NoJob, Jobs
  <1>2. Called(w, job) /\ workers[w].step = "idle"
    BY DEF OtherCall
  <1> HIDE DEF job
  <1>3. \E p \in TurnRows : Calls(w, p) /\ p.job = job
    BY <1>1, <1>2, CalledIs
  <1> QED BY <1>1, <1>3

LEMMA WorkersStaySound ==
    ASSUME TurnInv, [TurnsNext]_turnVars
    PROVE  TurnWorkersSound'
  <1>1. TurnWorkersSound /\ TurnsTypeOK
    BY DEF TurnInv
  <1>2. ASSUME NEW w \in TurnWorkers, NEW p \in TurnRows, SoundTurn(p),
               workers' = [workers EXCEPT ![w] = p]
        PROVE  TurnWorkersSound'
    BY <1>1, <1>2 DEF TurnWorkersSound
  <1>3. ASSUME NEW w \in TurnWorkers, Answers(w) PROVE TurnWorkersSound'
    BY <1>1, <1>2, <1>3, AnswersIs, IdleIsSound
  <1>4. ASSUME NEW w \in TurnWorkers, WorkerStep(w) PROVE TurnWorkersSound'
    BY <1>2, <1>3, <1>4, WorkerStepShape DEF Moves
  <1>5. ASSUME NEW w \in TurnWorkers,
               (\E m \in Messages : DriveCall(w, m)) \/ (\E o \in TurnOps : HookCall(w, o)) \/ OtherCall(w)
        PROVE  TurnWorkersSound'
    BY <1>1, <1>2, <1>5, DriveCallIs, HookCallIs, OtherCallIs DEF Calls
  <1>6. ASSUME NEW w \in TurnWorkers, WorkerDies(w) PROVE TurnWorkersSound'
    BY <1>3, <1>6 DEF WorkerDies, Answers
  <1>7. CASE ServerRestarts
    BY <1>7, IdleIsSound DEF ServerRestarts, TurnWorkersSound
  <1>8. CASE UNCHANGED workers
    BY <1>1, <1>8 DEF TurnWorkersSound
  <1> QED BY <1>4, <1>5, <1>6, <1>7, <1>8 DEF TurnsNext, turnVars, Send, OperationEnds

-----------------------------------------------------------------------------
(* The turns of a conversation: the tables.                                  *)

LEMMA SaysIs ==
    ASSUME TurnsTypeOK, NEW a \in TurnAgents, Says(a)
    PROVE  /\ said \subseteq said' /\ said' \subseteq Turns
           /\ \A t \in Turns : t[2] = a /\ Sent(t[1]) => t \in said'
  <1>1. said' = said \cup {<<m, a>> : m \in {n \in Messages : drives[n] # "unsent"}} /\ said \subseteq Turns
    BY DEF Says, TurnsTypeOK
  <1>2. ASSUME NEW t \in Turns, t[2] = a, Sent(t[1]) PROVE t \in said'
    <2>1. t = <<t[1], t[2]>> /\ t[1] \in Messages
      BY DEF Turns
    <2> QED BY <1>1, <1>2, <2>1 DEF Sent
  <1>3. said' \subseteq Turns
    BY <1>1 DEF Turns
  <1> QED BY <1>1, <1>2, <1>3

(* What a step may make of a receipt and of what was said. *)
Marks(t, status) ==
    /\ MarkReceipt(t, status) /\ Sent(t[1])
    /\ status = "completed" => WasAnswered(t)
ReceiptsMove ==
    UNCHANGED receipts \/ \E t \in Turns : \E status \in {"running", "completed", "failed"} : Marks(t, status)
SaidMoves == UNCHANGED said \/ \E a \in TurnAgents : Says(a)

LEMMA ReceiptsDoMove ==
    ASSUME TurnInv, NEW w \in TurnWorkers, WorkerStep(w)
    PROVE  ReceiptsMove
  <1>1. /\ TurnWorkersSound /\ TurnsTypeOK /\ TurnsWereSent /\ CompletedWereSaid
    BY DEF TurnInv
  <1>2. workers[w] \in TurnRows /\ (workers[w].turn # NoTurn => Sent(workers[w].turn[1]))
    BY <1>1 DEF TurnWorkersSound, TurnsWereSent
  <1>3. ASSUME workers[w].turn \in Turns PROVE Sent(workers[w].turn[1])
    BY <1>2, <1>3 DEF Turns, NoTurn
  <1>4. CASE Recover(w)
    <2>1. UNCHANGED receipts \/ RecoverMarks(w)
      BY <1>1, <1>4, RecoverIs
    <2>2. \A t \in workers[w].backlog : t \in Turns /\ Sent(t[1])
      BY <1>1, <1>2 DEF TurnsWereSent, TurnRows
    <2> QED BY <2>1, <2>2 DEF ReceiptsMove, Marks, RecoverMarks, WasAnswered
  <1>5. CASE Remark(w)
    BY <1>1, <1>3, <1>5, RemarkIs DEF Remark, ReceiptsMove, Marks
  <1>6. CASE ClaimNext(w)
    <2>1. UNCHANGED receipts \/ \E t \in Turns : MarkReceipt(t, "running") /\ t[1] = workers[w].job.message
      BY <1>1, <1>6, ClaimIs
    <2>2. Sent(workers[w].job.message)
      BY <1>1, <1>6, ClaimIs DEF TurnsWereSent
    <2> QED BY <2>1, <2>2 DEF ReceiptsMove, Marks
  <1>7. CASE Prepare(w) \/ Confirm(w) \/ TellOutcome(w)
    <2>1. workers[w].turn \in Turns /\ (UNCHANGED receipts \/ MarkReceipt(workers[w].turn, "failed"))
      BY <1>1, <1>7, PrepareIs, ConfirmIs, TellIs
    <2> QED BY <1>3, <2>1 DEF ReceiptsMove, Marks
  <1>8. CASE Sorry(w)
    <2>1. workers[w].turn \in Turns /\ (UNCHANGED receipts \/ MarkReceipt(workers[w].turn, "failed"))
      BY <1>1, <1>8, SorryIs
    <2> QED BY <1>3, <2>1 DEF ReceiptsMove, Marks
  <1>9. CASE MarkResult(w)
    <2>1. /\ workers[w].turn \in Turns /\ MarkReceipt(workers[w].turn, workers[w].result)
          /\ workers[w].step = "finish" /\ workers[w].result \in {"completed", "failed"}
      BY <1>1, <1>9, MarkIs
    <2>2. workers[w].result = "completed" => WasAnswered(workers[w].turn)
      BY <1>1, <2>1 DEF CompletedWereSaid
    <2> QED BY <1>3, <2>1, <2>2 DEF ReceiptsMove, Marks
  <1>10. CASE Park(w)
    BY <1>1, <1>10, ParkIs DEF ReceiptsMove
  <1>11. CASE ServeDrive(w) \/ ServeHook(w) \/ ServeOther(w) \/ Ask(w) \/ CallTool(w)
              \/ ApplyResponse(w) \/ ApplyTool(w) \/ Reply(w)
    BY <1>11 DEF ServeDrive, ServeHook, ServeOther, Ask, CallTool, ApplyResponse, ApplyTool, Reply,
                 ReceiptsMove
  <1> QED BY <1>4, <1>5, <1>6, <1>7, <1>8, <1>9, <1>10, <1>11 DEF WorkerStep

LEMMA SaidDoesMove ==
    ASSUME TurnInv, NEW w \in TurnWorkers, WorkerStep(w)
    PROVE  SaidMoves
  <1>1. TurnWorkersSound
    BY DEF TurnInv
  <1>2. CASE TellOutcome(w) \/ Reply(w) \/ Sorry(w)
    <2>1. workers[w].turn \in Turns /\ (UNCHANGED said \/ Replies(workers[w]))
      BY <1>1, <1>2, TellIs, ReplyIs, SorryIs
    <2> QED BY <2>1, TurnParts DEF Replies, SaidMoves
  <1>3. CASE ApplyResponse(w)
    <2>1. workers[w].turn \in Turns /\ (UNCHANGED said \/ Says(workers[w].turn[2]))
      BY <1>1, <1>3, ApplyResponseIs DEF TellsProgress
    <2> QED BY <2>1, TurnParts DEF SaidMoves
  <1> QED BY <1>2, <1>3 DEF WorkerStep, Recover, Remark, ServeDrive, ServeHook, ServeOther, ClaimNext,
        Prepare, Confirm, Ask, CallTool, Park, ApplyTool, MarkResult, SaidMoves

(* Rows are written for the loop of the worker, and starts are counted. *)
TurnRowsMove(w) ==
    \/ UNCHANGED <<rows, rowTurn>>
    \/ /\ workers[w].turn \in Turns /\ workers[w].key \in LoopIds
       /\ \E l \in Loops \cup {NoRow} :
             /\ rows' = [rows EXCEPT ![workers[w].key] = l]
             /\ \/ rowTurn' = [rowTurn EXCEPT ![workers[w].key] = workers[w].turn]
                \/ l = NoRow /\ UNCHANGED rowTurn
             /\ l.op # 0 => workers[w].step = "park" /\ l = workers[w].loop

LEMMA RowsDoMove ==
    ASSUME TurnInv, NEW w \in TurnWorkers, WorkerStep(w)
    PROVE  TurnRowsMove(w)
  <1>1. TurnWorkersSound
    BY DEF TurnInv
  <1>2. NoRow.op = 0
    BY DEF NoRow
  <1>3. CASE Park(w)
    BY <1>1, <1>3, ParkIs DEF SaveRow, TurnRowsMove
  <1>4. CASE ApplyResponse(w)
    <2>1. /\ workers[w].turn \in Turns /\ workers[w].key \in LoopIds
          /\ \/ UNCHANGED <<rows, rowTurn>> \/ DeleteRow(workers[w].key)
             \/ \E l \in Loops : l.op = 0 /\ SaveRow(workers[w], l)
      BY <1>1, <1>4, ApplyResponseIs
    <2> QED BY <1>2, <2>1 DEF DeleteRow, SaveRow, TurnRowsMove
  <1>9. CASE ApplyTool(w)
    <2>1. /\ workers[w].turn \in Turns /\ workers[w].key \in LoopIds
          /\ \E l \in Loops : l.op = 0 /\ SaveRow(workers[w], l)
      BY <1>1, <1>9, ApplyToolIs
    <2> QED BY <2>1 DEF SaveRow, TurnRowsMove
  <1>5. CASE Sorry(w)
    <2>1. workers[w].turn \in Turns /\ workers[w].key \in LoopIds
      BY <1>1, <1>5 DEF TurnWorkersSound, SoundTurn, Acts, Sorry
    <2>2. UNCHANGED <<rows, rowTurn>> \/ DeleteRow(workers[w].key)
      BY <1>5 DEF Sorry
    <2> QED BY <1>2, <2>1, <2>2 DEF DeleteRow, TurnRowsMove
  <1>6. CASE Recover(w) \/ Remark(w) \/ ServeDrive(w) \/ ServeHook(w) \/ ServeOther(w) \/ ClaimNext(w)
    <2>1. UNCHANGED <<rows, rowTurn>>
      BY <1>6 DEF runTables, Recover, Remark, ServeDrive, ServeHook, ServeOther, ClaimNext
    <2> QED BY <2>1 DEF TurnRowsMove
  <1>7. CASE Prepare(w) \/ Confirm(w) \/ TellOutcome(w) \/ Ask(w) \/ CallTool(w) \/ Reply(w) \/ MarkResult(w)
    <2>1. UNCHANGED <<rows, rowTurn>>
      BY <1>7 DEF runTables, Prepare, Confirm, TellOutcome, Ask, CallTool, Reply, MarkResult
    <2> QED BY <2>1 DEF TurnRowsMove
  <1>8. \/ Park(w) \/ ApplyResponse(w) \/ ApplyTool(w) \/ Sorry(w)
        \/ Recover(w) \/ Remark(w) \/ ServeDrive(w) \/ ServeHook(w) \/ ServeOther(w) \/ ClaimNext(w)
        \/ Prepare(w) \/ Confirm(w) \/ TellOutcome(w) \/ Ask(w) \/ CallTool(w) \/ Reply(w) \/ MarkResult(w)
    BY DEF WorkerStep
  <1> QED BY <1>3, <1>4, <1>5, <1>6, <1>7, <1>8, <1>9

LEMMA OwedMoves ==
    ASSUME TurnInv, NEW w \in TurnWorkers, WorkerStep(w)
    PROVE  owed' \in [LoopIds -> Int]
  <1>1. TurnWorkersSound /\ TurnsTypeOK /\ owed \in [LoopIds -> Int]
    BY DEF TurnInv, TurnsTypeOK
  <1>2. ASSUME NEW t \in Turns, Starts(t) PROVE owed' \in [LoopIds -> Int]
    <2>1. Direct(t) \in LoopIds /\ owed' = [owed EXCEPT ![Direct(t)] = @ + 1]
      BY <1>2, KeyParts DEF Starts
    <2> QED BY <1>1, <2>1
  <1>3. ASSUME Replies(workers[w]), workers[w].step \in Acts PROVE owed' \in [LoopIds -> Int]
    <2>1. workers[w].key \in LoopIds
      BY <1>1, <1>3 DEF TurnWorkersSound, SoundTurn
    <2>2. PICK k \in LoopIds : owed' = [owed EXCEPT ![k] = @ - 1]
      BY <1>3, <2>1 DEF Replies
    <2> QED BY <1>1, <2>2
  <1>4. CASE TellOutcome(w) \/ Reply(w) \/ Sorry(w)
    <2>1. UNCHANGED owed \/ Replies(workers[w])
      BY <1>1, <1>4, TellIs, ReplyIs, SorryIs
    <2>2. workers[w].step \in Acts
      BY <1>4 DEF TellOutcome, Reply, Sorry, Acts
    <2> QED BY <1>1, <1>3, <2>1, <2>2
  <1>5. CASE Remark(w)
    BY <1>1, <1>2, <1>5, RemarkIs DEF Remark
  <1>6. CASE ClaimNext(w)
    <2>1. UNCHANGED owed \/ \E t \in Turns : Starts(t)
      BY <1>1, <1>6, ClaimIs
    <2> QED BY <1>1, <1>2, <2>1
  <1>7. CASE Confirm(w)
    <2>1. UNCHANGED owed \/ \E k \in LoopIds : HandsOver(workers[w].turn, k)
      BY <1>1, <1>7, ConfirmIs
    <2> QED BY <1>1, <2>1 DEF HandsOver
  <1>8. CASE UNCHANGED owed
    BY <1>1, <1>8
  <1> QED BY <1>4, <1>5, <1>6, <1>7, <1>8 DEF WorkerStep, Recover, ServeDrive, ServeHook, ServeOther,
        Prepare, Ask, CallTool, Park, ApplyResponse, ApplyTool, MarkResult

-----------------------------------------------------------------------------
(* The turns of a conversation: the operations.                              *)

(* Operations keep their turn, their loop and their kind, and only become more. *)
OpsMove ==
    \A o \in DOMAIN turnOps :
        /\ o \in DOMAIN turnOps' /\ turnOps'[o].turn = turnOps[o].turn
        /\ turnOps'[o].key = turnOps[o].key /\ turnOps'[o].kind = turnOps[o].kind

OpsAppend(p) ==
    \E kind \in {"provider", "runtime"} :
        turnOps' = Append(turnOps, [turn |-> p.turn, key |-> p.key, kind |-> kind,
                                    status |-> "running"])

LEMMA OpsAppendIs ==
    ASSUME TurnsTypeOK, NEW t \in Turns, NEW k \in LoopIds, NEW kind \in {"provider", "runtime"},
           turnOps' = Append(turnOps, [turn |-> t, key |-> k, kind |-> kind, status |-> "running"])
    PROVE  LET n == Len(turnOps) + 1 IN
           /\ n \notin DOMAIN turnOps /\ DOMAIN turnOps' = DOMAIN turnOps \cup {n}
           /\ \A o \in DOMAIN turnOps : turnOps'[o] = turnOps[o]
           /\ turnOps'[n].turn = t /\ turnOps'[n].key = k /\ turnOps'[n].kind = kind
           /\ turnOps' \in Seq([turn : Turns, key : LoopIds, kind : {"provider", "runtime"},
                                status : {"running", "succeeded", "failed", "abandoned"}])
  <1> DEFINE R == [turn : Turns, key : LoopIds, kind : {"provider", "runtime"},
                   status : {"running", "succeeded", "failed", "abandoned"}]
             r == [turn |-> t, key |-> k, kind |-> kind, status |-> "running"]
             n == Len(turnOps) + 1
  <1>1. turnOps \in Seq(R) /\ r \in R
    BY DEF TurnsTypeOK
  <1>2. r.turn = t /\ r.key = k /\ r.kind = kind
    OBVIOUS
  <1>3. turnOps' = Append(turnOps, r)
    OBVIOUS
  <1> HIDE DEF R, r
  <1>4. DOMAIN turnOps = 1..Len(turnOps) /\ Len(turnOps) \in Nat
    BY <1>1, LenProperties
  <1>5. /\ turnOps' \in Seq(R) /\ Len(turnOps') = n /\ DOMAIN turnOps' = 1..n
        /\ \A o \in 1..Len(turnOps) : turnOps'[o] = turnOps[o]
        /\ turnOps'[n] = r
    BY <1>1, <1>3, AppendProperties, LenProperties
  <1> QED BY <1>2, <1>4, <1>5 DEF R

LEMMA OpsDoMove ==
    ASSUME TurnInv, NEW w \in TurnWorkers, WorkerStep(w)
    PROVE  \/ UNCHANGED turnOps
           \/ /\ workers[w].turn \in Turns /\ workers[w].key \in LoopIds
              /\ OpsAppend(workers[w])
  <1>1. TurnWorkersSound /\ TurnsTypeOK
    BY DEF TurnInv
  <1>2. CASE Ask(w) \/ CallTool(w)
    <2>1. workers[w].turn \in Turns /\ workers[w].key \in LoopIds
      BY <1>1, <1>2 DEF TurnWorkersSound, SoundTurn, Acts, Ask, CallTool
    <2>2. UNCHANGED turnOps \/ \E p \in TurnRows : Advances(w, p) /\ OpsAppend(p)
      BY <1>1, <1>2, AskIs DEF OpsAppend
    <2> QED BY <2>1, <2>2 DEF Advances, StaysInTurn, OpsAppend
  <1>3. CASE UNCHANGED turnOps
    BY <1>3
  <1> QED BY <1>2, <1>3 DEF WorkerStep, Recover, Remark, ServeDrive, ServeHook, ServeOther, ClaimNext,
        Prepare, Confirm, TellOutcome, Park, ApplyResponse, ApplyTool, Reply, Sorry, MarkResult

LEMMA OpsStay ==
    ASSUME TurnInv, [TurnsNext]_turnVars
    PROVE  /\ OpsMove
           /\ turnOps' \in Seq([turn : Turns, key : LoopIds, kind : {"provider", "runtime"},
                                status : {"running", "succeeded", "failed", "abandoned"}])
           /\ \/ DOMAIN turnOps' = DOMAIN turnOps
              \/ \E w \in TurnWorkers :
                    /\ WorkerStep(w) /\ workers[w].turn \in Turns /\ workers[w].key \in LoopIds
                    /\ OpsAppend(workers[w])
  <1> DEFINE R == [turn : Turns, key : LoopIds, kind : {"provider", "runtime"},
                   status : {"running", "succeeded", "failed", "abandoned"}]
  <1>1. TurnWorkersSound /\ TurnsTypeOK /\ turnOps \in Seq(R)
    BY DEF TurnInv, TurnsTypeOK
  <1>2. ASSUME NEW w \in TurnWorkers, workers[w].turn \in Turns, workers[w].key \in LoopIds,
               OpsAppend(workers[w])
        PROVE  OpsMove /\ turnOps' \in Seq(R)
    BY <1>1, <1>2, OpsAppendIs DEF OpsAppend, OpsMove
  <1>3. CASE UNCHANGED turnOps
    BY <1>1, <1>3 DEF OpsMove
  <1>4. ASSUME NEW o \in TurnOps, OperationEnds(o)
        PROVE  OpsMove /\ turnOps' \in Seq(R) /\ DOMAIN turnOps' = DOMAIN turnOps
    <2>1. PICK status \in {"succeeded", "failed"} : turnOps' = [turnOps EXCEPT ![o].status = status]
      BY <1>4 DEF OperationEnds
    <2>2. o \in 1..Len(turnOps)
      BY <1>1, <1>4, LenProperties DEF OperationEnds, TurnOps
    <2>3. turnOps[o] \in R
      BY <1>1, <2>2, ElementOfSeq
    <2> DEFINE r == [turnOps[o] EXCEPT !.status = status]
    <2>4. r \in R /\ r.turn = turnOps[o].turn /\ r.key = turnOps[o].key /\ r.kind = turnOps[o].kind
      BY <2>3
    <2>5. turnOps' = [turnOps EXCEPT ![o] = r]
      BY <2>1
    <2> HIDE DEF r, R
    <2>6. turnOps' \in Seq(R) /\ DOMAIN turnOps' = DOMAIN turnOps
      BY <1>1, <2>2, <2>4, <2>5, ExceptSeq
    <2>7. DOMAIN turnOps = 1..Len(turnOps)
      BY <1>1, LenProperties
    <2> QED BY <2>2, <2>4, <2>5, <2>6, <2>7 DEF OpsMove
  <1>5. CASE ServerRestarts
    <2> DEFINE n == Len(turnOps)
               F(o) == IF turnOps[o].status = "running"
                       THEN [turnOps[o] EXCEPT !.status = "abandoned"] ELSE turnOps[o]
    <2>1. turnOps' = [o \in DOMAIN turnOps |-> F(o)]
      BY <1>5 DEF ServerRestarts
    <2>2. DOMAIN turnOps = 1..n /\ n \in Nat
      BY <1>1, LenProperties
    <2>3. \A o \in 1..n : /\ F(o) \in R /\ F(o).turn = turnOps[o].turn
                          /\ F(o).key = turnOps[o].key /\ F(o).kind = turnOps[o].kind
      <3> TAKE o \in 1..n
      <3>1. turnOps[o] \in R
        BY <1>1, ElementOfSeq
      <3> QED BY <3>1
    <2> HIDE DEF F, R
    <2>6. OpsMove
      <3>1. ASSUME NEW o \in DOMAIN turnOps
            PROVE  o \in DOMAIN turnOps' /\ turnOps'[o] = F(o)
        BY <2>1
      <3> QED BY <2>2, <2>3, <3>1 DEF OpsMove
    <2>4. turnOps' \in [1..n -> R]
      BY <2>1, <2>2, <2>3
    <2>5. turnOps' \in Seq(R)
      BY <2>2, <2>4, SeqDef
    <2>7. DOMAIN turnOps' = DOMAIN turnOps
      BY <2>1
    <2> QED BY <2>5, <2>6, <2>7 DEF R
  <1>6. ASSUME NEW w \in TurnWorkers, WorkerStep(w)
        PROVE  \/ UNCHANGED turnOps
               \/ /\ workers[w].turn \in Turns /\ workers[w].key \in LoopIds
                  /\ OpsAppend(workers[w])
    BY <1>6, OpsDoMove
  <1>7. \/ UNCHANGED turnOps \/ (\E o \in TurnOps : OperationEnds(o)) \/ ServerRestarts
        \/ \E w \in TurnWorkers : WorkerStep(w)
    BY DEF TurnsNext, turnVars, Send, DriveCall, HookCall, OtherCall, WorkerDies
  <1> QED
    <2>1. CASE UNCHANGED turnOps
      BY <1>3, <2>1
    <2>2. CASE \E o \in TurnOps : OperationEnds(o)
      BY <1>4, <2>2
    <2>3. CASE ServerRestarts
      <3>1. DOMAIN turnOps' = DOMAIN turnOps
        BY <2>3 DEF ServerRestarts
      <3> QED BY <1>5, <2>3, <3>1
    <2>4. CASE \E w \in TurnWorkers : WorkerStep(w)
      BY <1>2, <1>3, <1>6, <2>4
    <2> QED BY <1>7, <2>1, <2>2, <2>3, <2>4

-----------------------------------------------------------------------------
(* The turns of a conversation: the hooks.                                   *)

TurnHooks == [state : {"none", "due", "taken", "delivered", "dropped"}, attempts : 0..MaxDeliveries]
HookIsDue(h) == h.state \in {"none", "due", "taken"} => h.attempts < MaxDeliveries

LEMMA TurnHookFields ==
    ASSUME TurnsTypeOK, NEW o \in TurnOps
    PROVE  /\ hooks[o] \in TurnHooks /\ hooks[o].attempts \in 0..MaxDeliveries
           /\ hooks[o].state \in {"none", "due", "taken", "delivered", "dropped"}
  BY DEF TurnsTypeOK, TurnHooks

(* The answer to a hook ends the attempt. *)
LEMMA HookAnswered ==
    ASSUME TurnsTypeOK, TurnWorkersSound, HooksAreTaken, NEW w \in TurnWorkers, Answers(w),
           workers[w].job.kind = "hook"
    PROVE  LET o == workers[w].job.op IN
           /\ o \in TurnOps
           /\ \E h \in TurnHooks : /\ hooks' = [hooks EXCEPT ![o] = h] /\ HookIsDue(h)
                                   /\ h.state \in {"delivered", "due", "dropped"}
                                   /\ Respond(w, "ok") => h.state = "delivered"
  <1> DEFINE o == workers[w].job.op
             n == hooks[o].attempts + 1
  <1>1. o \in TurnOps /\ hooks[o].state = "taken"
    BY HeldHook
  <1>2. hooks[o].attempts \in 0..MaxDeliveries /\ hooks[o].attempts < MaxDeliveries
    BY <1>1, TurnHookFields DEF HooksAreTaken
  <1>3. n \in 0..MaxDeliveries
    <2>1. MaxDeliveries \in Nat
      BY TurnAssumption
    <2>2. ASSUME NEW a \in 0..MaxDeliveries, a < MaxDeliveries PROVE a + 1 \in 0..MaxDeliveries
      BY <2>1, <2>2
    <2> QED BY <1>2, <2>2
  <1>4. ASSUME NEW outcome \in {"ok", "skip", "fail"}, Respond(w, outcome)
        PROVE  hooks' = HookEnds(o, outcome = "ok")
    BY <1>4 DEF Respond, HookGoesOn
  <1> DEFINE H(ok) == [state    |-> IF ok THEN "delivered"
                                    ELSE IF n < MaxDeliveries THEN "due" ELSE "dropped",
                       attempts |-> n]
  <1>5. ASSUME NEW ok \in BOOLEAN
        PROVE  /\ H(ok) \in TurnHooks /\ HookIsDue(H(ok)) /\ H(ok).state \in {"delivered", "due", "dropped"}
               /\ ok => H(ok).state = "delivered"
    <2> HIDE DEF n
    <2> QED BY <1>3 DEF TurnHooks, HookIsDue
  <1>6. \A ok \in BOOLEAN : HookEnds(o, ok) = [hooks EXCEPT ![o] = H(ok)]
    BY DEF HookEnds
  <1> HIDE DEF H, o, n
  <1>7. PICK outcome \in {"ok", "skip", "fail"} : Respond(w, outcome) /\ (Respond(w, "ok") => outcome = "ok")
    <2>1. CASE Respond(w, "ok")
      BY <2>1
    <2>2. CASE ~Respond(w, "ok")
      BY <2>2 DEF Answers
    <2> QED BY <2>1, <2>2
  <1> DEFINE ok == (outcome = "ok")
  <1>8. ok \in BOOLEAN /\ hooks' = HookEnds(o, ok) /\ (Respond(w, "ok") => ok)
    BY <1>4, <1>7
  <1> HIDE DEF ok
  <1>9. hooks' = [hooks EXCEPT ![o] = H(ok)]
    BY <1>6, <1>8
  <1> QED BY <1>1, <1>5, <1>8, <1>9 DEF o

(* How a step changes the hooks. *)
HooksMove ==
    \/ UNCHANGED hooks
    \/ \E w \in TurnWorkers : workers[w].job.kind = "hook" /\ Answers(w)
    \/ \E o \in TurnOps :
          \/ hooks[o].state = "due" /\ hooks' = [hooks EXCEPT ![o].state = "taken"]
          \/ OperationEnds(o)
    \/ ServerRestarts

LEMMA HooksDoMove ==
    ASSUME TurnInv, [TurnsNext]_turnVars
    PROVE  HooksMove
  <1>1. TurnWorkersSound /\ TurnsTypeOK
    BY DEF TurnInv
  <1>2. ASSUME NEW w \in TurnWorkers, Answers(w) PROVE HooksMove
    BY <1>1, <1>2, AnswersIs DEF HooksMove
  <1>3. ASSUME NEW w \in TurnWorkers, WorkerStep(w) PROVE HooksMove
    <2>1. CASE Answers(w)
      BY <1>2, <2>1
    <2>2. CASE \E p \in TurnRows : Moves(w, p)
      BY <2>2 DEF Moves, HooksMove
    <2> QED BY <1>3, <2>1, <2>2, WorkerStepShape
  <1>4. ASSUME NEW w \in TurnWorkers, WorkerDies(w) PROVE HooksMove
    BY <1>2, <1>4 DEF WorkerDies, Answers
  <1>5. ASSUME NEW w \in TurnWorkers, NEW o \in TurnOps, HookCall(w, o) PROVE HooksMove
    BY <1>5 DEF HookCall, HooksMove
  <1>6. CASE UNCHANGED hooks
    BY <1>6 DEF HooksMove
  <1>7. CASE ServerRestarts \/ \E o \in TurnOps : OperationEnds(o)
    BY <1>7 DEF HooksMove
  <1> QED BY <1>3, <1>4, <1>5, <1>6, <1>7 DEF TurnsNext, turnVars, Send, DriveCall, OtherCall

LEMMA HooksStayTyped ==
    ASSUME TurnInv, [TurnsNext]_turnVars
    PROVE  /\ hooks' \in [TurnOps -> TurnHooks]
           /\ \A o \in TurnOps : HookIsDue(hooks[o])'
  <1>1. /\ TurnWorkersSound /\ TurnsTypeOK /\ HooksAreTaken
        /\ hooks \in [TurnOps -> TurnHooks] /\ \A o \in TurnOps : HookIsDue(hooks[o])
    BY DEF TurnInv, TurnsTypeOK, HooksAreTaken, TurnHooks, HookIsDue
  <1>2. ASSUME NEW o \in TurnOps, NEW state \in {"none", "due", "taken"}, HookIsDue(hooks[o]),
               hooks[o].state \in {"none", "due", "taken"}
        PROVE  /\ [hooks[o] EXCEPT !.state = state] \in TurnHooks
               /\ HookIsDue([hooks[o] EXCEPT !.state = state])
    BY <1>1, <1>2 DEF TurnHooks, HookIsDue
  <1>3. ASSUME NEW o \in TurnOps, NEW h \in TurnHooks, HookIsDue(h), hooks' = [hooks EXCEPT ![o] = h]
        PROVE  /\ hooks' \in [TurnOps -> TurnHooks]
               /\ \A u \in TurnOps : HookIsDue(hooks'[u])
    BY <1>1, <1>3
  <1>4. CASE \E w \in TurnWorkers : workers[w].job.kind = "hook" /\ Answers(w)
    <2>1. PICK w \in TurnWorkers : workers[w].job.kind = "hook" /\ Answers(w)
      BY <1>4
    <2>2. PICK o \in TurnOps, h \in TurnHooks : hooks' = [hooks EXCEPT ![o] = h] /\ HookIsDue(h)
      BY <1>1, <2>1, HookAnswered
    <2> QED BY <1>3, <2>2 DEF HookIsDue
  <1>5. CASE \E o \in TurnOps : hooks[o].state = "due" /\ hooks' = [hooks EXCEPT ![o].state = "taken"]
    <2>1. PICK o \in TurnOps : hooks[o].state = "due" /\ hooks' = [hooks EXCEPT ![o].state = "taken"]
      BY <1>5
    <2> DEFINE h == [hooks[o] EXCEPT !.state = "taken"]
    <2>2. h \in TurnHooks /\ HookIsDue(h)
      BY <1>1, <1>2, <2>1
    <2>3. hooks' = [hooks EXCEPT ![o] = h]
      BY <2>1
    <2> HIDE DEF h
    <2> QED BY <1>3, <2>2, <2>3 DEF HookIsDue
  <1>6. ASSUME NEW o \in TurnOps, OperationEnds(o)
        PROVE  /\ hooks' \in [TurnOps -> TurnHooks]
               /\ \A u \in TurnOps : HookIsDue(hooks[u])'
    <2>1. hooks[o].state = "none" /\ hooks' = [hooks EXCEPT ![o].state = "due"]
      BY <1>1, <1>6 DEF OperationEnds, HooksAreTaken
    <2> DEFINE h == [hooks[o] EXCEPT !.state = "due"]
    <2>2. h \in TurnHooks /\ HookIsDue(h)
      BY <1>1, <1>2, <2>1
    <2>3. hooks' = [hooks EXCEPT ![o] = h]
      BY <2>1
    <2> HIDE DEF h
    <2> QED BY <1>3, <2>2, <2>3 DEF HookIsDue
  <1>7. CASE ServerRestarts
    <2> DEFINE F(o) == IF hooks[o].state = "taken"
                                   THEN [hooks[o] EXCEPT !.state = "due"] ELSE hooks[o]
    <2>1. hooks' = [o \in TurnOps |-> F(o)]
      BY <1>7 DEF ServerRestarts
    <2>2. \A o \in TurnOps : F(o) \in TurnHooks /\ HookIsDue(F(o))
      BY <1>1, <1>2
    <2> HIDE DEF F
    <2> QED BY <2>1, <2>2 DEF HookIsDue
  <1>8. CASE UNCHANGED hooks
    BY <1>1, <1>8 DEF HookIsDue
  <1> QED BY <1>4, <1>5, <1>6, <1>7, <1>8, HooksDoMove DEF HooksMove

-----------------------------------------------------------------------------
(* The turns of a conversation: drives, tables, types and what was sent.    *)

LEMMA DrivesStay ==
    ASSUME TurnInv, [TurnsNext]_turnVars
    PROVE  /\ drives' \in [Messages -> {"unsent", "task", "default", "called", "done"}]
           /\ \A m \in Messages : Sent(m) => Sent(m)'
  <1> DEFINE D == {"unsent", "task", "default", "called", "done"}
  <1>1. TurnWorkersSound /\ TurnsTypeOK /\ drives \in [Messages -> D]
    BY DEF TurnInv, TurnsTypeOK
  <1>2. ASSUME NEW w \in TurnWorkers, Answers(w)
        PROVE  drives' \in [Messages -> D] /\ \A m \in Messages : Sent(m) => Sent(m)'
    BY <1>1, <1>2, AnswersIs
  <1>3. CASE UNCHANGED drives
    BY <1>1, <1>3 DEF Sent
  <1>4. ASSUME NEW m \in Messages, NEW d \in {"task", "called"}, drives' = [drives EXCEPT ![m] = d]
        PROVE  drives' \in [Messages -> D] /\ \A n \in Messages : Sent(n) => Sent(n)'
    BY <1>1, <1>4 DEF Sent
  <1>5. CASE ServerRestarts
    BY <1>1, <1>5 DEF ServerRestarts, Sent
  <1>6. ASSUME NEW w \in TurnWorkers, WorkerStep(w) PROVE Answers(w) \/ UNCHANGED drives
    BY <1>6, WorkerStepShape DEF Moves
  <1>7. \/ UNCHANGED drives \/ ServerRestarts \/ (\E w \in TurnWorkers : Answers(w))
        \/ \E m \in Messages, d \in {"task", "called"} : drives' = [drives EXCEPT ![m] = d]
    BY <1>6 DEF TurnsNext, turnVars, Send, DriveCall, HookCall, OtherCall, WorkerDies, OperationEnds, Answers
  <1> QED BY <1>2, <1>3, <1>4, <1>5, <1>7

LEMMA TablesStay ==
    ASSUME TurnInv, [TurnsNext]_turnVars
    PROVE  /\ receipts' \in [Turns -> {"none", "running", "completed", "failed"}]
           /\ ReceiptsMove /\ SaidMoves /\ said' \subseteq Turns /\ said \subseteq said'
           /\ rows' \in [LoopIds -> Loops \cup {NoRow}] /\ rowTurn' \in [LoopIds -> Turns]
           /\ confirming \subseteq confirming' /\ confirming' \subseteq Messages
           /\ turnRuns' \in [Turns -> 0..MaxTurnRuns]
           /\ owed' \in [LoopIds -> Int]
           /\ deaths' \in 0..MaxDeaths /\ booted' \subseteq TurnWorkers
           /\ DOMAIN receipts = Turns /\ DOMAIN rows = LoopIds
  <1>1. TurnWorkersSound /\ TurnsTypeOK
    BY DEF TurnInv
  <1>2. ReceiptsMove
    <2>1. ASSUME NEW w \in TurnWorkers, WorkerStep(w) PROVE ReceiptsMove
      BY <2>1, ReceiptsDoMove
    <2>2. CASE UNCHANGED receipts
      BY <2>2 DEF ReceiptsMove
    <2> QED BY <2>1, <2>2 DEF TurnsNext, turnVars, Send, DriveCall, HookCall, OtherCall, WorkerDies,
          OperationEnds, ServerRestarts
  <1>3. SaidMoves
    <2>1. ASSUME NEW w \in TurnWorkers, WorkerStep(w) PROVE SaidMoves
      BY <2>1, SaidDoesMove
    <2>2. CASE UNCHANGED said
      BY <2>2 DEF SaidMoves
    <2> QED BY <2>1, <2>2 DEF TurnsNext, turnVars, Send, DriveCall, HookCall, OtherCall, WorkerDies,
          OperationEnds, ServerRestarts
  <1>4. receipts' \in [Turns -> {"none", "running", "completed", "failed"}]
    BY <1>1, <1>2 DEF ReceiptsMove, Marks, MarkReceipt, TurnsTypeOK
  <1>5. said' \subseteq Turns /\ said \subseteq said'
    BY <1>1, <1>3, SaysIs DEF SaidMoves, TurnsTypeOK
  <1>6. rows' \in [LoopIds -> Loops \cup {NoRow}] /\ rowTurn' \in [LoopIds -> Turns]
    <2>1. ASSUME NEW w \in TurnWorkers, WorkerStep(w)
          PROVE  rows' \in [LoopIds -> Loops \cup {NoRow}] /\ rowTurn' \in [LoopIds -> Turns]
      BY <1>1, <2>1, RowsDoMove DEF TurnRowsMove, TurnsTypeOK
    <2>2. CASE UNCHANGED <<rows, rowTurn>>
      BY <1>1, <2>2 DEF TurnsTypeOK
    <2> QED BY <2>1, <2>2 DEF TurnsNext, turnVars, runTables, Send, DriveCall, HookCall, OtherCall,
          WorkerDies, OperationEnds, ServerRestarts
  <1>7. owed' \in [LoopIds -> Int]
    <2>1. ASSUME NEW w \in TurnWorkers, WorkerStep(w)
          PROVE  owed' \in [LoopIds -> Int]
      BY <2>1, OwedMoves
    <2>2. CASE UNCHANGED owed
      BY <1>1, <2>2 DEF TurnsTypeOK
    <2> QED BY <2>1, <2>2 DEF TurnsNext, turnVars, Send, DriveCall, HookCall, OtherCall, WorkerDies,
          OperationEnds, ServerRestarts
  <1>8. deaths' \in 0..MaxDeaths
    <2>1. CASE UNCHANGED deaths
      BY <1>1, <2>1 DEF TurnsTypeOK
    <2>2. CASE deaths < MaxDeaths /\ deaths' = deaths + 1
      BY <1>1, <2>2, TurnAssumption DEF TurnsTypeOK
    <2> QED BY <2>1, <2>2 DEF TurnsNext, turnVars, Send, DriveCall, HookCall, OtherCall, WorkerDies,
          OperationEnds, ServerRestarts, WorkerStep, Recover, Remark, ServeDrive, ServeHook, ServeOther,
          ClaimNext, Prepare, Confirm, TellOutcome, Ask, CallTool, Park, ApplyResponse, ApplyTool, Reply, Sorry, MarkResult
  <1>9. booted' \subseteq TurnWorkers
    <2>1. booted \subseteq TurnWorkers
      BY <1>1 DEF TurnsTypeOK
    <2>2. \/ booted' \subseteq booted \/ \E w \in TurnWorkers : booted' = booted \cup {w}
      BY DEF TurnsNext, turnVars, Send, DriveCall, HookCall, OtherCall, WorkerDies,
          OperationEnds, ServerRestarts, WorkerStep, Recover, Remark, ServeDrive, ServeHook, ServeOther,
          ClaimNext, Prepare, Confirm, TellOutcome, Ask, CallTool, Park, ApplyResponse, ApplyTool, Reply, Sorry, MarkResult
    <2> QED BY <2>1, <2>2
  <1>10. confirming \subseteq confirming' /\ confirming' \subseteq Messages
    <2>1. confirming \subseteq Messages
      BY <1>1 DEF TurnsTypeOK
    <2>2. UNCHANGED confirming \/ \E m \in Messages : confirming' \in {confirming, confirming \cup {m}}
      BY DEF TurnsNext, turnVars, runTables, Send, DriveCall, HookCall, OtherCall, WorkerDies,
          OperationEnds, ServerRestarts, WorkerStep, Recover, Remark, ServeDrive, ServeHook, ServeOther,
          ClaimNext, Prepare, Confirm, TellOutcome, Ask, CallTool, Park, ApplyResponse, ApplyTool, Reply, Sorry, MarkResult
    <2> QED BY <2>1, <2>2
  <1>11. turnRuns' \in [Turns -> 0..MaxTurnRuns]
    <2>1. CASE UNCHANGED turnRuns
      BY <1>1, <2>1 DEF TurnsTypeOK
    <2>2. ASSUME NEW w \in TurnWorkers, Confirm(w) PROVE turnRuns' \in [Turns -> 0..MaxTurnRuns]
      <3>1. workers[w].turn \in Turns
        BY <1>1, <2>2, ConfirmIs
      <3>2. \/ UNCHANGED turnRuns
            \/ \E k \in Continuable(workers[w].turn) : Continues(workers[w].turn, k)
        BY <2>2 DEF Confirm
      <3>3. \A k \in Continuable(workers[w].turn) : k[2] \in 0..MaxTurnRuns
        BY KeyParts DEF Continuable
      <3> QED BY <1>1, <3>1, <3>2, <3>3 DEF Continues, TurnsTypeOK
    <2>3. UNCHANGED turnRuns \/ \E w \in TurnWorkers : Confirm(w)
      BY DEF TurnsNext, turnVars, runTables, Send, DriveCall, HookCall, OtherCall, WorkerDies,
          OperationEnds, ServerRestarts, WorkerStep, Recover, Remark, ServeDrive, ServeHook, ServeOther,
          ClaimNext, Prepare, TellOutcome, Ask, CallTool, Park, ApplyResponse, ApplyTool, Reply, Sorry, MarkResult
    <2> QED BY <2>1, <2>2, <2>3
  <1> QED BY <1>1, <1>2, <1>3, <1>4, <1>5, <1>6, <1>7, <1>8, <1>9, <1>10, <1>11 DEF TurnsTypeOK

LEMMA TypesStay ==
    ASSUME TurnInv, [TurnsNext]_turnVars
    PROVE  TurnsTypeOK'
  <1>1. TurnWorkersSound' /\ DOMAIN workers' = TurnWorkers
    BY WorkersStaySound DEF TurnWorkersSound
  <1>2. \A w \in TurnWorkers :
          /\ workers'[w].step \in Steps /\ workers'[w].job \in Jobs
          /\ workers'[w].loop \in Loops /\ workers'[w].backlog \subseteq Turns
          /\ workers'[w].turn \in Turns \cup {NoTurn} /\ workers'[w].key \in LoopIds \cup {NoTurn}
    BY <1>1, TurnFields DEF TurnWorkersSound
  <1> QED BY <1>1, <1>2, DrivesStay, TablesStay, OpsStay, HooksStayTyped DEF TurnsTypeOK, TurnHooks

(* A worker's turn is one it had, of its backlog, of the message it drives   *)
(* or of a row.                                                              *)
TurnFrom(w, t) ==
    \/ t \in {workers[w].turn, NoTurn} \/ t \in workers[w].backlog
    \/ workers[w].job.kind = "drive" /\ t[1] = workers[w].job.message
    \/ \E k \in LoopIds : rows[k] # NoRow /\ t = rowTurn[k]

LEMMA TurnsCome ==
    ASSUME TurnInv, NEW w \in TurnWorkers, WorkerStep(w)
    PROVE  Answers(w) \/ \E p \in TurnRows : Moves(w, p) /\ TurnFrom(w, p.turn)
  <1>1. TurnWorkersSound /\ TurnsTypeOK /\ ParkedAreOwn
    BY DEF TurnInv
  <1>2. CASE Recover(w) \/ Remark(w)
    BY <1>1, <1>2, RecoverIs, RemarkIs DEF StaysInTurn, TurnFrom
  <1>3. CASE ServeDrive(w)
    BY <1>1, <1>3, ServeDriveIs, TurnAssumption DEF TurnFrom
  <1>4. CASE ServeHook(w)
    <2>1. workers[w].job.op \in DOMAIN turnOps
      BY <1>4, HeldHook DEF TurnInv, ServeHook
    <2>2. turnOps[workers[w].job.op].key \in LoopIds
      BY <1>1, <2>1, TurnOpFields
    <2>3. \/ Answers(w)
          \/ \E p \in TurnRows : LET k == turnOps[p.job.op].key IN
                Moves(w, p) /\ rows[k] # NoRow /\ p.turn = rowTurn[k]
      BY <1>1, <1>4, <2>1, ServeHookIs
    <2> QED BY <2>2, <2>3 DEF Moves, TurnFrom
  <1>5. CASE ServeOther(w)
    BY <1>5 DEF ServeOther, Answers
  <1>6. CASE ClaimNext(w)
    <2> DEFINE t == <<workers[w].job.message, Head(workers[w].left)>>
    <2>1. /\ workers[w].job.kind = "drive"
          /\ Answers(w) \/ \E p \in TurnRows : Moves(w, p) /\ p.turn \in {t, workers[w].turn}
      <3>1. t \in {t, workers[w].turn} /\ workers[w].turn \in {t, workers[w].turn}
        OBVIOUS
      <3> HIDE DEF t
      <3> QED BY <1>1, <1>6, <3>1, ClaimIs DEF t
    <2>2. t[1] = workers[w].job.message
      OBVIOUS
    <2> HIDE DEF t
    <2> QED BY <2>1, <2>2 DEF TurnFrom
  <1>7. CASE Prepare(w) \/ Confirm(w) \/ TellOutcome(w)
    BY <1>1, <1>7, PrepareIs, ConfirmIs, TellIs DEF StaysInTurn, Advances, Leaves, TurnFrom
  <1>8. CASE Ask(w) \/ CallTool(w)
    BY <1>1, <1>8, AskIs DEF StaysInTurn, Advances, TurnFrom
  <1>9. CASE Park(w)
    BY <1>1, <1>9, ParkIs DEF StaysInTurn, Advances, Leaves, Answers, TurnFrom
  <1>10. CASE ApplyResponse(w) \/ ApplyTool(w)
    BY <1>1, <1>10, ApplyResponseIs, ApplyToolIs DEF StaysInTurn, Advances, TurnFrom
  <1>11. CASE Reply(w)
    BY <1>1, <1>11, ReplyIs DEF StaysInTurn, Advances, Answers, TurnFrom
  <1>12. CASE Sorry(w)
    BY <1>1, <1>12, SorryIs DEF StaysInTurn, Advances, Leaves, Answers, TurnFrom
  <1>13. CASE MarkResult(w)
    BY <1>1, <1>13, MarkIs DEF Leaves, Answers, TurnFrom
  <1> QED BY <1>2, <1>3, <1>4, <1>5, <1>6, <1>7, <1>8, <1>9, <1>10, <1>11, <1>12, <1>13 DEF WorkerStep

WorkerWasSent(p) ==
    /\ p.turn # NoTurn => Sent(p.turn[1])
    /\ \A t \in p.backlog : Sent(t[1])
    /\ p.job.kind = "drive" => Sent(p.job.message)

LEMMA SentStay ==
    ASSUME TurnInv, [TurnsNext]_turnVars
    PROVE  TurnsWereSent'
  <1>1. TurnWorkersSound /\ TurnsTypeOK /\ TurnsWereSent
    BY DEF TurnInv
  <1>2. /\ \A m \in Messages : Sent(m) => Sent(m)'
        /\ \A t \in Turns : Sent(t[1]) => Sent(t[1])'
    BY DrivesStay, TurnParts
  <1>3. ASSUME NEW p \in TurnRows, SoundTurn(p), WorkerWasSent(p) PROVE WorkerWasSent(p)'
    BY <1>2, <1>3, TurnFields DEF WorkerWasSent, SoundTurn
  <1>4. \A w \in TurnWorkers : workers[w] \in TurnRows /\ SoundTurn(workers[w]) /\ WorkerWasSent(workers[w])
    BY <1>1 DEF TurnWorkersSound, TurnsWereSent, WorkerWasSent
  <1>5. ASSUME NEW w \in TurnWorkers, NEW p \in TurnRows, SoundTurn(p), WorkerWasSent(p),
               workers' = [workers EXCEPT ![w] = p]
        PROVE  \A v \in TurnWorkers : WorkerWasSent(workers[v])'
    <2>1. \A v \in TurnWorkers : workers'[v] = IF v = w THEN p ELSE workers[v]
      BY <1>1, <1>5 DEF TurnWorkersSound
    <2>2. WorkerWasSent(p)'
      BY <1>3, <1>5
    <2>4. ASSUME NEW v \in TurnWorkers, v # w
          PROVE  WorkerWasSent(workers[v])'
      <3>1. PICK q \in TurnRows : q = workers[v]
        BY <1>4
      <3>2. WorkerWasSent(q)'
        BY <1>3, <1>4, <3>1
      <3>3. workers'[v] = q
        BY <2>1, <2>4, <3>1
      <3> QED BY <3>2, <3>3 DEF WorkerWasSent
    <2>5. WorkerWasSent(workers[w])'
      BY <2>1, <2>2 DEF WorkerWasSent
    <2> QED BY <2>4, <2>5
  <1>6. WorkerWasSent(IdleProcess) /\ SoundTurn(IdleProcess) /\ IdleProcess \in TurnRows
    BY IdleIsSound DEF WorkerWasSent, IdleProcess, NoJob
  <1>7. ASSUME NEW w \in TurnWorkers, Answers(w)
        PROVE  \A v \in TurnWorkers : WorkerWasSent(workers[v])'
    BY <1>1, <1>5, <1>6, <1>7, AnswersIs
  <1>8. ASSUME NEW w \in TurnWorkers, WorkerStep(w)
        PROVE  \A v \in TurnWorkers : WorkerWasSent(workers[v])'
    <2>1. ASSUME NEW p \in TurnRows, Moves(w, p), TurnFrom(w, p.turn) PROVE WorkerWasSent(p)
      <3>1. /\ p.job = workers[w].job /\ p.backlog \subseteq workers[w].backlog
            /\ WorkerWasSent(workers[w])
        BY <1>4, <2>1 DEF Moves
      <3>2. p.turn # NoTurn => Sent(p.turn[1])
        BY <1>1, <2>1, <3>1 DEF TurnFrom, WorkerWasSent, TurnsWereSent
      <3> QED BY <3>1, <3>2 DEF WorkerWasSent
    <2> QED BY <1>5, <1>7, <1>8, <2>1, TurnsCome DEF Moves
  <1>9. ASSUME NEW w \in TurnWorkers,
               (\E m \in Messages : DriveCall(w, m)) \/ (\E o \in TurnOps : HookCall(w, o)) \/ OtherCall(w)
        PROVE  \A v \in TurnWorkers : WorkerWasSent(workers[v])'
    <2>1. PICK p \in TurnRows : Calls(w, p) /\ (p.job.kind = "drive" => Sent(p.job.message))
      BY <1>1, <1>9, DriveCallIs, HookCallIs, OtherCallIs
    <2>2. \A t \in Turns : receipts[t] = "running" => Sent(t[1])
      BY <1>1 DEF TurnsWereSent
    <2>3. WorkerWasSent(p)
      BY <2>1, <2>2 DEF Calls, WorkerWasSent
    <2> QED BY <1>5, <2>1, <2>3 DEF Calls
  <1>10. ASSUME UNCHANGED workers
         PROVE  \A v \in TurnWorkers : WorkerWasSent(workers[v])'
    <2> TAKE v \in TurnWorkers
    <2>1. PICK q \in TurnRows : q = workers[v]
      BY <1>4
    <2>2. WorkerWasSent(q)'
      BY <1>3, <1>4, <2>1
    <2>3. workers'[v] = q
      BY <1>10, <2>1
    <2> QED BY <2>2, <2>3 DEF WorkerWasSent
  <1>11. ASSUME ServerRestarts
         PROVE  \A v \in TurnWorkers : WorkerWasSent(workers[v])'
    <2>1. \A v \in TurnWorkers : workers'[v] = IdleProcess
      BY <1>11 DEF ServerRestarts
    <2> QED BY <2>1 DEF WorkerWasSent, IdleProcess, NoJob
  <1>12. \A v \in TurnWorkers : WorkerWasSent(workers[v])'
    <2>1. ASSUME NEW w \in TurnWorkers, WorkerDies(w) PROVE Answers(w)
      BY <2>1 DEF WorkerDies, Answers
    <2> QED BY <1>7, <1>8, <1>9, <1>10, <1>11, <2>1 DEF TurnsNext, turnVars, Send, OperationEnds
  <1>13. \A t \in Turns : receipts'[t] # "none" => Sent(t[1])'
    <2> TAKE t \in Turns
    <2>1. receipts'[t] # "none" => Sent(t[1])
      BY <1>1, TablesStay DEF ReceiptsMove, Marks, MarkReceipt, TurnsWereSent
    <2> QED BY <1>2, <2>1
  <1>14. \A o \in DOMAIN turnOps' : Sent(turnOps[o].turn[1])'
    <2>1. CASE DOMAIN turnOps' = DOMAIN turnOps
      <3> TAKE o \in DOMAIN turnOps'
      <3>1. o \in DOMAIN turnOps /\ turnOps[o].turn \in Turns /\ Sent(turnOps[o].turn[1])
        BY <1>1, <2>1, TurnOpFields DEF TurnsWereSent
      <3>2. turnOps'[o].turn = turnOps[o].turn
        BY <3>1, OpsStay DEF OpsMove
      <3> QED BY <1>2, <3>1, <3>2 DEF Sent
    <2>2. ASSUME NEW w \in TurnWorkers, workers[w].turn \in Turns, workers[w].key \in LoopIds,
                 OpsAppend(workers[w])
          PROVE  \A o \in DOMAIN turnOps' : Sent(turnOps[o].turn[1])'
      <3> TAKE o \in DOMAIN turnOps'
      <3> DEFINE t == workers[w].turn
      <3>1. t \in Turns /\ Sent(t[1])
        BY <1>1, <2>2, TurnParts DEF TurnsWereSent, NoTurn
      <3>2. CASE o \in DOMAIN turnOps
        <4>1. turnOps[o].turn \in Turns /\ Sent(turnOps[o].turn[1])
          BY <1>1, <3>2, TurnOpFields DEF TurnsWereSent
        <4>2. turnOps'[o].turn = turnOps[o].turn
          BY <3>2, OpsStay DEF OpsMove
        <4> QED BY <1>2, <4>1, <4>2 DEF Sent
      <3>3. CASE o \notin DOMAIN turnOps
        <4>1. turnOps'[o].turn = t
          BY <1>1, <2>2, <3>3, OpsAppendIs DEF OpsAppend
        <4> QED BY <1>2, <3>1, <4>1 DEF Sent
      <3> QED BY <3>2, <3>3
    <2> QED BY <2>1, <2>2, OpsStay
  <1>15. \A k \in LoopIds : rows'[k] # NoRow => Sent(rowTurn[k][1])'
    <2> TAKE k \in LoopIds
    <2>1. UNCHANGED <<rows, rowTurn>> \/ \E w \in TurnWorkers : TurnRowsMove(w)
      BY RowsDoMove DEF TurnsNext, turnVars, runTables, Send, DriveCall, HookCall, OtherCall,
         WorkerDies, OperationEnds, ServerRestarts
    <2>2. rowTurn[k] \in Turns /\ (rows[k] # NoRow => Sent(rowTurn[k][1]))
      BY <1>1 DEF TurnsTypeOK, TurnsWereSent
    <2>3. CASE rows'[k] = rows[k] /\ rowTurn'[k] = rowTurn[k]
      BY <1>2, <2>2, <2>3 DEF Sent
    <2>4. ASSUME NEW w \in TurnWorkers, workers[w].turn \in Turns, rowTurn'[k] = workers[w].turn
          PROVE  Sent(rowTurn[k][1])'
      <3>1. Sent(workers[w].turn[1])
        BY <1>1, <2>4, TurnParts DEF TurnsWereSent, NoTurn
      <3> QED BY <1>2, <2>4, <3>1 DEF Sent
    <2>5. ASSUME NEW w \in TurnWorkers, TurnRowsMove(w), ~UNCHANGED <<rows, rowTurn>>
          PROVE  \/ rows'[k] = NoRow \/ (rows'[k] = rows[k] /\ rowTurn'[k] = rowTurn[k])
                 \/ workers[w].turn \in Turns /\ rowTurn'[k] = workers[w].turn
      BY <1>1, <2>5 DEF TurnRowsMove, TurnsTypeOK
    <2> QED BY <2>1, <2>3, <2>4, <2>5
  <1> QED BY <1>12, <1>13, <1>14, <1>15 DEF TurnsWereSent, WorkerWasSent

-----------------------------------------------------------------------------
(* The turns of a conversation: completed turns, and hooks that are held.    *)

(* A worker comes to work for a run from a confirmation only. *)
LEMMA StepsConfirm ==
    ASSUME TurnInv, NEW w \in TurnWorkers, WorkerStep(w)
    PROVE  \/ Answers(w)
           \/ \E p \in TurnRows : Moves(w, p) /\ Confirmed(p, confirming)
  <1> DEFINE q == workers[w]
  <1>1. /\ TurnWorkersSound /\ TurnsTypeOK /\ ParkedAreOwn
        /\ SoundTurn(q) /\ Confirmed(q, confirming)
    BY DEF TurnInv, TurnWorkersSound, RunsAreConfirmed
  <1>2. ASSUME NEW p \in TurnRows, p.step \notin {"confirm", "tell", "ask", "park"}
        PROVE  Confirmed(p, confirming)
    BY <1>2 DEF Confirmed
  <1>3. CASE Recover(w) \/ Remark(w)
    <2>1. \E p \in TurnRows : Moves(w, p) /\ p.step \in {"serve", "recover", "remark", "prepare"}
      BY <1>1, <1>3, RecoverIs, RemarkIs DEF StaysInTurn
    <2> QED BY <1>2, <2>1
  <1>4. CASE ServeDrive(w) \/ ServeOther(w)
    <2>1. Answers(w) \/ \E p \in TurnRows : Moves(w, p) /\ p.step = "claim"
      BY <1>1, <1>4, ServeDriveIs, TurnAssumption DEF ServeOther, Answers
    <2> QED BY <1>2, <2>1
  <1>5. CASE ServeHook(w)
    <2>1. workers[w].job.op \in DOMAIN turnOps
      BY <1>5, HeldHook DEF TurnInv, ServeHook
    <2>2. Answers(w) \/ \E p \in TurnRows : Moves(w, p) /\ p.step = "resume"
      BY <1>1, <1>5, <2>1, ServeHookIs
    <2> QED BY <1>2, <2>2
  <1>6. CASE ClaimNext(w)
    <2>1. Answers(w) \/ \E p \in TurnRows : Moves(w, p) /\ p.step \in {"prepare", "claim"}
      BY <1>1, <1>6, ClaimIs
    <2> QED BY <1>2, <2>1
  <1>7. CASE Prepare(w)
    <2>1. q.turn \in Turns /\ q.key = Direct(q.turn) /\ IsDirect(q.key)
      BY <1>1, <1>7, PrepareIs, KeyParts DEF SoundTurn
    <2>2. \/ Answers(w) \/ \E p \in TurnRows : Moves(w, p) /\ p.step \in {"recover", "claim"}
          \/ \E p \in TurnRows :
                /\ Moves(w, p) /\ p.turn = q.turn /\ p.key = q.key
                /\ p.step = "confirm" => q.turn[1] \in confirming
      BY <1>1, <1>7, PrepareIs DEF StaysInTurn, Advances, Leaves
    <2> QED BY <1>2, <2>1, <2>2 DEF Confirmed
  <1>8. CASE Confirm(w)
    <2>1. q.turn[1] \in confirming
      BY <1>1, <1>8 DEF Confirm, Confirmed
    <2>2. \/ Answers(w) \/ \E p \in TurnRows : Moves(w, p) /\ p.step \in {"recover", "claim"}
          \/ \E p \in TurnRows : Moves(w, p) /\ p.turn = q.turn
      BY <1>1, <1>8, ConfirmIs DEF StaysInTurn, Advances, Leaves
    <2> QED BY <1>2, <2>1, <2>2 DEF Confirmed
  <1>9. CASE TellOutcome(w)
    <2>1. Answers(w) \/ \E p \in TurnRows : Moves(w, p) /\ p.step \in {"finish", "recover", "claim"}
      BY <1>1, <1>9, TellIs DEF StaysInTurn, Advances, Leaves
    <2> QED BY <1>2, <2>1
  <1>10. CASE Ask(w) \/ CallTool(w)
    <2>1. \E p \in TurnRows : /\ Moves(w, p) /\ p.turn = q.turn /\ p.key = q.key
                              /\ p.job = q.job /\ p.recovering = q.recovering
                              /\ p.step \in {"sorry", "tell", "park"}
      BY <1>1, <1>10, AskIs DEF StaysInTurn, Advances, Moves
    <2>2. q.step = "ask" \/ InHook(q)
      BY <1>1, <1>10 DEF Ask, CallTool, SoundTurn, InHook
    <2> QED BY <1>1, <2>1, <2>2 DEF Confirmed, InHook
  <1>11. CASE Park(w)
    <2>1. Answers(w) \/ \E p \in TurnRows : Moves(w, p) /\ p.step \in {"finish", "recover", "claim"}
      BY <1>1, <1>11, ParkIs DEF StaysInTurn, Advances, Leaves, Answers
    <2> QED BY <1>2, <2>1
  <1>12. CASE ApplyResponse(w) \/ ApplyTool(w)
    <2>1. \E p \in TurnRows : Moves(w, p) /\ p.recovering = q.recovering
      BY <1>1, <1>12, ApplyResponseIs, ApplyToolIs DEF StaysInTurn, Advances
    <2>2. q.job.kind = "hook" /\ ~q.recovering
      BY <1>1, <1>12, ApplyResponseIs, ApplyToolIs
    <2> QED BY <2>1, <2>2 DEF Confirmed, InHook, Moves, SoundTurn
  <1>13. CASE Reply(w)
    <2>1. Answers(w) \/ \E p \in TurnRows : Moves(w, p) /\ p.step = "finish"
      BY <1>1, <1>13, ReplyIs DEF StaysInTurn, Advances, Answers
    <2> QED BY <1>2, <2>1
  <1>14. CASE Sorry(w)
    <2>1. Answers(w) \/ \E p \in TurnRows : Moves(w, p) /\ p.step \in {"finish", "recover", "claim"}
      BY <1>1, <1>14, SorryIs DEF StaysInTurn, Advances, Leaves, Answers
    <2> QED BY <1>2, <2>1
  <1>15. CASE MarkResult(w)
    <2>1. Answers(w) \/ \E p \in TurnRows : Moves(w, p) /\ p.step \in {"recover", "claim"}
      BY <1>1, <1>15, MarkIs DEF Leaves, Answers
    <2> QED BY <1>2, <2>1
  <1> QED BY <1>3, <1>4, <1>5, <1>6, <1>7, <1>8, <1>9, <1>10, <1>11, <1>12, <1>13, <1>14, <1>15
        DEF WorkerStep

LEMMA ConfirmedStay ==
    ASSUME TurnInv, [TurnsNext]_turnVars
    PROVE  RunsAreConfirmed'
  <1>1. TurnWorkersSound /\ TurnsTypeOK /\ RunsAreConfirmed
    BY DEF TurnInv
  <1>2. confirming \subseteq confirming'
    BY TablesStay
  <1>3. \A v \in TurnWorkers : Confirmed(workers[v], confirming')
    BY <1>1, <1>2 DEF RunsAreConfirmed, Confirmed
  <1>4. ASSUME NEW w \in TurnWorkers, NEW p \in TurnRows, Confirmed(p, confirming),
               workers' = [workers EXCEPT ![w] = p]
        PROVE  RunsAreConfirmed'
    <2>1. \A v \in TurnWorkers : workers'[v] = IF v = w THEN p ELSE workers[v]
      BY <1>1, <1>4 DEF TurnWorkersSound
    <2>2. Confirmed(p, confirming')
      BY <1>2, <1>4 DEF Confirmed
    <2>3. \A v \in TurnWorkers : Confirmed(workers'[v], confirming')
      BY <1>3, <2>1, <2>2
    <2> QED BY <2>3 DEF RunsAreConfirmed, Confirmed, InHook
  <1>5. Confirmed(IdleProcess, confirming) /\ Confirmed(IdleProcess, confirming')
    BY DEF IdleProcess, Confirmed
  <1>6. ASSUME NEW w \in TurnWorkers, Answers(w) PROVE RunsAreConfirmed'
    BY <1>1, <1>4, <1>5, <1>6, AnswersIs, IdleIsSound
  <1>7. ASSUME NEW w \in TurnWorkers, WorkerStep(w) PROVE RunsAreConfirmed'
    BY <1>4, <1>6, <1>7, StepsConfirm DEF Moves
  <1>8. ASSUME NEW w \in TurnWorkers,
               (\E m \in Messages : DriveCall(w, m)) \/ (\E o \in TurnOps : HookCall(w, o)) \/ OtherCall(w)
        PROVE  RunsAreConfirmed'
    <2>1. PICK p \in TurnRows : Calls(w, p)
      BY <1>1, <1>8, DriveCallIs, HookCallIs, OtherCallIs
    <2>2. Confirmed(p, confirming)
      BY <2>1 DEF Calls, Confirmed
    <2> QED BY <1>4, <2>1, <2>2 DEF Calls
  <1>9. CASE ServerRestarts
    <2>1. \A v \in TurnWorkers : workers'[v] = IdleProcess
      BY <1>9 DEF ServerRestarts
    <2> QED BY <2>1 DEF RunsAreConfirmed, Confirmed, IdleProcess
  <1>10. ASSUME NEW w \in TurnWorkers, WorkerDies(w) PROVE Answers(w)
    BY <1>10 DEF WorkerDies, Answers
  <1>11. CASE UNCHANGED workers
    BY <1>3, <1>11 DEF RunsAreConfirmed, Confirmed, InHook
  <1> QED BY <1>6, <1>7, <1>8, <1>9, <1>10, <1>11 DEF TurnsNext, turnVars, Send, OperationEnds

(* A worker finishes with a reply only when it has just made it, or when the *)
(* run that it worked for is parked.                                         *)
LEMMA FinishCompletes ==
    ASSUME TurnInv, NEW w \in TurnWorkers, WorkerStep(w)
    PROVE  \/ Answers(w)
           \/ \E p \in TurnRows : /\ Moves(w, p)
                                  /\ p.step = "finish" /\ p.result = "completed" =>
                                        /\ p.turn \in Turns /\ p.turn = workers[w].turn
                                        /\ Replies(workers[w]) \/ WasAnswered(p.turn)
  <1>1. TurnWorkersSound /\ TurnsTypeOK /\ ParkedAreOwn
    BY DEF TurnInv
  <1>2. CASE Recover(w) \/ Remark(w)
    <2>1. \E p \in TurnRows : Moves(w, p) /\ p.step \in {"serve", "recover", "remark", "prepare"}
      BY <1>1, <1>2, RecoverIs, RemarkIs DEF StaysInTurn
    <2> QED BY <2>1
  <1>3. CASE ServeDrive(w)
    BY <1>1, <1>3, ServeDriveIs, TurnAssumption
  <1>4. CASE ServeHook(w)
    <2>1. workers[w].job.op \in DOMAIN turnOps
      BY <1>4, HeldHook DEF TurnInv, ServeHook
    <2>2. Answers(w) \/ \E p \in TurnRows : Moves(w, p) /\ p.step = "resume"
      BY <1>1, <1>4, <2>1, ServeHookIs
    <2> QED BY <2>2
  <1>5. CASE ServeOther(w)
    BY <1>5 DEF ServeOther, Answers
  <1>6. CASE ClaimNext(w)
    <2>1. Answers(w) \/ \E p \in TurnRows : Moves(w, p) /\ p.step \in {"prepare", "claim"}
      BY <1>1, <1>6, ClaimIs
    <2> QED BY <2>1
  <1>7. CASE Prepare(w)
    <2>1. Answers(w) \/ \E p \in TurnRows : Moves(w, p) /\ p.step # "finish"
      BY <1>1, <1>7, PrepareIs DEF StaysInTurn, Advances, Leaves
    <2> QED BY <2>1
  <1>15. CASE Confirm(w)
    <2>1. Answers(w) \/ \E p \in TurnRows : Moves(w, p) /\ p.step \in {"recover", "claim", "tell", "ask"}
      BY <1>1, <1>15, ConfirmIs DEF StaysInTurn, Advances, Leaves
    <2> QED BY <2>1
  <1>8. CASE TellOutcome(w)
    <2>1. \/ Answers(w)
          \/ \E p \in TurnRows : Moves(w, p) /\ p.step \in {"recover", "claim"}
          \/ \E p \in TurnRows : /\ Moves(w, p) /\ p.turn = workers[w].turn /\ p.turn \in Turns
                                 /\ Replies(workers[w])
      BY <1>1, <1>8, TellIs DEF StaysInTurn, Advances, Leaves
    <2> QED BY <2>1
  <1>9. CASE Ask(w) \/ CallTool(w)
    <2>1. \E p \in TurnRows : Moves(w, p) /\ p.step \in {"sorry", "tell", "park"}
      BY <1>1, <1>9, AskIs DEF StaysInTurn, Advances
    <2> QED BY <2>1
  <1>10. CASE Park(w)
    <2> DEFINE q == workers[w]
    <2>1. \/ Answers(w) \/ \E p \in TurnRows : Moves(w, p) /\ p.step \in {"recover", "claim"}
          \/ /\ ~InHook(q) /\ ~IsDirect(q.key)
             /\ \E p \in TurnRows : Moves(w, p) /\ p.turn = q.turn
      BY <1>1, <1>10, ParkIs DEF StaysInTurn, Advances, Leaves, Answers
    <2>2. q.step = "park" /\ q.turn \in Turns /\ q.loop.op # 0
      BY <1>1, <1>10, ParkIs DEF TurnWorkersSound, SoundTurn
    <2>3. ASSUME ~InHook(q), ~IsDirect(q.key) PROVE WasAnswered(q.turn)
      <3>1. q.turn[1] \in confirming
        BY <2>2, <2>3 DEF TurnInv, RunsAreConfirmed, Confirmed
      <3>2. /\ q.loop.op \in DOMAIN turnOps /\ turnOps[q.loop.op].turn = q.turn
            /\ turnOps[q.loop.op].key = q.key
        BY <1>1, <2>2 DEF ParkedAreOwn, ParksOwn, WaitsFor
      <3> QED BY <2>3, <3>1, <3>2 DEF WasAnswered, Executed
    <2> QED BY <2>1, <2>2, <2>3
  <1>11. CASE ApplyResponse(w) \/ ApplyTool(w)
    <2>1. \E p \in TurnRows : Moves(w, p) /\ p.step \in {"sorry", "reply", "tool", "ask"}
      BY <1>1, <1>11, ApplyResponseIs, ApplyToolIs DEF StaysInTurn, Advances
    <2> QED BY <2>1
  <1>12. CASE Reply(w)
    <2>1. \/ Answers(w)
          \/ \E p \in TurnRows : /\ Moves(w, p) /\ p.turn = workers[w].turn /\ p.turn \in Turns
                                 /\ Replies(workers[w])
      BY <1>1, <1>12, ReplyIs DEF StaysInTurn, Advances, Answers
    <2> QED BY <2>1
  <1>13. CASE Sorry(w)
    <2>1. Answers(w) \/ \E p \in TurnRows : /\ Moves(w, p)
                                            /\ p.step \in {"recover", "claim"} \/ p.result = "failed"
      BY <1>1, <1>13, SorryIs DEF StaysInTurn, Advances, Leaves, Answers
    <2> QED BY <2>1
  <1>14. CASE MarkResult(w)
    <2>1. Answers(w) \/ \E p \in TurnRows : Moves(w, p) /\ p.step \in {"recover", "claim"}
      BY <1>1, <1>14, MarkIs DEF Leaves, Answers
    <2> QED BY <2>1
  <1> QED BY <1>2, <1>3, <1>4, <1>5, <1>6, <1>7, <1>8, <1>9, <1>10, <1>11, <1>12, <1>13, <1>14, <1>15
        DEF WorkerStep

AnsweredTurns == {t \in Turns : WasAnswered(t)}

LEMMA AnsweredStay ==
    ASSUME TurnInv, [TurnsNext]_turnVars
    PROVE  AnsweredTurns \subseteq AnsweredTurns'
  <1> SUFFICES ASSUME NEW t \in Turns, WasAnswered(t) PROVE WasAnswered(t)'
    BY DEF AnsweredTurns
  <1>1. said \subseteq said' /\ confirming \subseteq confirming' /\ OpsMove
    BY TablesStay, OpsStay
  <1>2. Executed(t) => Executed(t)'
    BY <1>1 DEF Executed, OpsMove
  <1> QED BY <1>1, <1>2 DEF WasAnswered

FinishesSaid(p, told) == p.step = "finish" /\ p.result = "completed" => p.turn \in told

LEMMA CompletedStay ==
    ASSUME TurnInv, [TurnsNext]_turnVars
    PROVE  CompletedWereSaid'
  <1>1. TurnWorkersSound /\ TurnsTypeOK /\ TurnsWereSent /\ CompletedWereSaid
    BY DEF TurnInv
  <1> DEFINE told == AnsweredTurns'
  <1>2. AnsweredTurns \subseteq told /\ ReceiptsMove /\ DOMAIN receipts = Turns
    BY TablesStay, AnsweredStay
  <1>3. \A t \in Turns : receipts'[t] = "completed" => WasAnswered(t)'
    <2>1. \A t \in Turns : receipts'[t] = "completed" => WasAnswered(t)
      BY <1>1, <1>2 DEF CompletedWereSaid, ReceiptsMove, Marks, MarkReceipt
    <2> QED BY <1>2, <2>1 DEF AnsweredTurns
  <1>4. \A v \in TurnWorkers : FinishesSaid(workers[v], told)
    <2> TAKE v \in TurnWorkers
    <2>1. workers[v].step = "finish" => workers[v].turn \in Turns
      BY <1>1 DEF TurnWorkersSound, SoundTurn
    <2> QED BY <1>1, <1>2, <2>1 DEF CompletedWereSaid, FinishesSaid, AnsweredTurns
  <1>5. ASSUME NEW w \in TurnWorkers, NEW p \in TurnRows, FinishesSaid(p, told),
               workers' = [workers EXCEPT ![w] = p]
        PROVE  \A v \in TurnWorkers : FinishesSaid(workers'[v], told)
    BY <1>1, <1>4, <1>5 DEF TurnWorkersSound
  <1>6. FinishesSaid(IdleProcess, told)
    BY DEF IdleProcess, FinishesSaid
  <1>7. ASSUME NEW w \in TurnWorkers, Answers(w)
        PROVE  \A v \in TurnWorkers : FinishesSaid(workers'[v], told)
    BY <1>1, <1>5, <1>6, <1>7, AnswersIs, IdleIsSound
  <1>8. ASSUME NEW w \in TurnWorkers, WorkerStep(w)
        PROVE  \A v \in TurnWorkers : FinishesSaid(workers'[v], told)
    <2>1. ASSUME NEW p \in TurnRows, p.turn \in Turns, p.turn = workers[w].turn,
                 Replies(workers[w]) \/ WasAnswered(p.turn)
          PROVE  p.turn \in told
      <3>1. CASE WasAnswered(p.turn)
        BY <1>2, <2>1, <3>1 DEF AnsweredTurns
      <3>2. CASE Replies(workers[w])
        <4>1. Sent(p.turn[1]) /\ p.turn[2] \in TurnAgents /\ Says(p.turn[2])
          BY <1>1, <2>1, <3>2, TurnParts DEF TurnsWereSent, NoTurn, Replies
        <4>2. p.turn \in said'
          BY <1>1, <2>1, <4>1, SaysIs
        <4> QED BY <2>1, <4>2 DEF AnsweredTurns, WasAnswered
      <3> QED BY <2>1, <3>1, <3>2
    <2>2. \/ Answers(w)
          \/ \E p \in TurnRows : FinishesSaid(p, told) /\ Moves(w, p)
      BY <1>8, <2>1, FinishCompletes DEF FinishesSaid
    <2> QED BY <1>5, <1>7, <2>2 DEF Moves
  <1>9. ASSUME NEW w \in TurnWorkers,
               (\E m \in Messages : DriveCall(w, m)) \/ (\E o \in TurnOps : HookCall(w, o)) \/ OtherCall(w)
        PROVE  \A v \in TurnWorkers : FinishesSaid(workers'[v], told)
    <2>1. PICK p \in TurnRows : Calls(w, p)
      BY <1>1, <1>9, DriveCallIs, HookCallIs, OtherCallIs
    <2>2. FinishesSaid(p, told)
      BY <2>1 DEF Calls, FinishesSaid
    <2> QED BY <1>5, <2>1, <2>2 DEF Calls
  <1>10. CASE ServerRestarts
    <2>1. \A v \in TurnWorkers : workers'[v].step = "idle"
      BY <1>10 DEF ServerRestarts, IdleProcess
    <2> QED BY <1>3, <2>1 DEF CompletedWereSaid, WasAnswered, Executed
  <1>11. ASSUME NEW w \in TurnWorkers, WorkerDies(w) PROVE Answers(w)
    BY <1>11 DEF WorkerDies, Answers
  <1>12. \/ ServerRestarts \/ \A v \in TurnWorkers : FinishesSaid(workers'[v], told)
    BY <1>4, <1>7, <1>8, <1>9, <1>11 DEF TurnsNext, turnVars, Send, OperationEnds
  <1>13. CASE \A v \in TurnWorkers : FinishesSaid(workers'[v], told)
    <2>1. \A v \in TurnWorkers : workers'[v].step = "finish" /\ workers'[v].result = "completed"
                => WasAnswered(workers[v].turn)'
      BY <1>13 DEF FinishesSaid, AnsweredTurns, WasAnswered, Executed
    <2> QED BY <1>3, <2>1 DEF CompletedWereSaid, WasAnswered, Executed
  <1> QED BY <1>10, <1>12, <1>13

LEMMA OpsStayEnded ==
    ASSUME TurnInv, [TurnsNext]_turnVars, NEW o \in DOMAIN turnOps, turnOps[o].status # "running"
    PROVE  o \in DOMAIN turnOps' /\ turnOps'[o].status # "running"
  <1>1. TurnWorkersSound /\ TurnsTypeOK
    BY DEF TurnInv
  <1>2. CASE UNCHANGED turnOps
    BY <1>2
  <1>3. ASSUME NEW w \in TurnWorkers, WorkerStep(w) PROVE turnOps'[o].status # "running"
    BY <1>1, <1>2, <1>3, OpsDoMove, OpsAppendIs DEF OpsAppend
  <1>4. ASSUME NEW u \in TurnOps, OperationEnds(u) PROVE turnOps'[o].status # "running"
    BY <1>4 DEF OperationEnds
  <1>5. CASE ServerRestarts
    BY <1>5 DEF ServerRestarts
  <1>6. o \in DOMAIN turnOps'
    BY OpsStay DEF OpsMove
  <1> QED BY <1>2, <1>3, <1>4, <1>5, <1>6 DEF TurnsNext, turnVars, Send, DriveCall, HookCall, OtherCall, WorkerDies

(* Each worker with a hook has it for itself. *)
HooksAreHeld ==
    /\ \A w \in TurnWorkers : workers[w].job.kind = "hook" => hooks[workers[w].job.op].state = "taken"
    /\ \A v, w \in TurnWorkers :
          /\ workers[v].job.kind = "hook" /\ workers[w].job.kind = "hook"
          /\ workers[v].job.op = workers[w].job.op
          => v = w

LEMMA HooksAreStillHeld ==
    ASSUME TurnInv, [TurnsNext]_turnVars
    PROVE  HooksAreHeld'
  <1>1. TurnWorkersSound /\ TurnsTypeOK /\ HooksAreTaken /\ HooksAreHeld /\ workers \in [TurnWorkers -> TurnRows]
    BY DEF TurnInv, HooksAreTaken, HooksAreHeld, TurnWorkersSound
  <1>2. ASSUME NEW w \in TurnWorkers, Answers(w) PROVE HooksAreHeld'
    <2>1. /\ \A v \in TurnWorkers : workers'[v] = IF v = w THEN IdleProcess ELSE workers[v]
          /\ IdleProcess.job.kind = "none"
          /\ \A o \in TurnOps : (workers[w].job.kind = "hook" /\ workers[w].job.op = o)
                 \/ hooks'[o] = hooks[o]
      BY <1>1, <1>2, AnswersIs DEF IdleProcess, NoJob
    <2>2. \A v \in TurnWorkers : workers[v].job.kind = "hook" => workers[v].job.op \in TurnOps
      BY <1>1, HeldHook
    <2> QED BY <1>1, <2>1, <2>2 DEF HooksAreHeld
  <1>3. ASSUME NEW w \in TurnWorkers, NEW p \in TurnRows, Moves(w, p) PROVE HooksAreHeld'
    <2>1. /\ \A v \in TurnWorkers : workers'[v].job = workers[v].job
          /\ hooks' = hooks
      BY <1>1, <1>3 DEF Moves
    <2> QED BY <1>1, <2>1 DEF HooksAreHeld
  <1>4. ASSUME NEW w \in TurnWorkers, NEW p \in TurnRows, Calls(w, p), p.job.kind # "hook", UNCHANGED hooks
        PROVE  HooksAreHeld'
    <2>1. /\ \A v \in TurnWorkers : workers'[v] = IF v = w THEN p ELSE workers[v]
      BY <1>1, <1>4 DEF Calls
    <2> QED BY <1>1, <1>4, <2>1 DEF HooksAreHeld
  <1>5. ASSUME NEW w \in TurnWorkers, NEW o \in TurnOps, HookCall(w, o) PROVE HooksAreHeld'
    <2>1. PICK p \in TurnRows : Calls(w, p) /\ p.job.kind = "hook" /\ p.job.op = o
      BY <1>1, <1>5, HookCallIs
    <2>2. hooks[o].state = "due" /\ hooks' = [hooks EXCEPT ![o].state = "taken"]
      BY <1>1, <1>5, HookCallIs
    <2>3. \A v \in TurnWorkers : workers'[v] = IF v = w THEN p ELSE workers[v]
      BY <1>1, <2>1 DEF Calls
    <2>4. \A u \in TurnOps : hooks'[u].state = IF u = o THEN "taken" ELSE hooks[u].state
      BY <1>1, <2>2, TurnHookFields DEF TurnsTypeOK
    <2>5. \A v \in TurnWorkers : workers[v].job.kind = "hook" => workers[v].job.op \in TurnOps
      BY <1>1, HeldHook
    <2> QED BY <1>1, <2>1, <2>2, <2>3, <2>4, <2>5 DEF HooksAreHeld
  <1>6. ASSUME NEW o \in TurnOps, OperationEnds(o) PROVE HooksAreHeld'
    <2>1. hooks[o].state = "none" /\ hooks' = [hooks EXCEPT ![o].state = "due"] /\ workers' = workers
      BY <1>1, <1>6 DEF OperationEnds, HooksAreTaken
    <2>2. \A v \in TurnWorkers : workers[v].job.kind = "hook" => workers[v].job.op \in TurnOps
      BY <1>1, HeldHook
    <2> QED BY <1>1, <2>1, <2>2 DEF HooksAreHeld
  <1>7. CASE ServerRestarts
    <2>1. \A v \in TurnWorkers : workers'[v].job.kind = "none"
      BY <1>7 DEF ServerRestarts, IdleProcess, NoJob
    <2> QED BY <2>1 DEF HooksAreHeld
  <1>8. CASE UNCHANGED <<workers, hooks>>
    BY <1>1, <1>8 DEF HooksAreHeld
  <1>9. ASSUME NEW w \in TurnWorkers, WorkerStep(w) PROVE HooksAreHeld'
    BY <1>2, <1>3, <1>9, WorkerStepShape
  <1>10. ASSUME NEW w \in TurnWorkers, NEW m \in Messages, DriveCall(w, m) PROVE HooksAreHeld'
    <2>1. \E p \in TurnRows : Calls(w, p) /\ p.job.kind = "drive"
      BY <1>1, <1>10, DriveCallIs
    <2> QED BY <1>4, <1>10, <2>1 DEF DriveCall
  <1>11. ASSUME NEW w \in TurnWorkers, OtherCall(w) PROVE HooksAreHeld'
    <2>1. \E p \in TurnRows : Calls(w, p) /\ p.job.kind = "other"
      BY <1>1, <1>11, OtherCallIs
    <2> QED BY <1>4, <1>11, <2>1 DEF OtherCall
  <1>12. ASSUME NEW w \in TurnWorkers, WorkerDies(w) PROVE HooksAreHeld'
    BY <1>2, <1>12 DEF WorkerDies, Answers
  <1> QED BY <1>5, <1>6, <1>7, <1>8, <1>9, <1>10, <1>11, <1>12 DEF TurnsNext, turnVars, Send

LEMMA HooksStayTaken ==
    ASSUME TurnInv, [TurnsNext]_turnVars
    PROVE  HooksAreTaken'
  <1>1. TurnWorkersSound /\ TurnsTypeOK /\ HooksAreTaken
    BY DEF TurnInv
  <1>2. ASSUME NEW o \in TurnOps, hooks'[o].state # "none", hooks[o].state = "none" PROVE OperationEnds(o)
    <2>1. CASE \E w \in TurnWorkers : workers[w].job.kind = "hook" /\ Answers(w)
      <3>1. PICK w \in TurnWorkers : workers[w].job.kind = "hook" /\ Answers(w)
        BY <2>1
      <3>2. hooks[workers[w].job.op].state = "taken" /\ hooks'[o] = hooks[o]
        BY <1>1, <1>2, <3>1, HeldHook, AnswersIs
      <3> QED BY <1>2, <3>2
    <2>2. CASE ServerRestarts
      BY <1>2, <2>2 DEF ServerRestarts
    <2>3. ASSUME NEW u \in TurnOps, hooks[u].state = "due", hooks' = [hooks EXCEPT ![u].state = "taken"]
          PROVE  FALSE
      BY <1>2, <2>3
    <2>4. ASSUME NEW u \in TurnOps, OperationEnds(u) PROVE u = o
      BY <1>2, <2>4 DEF OperationEnds
    <2> QED BY <1>2, <2>1, <2>2, <2>3, <2>4, HooksDoMove DEF HooksMove
  <1>3. \A o \in TurnOps : hooks'[o].state # "none" => o \in DOMAIN turnOps' /\ turnOps'[o].status # "running"
    <2> TAKE o \in TurnOps
    <2>1. CASE hooks[o].state # "none"
      BY <1>1, <2>1, OpsStayEnded DEF HooksAreTaken
    <2>2. CASE hooks[o].state = "none" /\ hooks'[o].state # "none"
      <3>1. OperationEnds(o)
        BY <1>2, <2>2
      <3>2. o \in DOMAIN turnOps
        BY <1>1, <3>1, LenProperties DEF OperationEnds, TurnsTypeOK, TurnOps
      <3>3. PICK status \in {"succeeded", "failed"} : turnOps' = [turnOps EXCEPT ![o].status = status]
        BY <3>1 DEF OperationEnds
      <3>4. turnOps[o] \in [turn : Turns, key : LoopIds, kind : {"provider", "runtime"},
                            status : {"running", "succeeded", "failed", "abandoned"}]
        BY <1>1, <3>2, TurnOpFields, ElementOfSeq DEF TurnsTypeOK
      <3>5. o \in DOMAIN turnOps' /\ turnOps'[o] = [turnOps[o] EXCEPT !.status = status]
        BY <3>2, <3>3
      <3> QED BY <3>4, <3>5
    <2> QED BY <2>1, <2>2
  <1>4. \A o \in TurnOps : hooks'[o].state \in {"none", "due", "taken"} => hooks'[o].attempts < MaxDeliveries
    BY HooksStayTyped DEF HookIsDue
  <1> QED BY <1>3, <1>4, HooksAreStillHeld DEF HooksAreTaken, HooksAreHeld

-----------------------------------------------------------------------------
(* The turns of a conversation: where a step takes a worker.                 *)

(* How a worker has come past its recovery, to a new operation, to a reply. *)
PastFrom(w, p) ==
    Past(p) =>
        \/ /\ Past(workers[w]) /\ p.left = workers[w].left
           /\ p.job.kind = "hook" => p.key = workers[w].key
        \/ p.job.kind = "drive" /\ p.left = Addressed[p.job.message]
        \/ /\ p.job.kind = "drive" /\ Past(workers[w])
           /\ workers[w].left # <<>> /\ p.left = Tail(workers[w].left)
           /\ receipts'[<<p.job.message, Head(workers[w].left)>>] # "none"
        \/ /\ p.job.kind = "hook" /\ p.job.op \in DOMAIN turnOps /\ p.key = turnOps[p.job.op].key
           /\ rows[p.key].op = p.job.op /\ p.key \in LoopIds /\ p.step = "resume"
           /\ UNCHANGED <<rows, turnOps>>
ParkFrom(w, p) ==
    p.step = "park" =>
        /\ p.turn \in Turns /\ p.key \in LoopIds /\ p.loop.op = Len(turnOps) + 1 /\ UNCHANGED rows
        /\ p.loop.kind \in {"provider", "runtime"} /\ (p.loop.kind = "runtime" => p.loop.calls > 0)
        /\ turnOps' = Append(turnOps, [turn |-> p.turn, key |-> p.key, kind |-> p.loop.kind,
                                       status |-> "running"])
ReplyFrom(w, p) ==
    p.step = "reply" => /\ p.key \in LoopIds /\ p.key = workers[w].key
                        /\ rows' = [rows EXCEPT ![p.key] = NoRow]
TurnGoesOn(w, p) == Moves(w, p) /\ PastFrom(w, p) /\ ParkFrom(w, p) /\ ReplyFrom(w, p)

LEMMA StaysOn ==
    ASSUME NEW w \in TurnWorkers, NEW p \in TurnRows, StaysInTurn(w, p),
           workers[w].step \notin {"idle", "recover", "serve"},
           workers[w].recovering \/ workers[w].job.kind = "drive" \/ p.key = workers[w].key
    PROVE  Moves(w, p) /\ PastFrom(w, p)
  BY DEF StaysInTurn, Moves, PastFrom, Past

LEMMA AdvancesOn ==
    ASSUME NEW w \in TurnWorkers, NEW p \in TurnRows, Advances(w, p),
           workers[w].step \notin {"idle", "recover", "serve"}
    PROVE  Moves(w, p) /\ PastFrom(w, p)
  BY StaysOn DEF Advances

LEMMA LeavesOn ==
    ASSUME NEW w \in TurnWorkers, NEW p \in TurnRows, Leaves(w, p),
           workers[w].step \notin {"idle", "recover", "serve"}
    PROVE  TurnGoesOn(w, p)
  <1>1. p.step \in {"recover", "claim"} /\ Moves(w, p)
    BY DEF Leaves
  <1>2. PastFrom(w, p)
    <2>1. CASE workers[w].recovering
      BY <2>1 DEF Leaves, PastFrom, Past
    <2>2. CASE ~workers[w].recovering
      <3>1. p.step = "claim" /\ ~p.recovering /\ p.job.kind = "drive" /\ p.left = workers[w].left
        BY <2>2 DEF Leaves, Moves, SoundTurn
      <3> QED BY <2>2, <3>1 DEF PastFrom, Past
    <2> QED BY <2>1, <2>2
  <1> QED BY <1>1, <1>2 DEF TurnGoesOn, ParkFrom, ReplyFrom

LEMMA WorkerGoesOn ==
    ASSUME TurnInv, NEW w \in TurnWorkers, WorkerStep(w)
    PROVE  Answers(w) \/ \E p \in TurnRows : TurnGoesOn(w, p)
  <1> DEFINE q == workers[w]
  <1>1. TurnWorkersSound /\ TurnsTypeOK /\ ParkedAreOwn
    BY DEF TurnInv
  <1>2. CASE Recover(w) \/ Remark(w)
    <2>1. \E p \in TurnRows : /\ Moves(w, p) /\ p.step \in {"serve", "recover", "remark", "prepare"}
                              /\ p.step \in {"remark", "prepare"} => p.recovering
      BY <1>1, <1>2, RecoverIs, RemarkIs DEF StaysInTurn
    <2> QED BY <2>1 DEF TurnGoesOn, PastFrom, ParkFrom, ReplyFrom, Past
  <1>3. CASE ServeDrive(w)
    <2>1. Answers(w) \/ \E p \in TurnRows : /\ Moves(w, p) /\ p.step = "claim" /\ ~p.recovering
                                            /\ p.left = Addressed[p.job.message]
      BY <1>1, <1>3, ServeDriveIs, TurnAssumption
    <2> QED BY <2>1 DEF TurnGoesOn, PastFrom, ParkFrom, ReplyFrom, Moves, SoundTurn
  <1>4. CASE ServeHook(w)
    <2>1. q.job.op \in DOMAIN turnOps /\ q.job.kind = "hook"
      BY <1>4, HeldHook DEF TurnInv, ServeHook
    <2>2. Answers(w) \/ \E p \in TurnRows : /\ Moves(w, p) /\ p.step = "resume"
                                            /\ p.key = turnOps[p.job.op].key /\ rows[p.key].op = p.job.op
      BY <1>1, <1>4, <2>1, ServeHookIs
    <2>3. UNCHANGED <<rows, turnOps>>
      BY <1>4 DEF ServeHook, runTables
    <2>4. turnOps[q.job.op].key \in LoopIds
      BY <1>1, <2>1, TurnOpFields
    <2> QED BY <2>1, <2>2, <2>3, <2>4 DEF TurnGoesOn, PastFrom, ParkFrom, ReplyFrom, Moves
  <1>5. CASE ServeOther(w)
    BY <1>5 DEF ServeOther, Answers
  <1>6. CASE ClaimNext(w)
    <2> DEFINE t == <<q.job.message, Head(q.left)>>
    <2>1. /\ q.job.kind = "drive" /\ q.step = "claim" /\ ~q.recovering
          /\ \/ Answers(w)
             \/ q.left # <<>> /\ t \in Turns /\ receipts'[t] # "none" /\ \E p \in TurnRows :
                   /\ Moves(w, p) /\ p.left = Tail(q.left) /\ p.step \in {"prepare", "claim"}
      <3>1. DOMAIN receipts = Turns
        BY <1>1 DEF TurnsTypeOK
      <3> QED BY <1>1, <1>6, <3>1, ClaimIs DEF MarkReceipt
    <2> HIDE DEF t
    <2> QED BY <2>1 DEF TurnGoesOn, PastFrom, ParkFrom, ReplyFrom, Moves, Past, t
  <1>7. CASE Prepare(w)
    <2>1. \/ Answers(w) \/ \E p \in TurnRows : Leaves(w, p)
          \/ \E p \in TurnRows : Advances(w, p) /\ p.step \in {"confirm", "tell", "ask"}
      BY <1>1, <1>7, PrepareIs
    <2> QED BY <1>7, <2>1, LeavesOn, AdvancesOn DEF TurnGoesOn, ParkFrom, ReplyFrom, Prepare
  <1>8. CASE TellOutcome(w)
    <2>1. \/ Answers(w) \/ \E p \in TurnRows : Leaves(w, p)
          \/ \E p \in TurnRows : Advances(w, p) /\ p.step = "finish"
      BY <1>1, <1>8, TellIs
    <2> QED BY <1>8, <2>1, LeavesOn, AdvancesOn DEF TurnGoesOn, ParkFrom, ReplyFrom, TellOutcome
  <1>16. CASE Confirm(w)
    <2>1. /\ q.step = "confirm" /\ (q.recovering \/ q.job.kind = "drive")
          /\ \/ Answers(w) \/ \E p \in TurnRows : Leaves(w, p)
             \/ \E p \in TurnRows : StaysInTurn(w, p) /\ p.step \in {"ask", "tell"}
      BY <1>1, <1>16, ConfirmIs DEF Advances
    <2> QED BY <2>1, LeavesOn, StaysOn DEF TurnGoesOn, ParkFrom, ReplyFrom
  <1>9. CASE Ask(w) \/ CallTool(w)
    <2>0. q.step \in {"ask", "tool"} /\ q.turn \in Turns /\ q.key \in LoopIds /\ UNCHANGED rows
      BY <1>1, <1>9, AskIs DEF Ask, CallTool, runTables, TurnWorkersSound, SoundTurn, Acts
    <2>1. PICK p \in TurnRows : 
              \/ /\ Advances(w, p) /\ p.step \in {"sorry", "tell"} /\ UNCHANGED turnOps
                 /\ p.step = "tell" => workers[w].step = "ask"
              \/ \E kind \in {"provider", "runtime"} :
                 /\ Advances(w, p) /\ p.step = "park" /\ p.loop.op = Len(turnOps) + 1
                 /\ p.loop.kind = kind /\ (kind = "runtime" => p.loop.calls > 0)
                 /\ Len(turnOps) < MaxTurnOps
                 /\ turnOps' = Append(turnOps, [turn |-> p.turn, key |-> p.key, kind |-> kind,
                                             status |-> "running"])
      BY <1>1, <1>9, AskIs
    <2>2. Advances(w, p) /\ p.step \in {"sorry", "tell", "park"} /\ ParkFrom(w, p)
      BY <2>0, <2>1 DEF StaysInTurn, Advances, ParkFrom
    <2> QED BY <2>0, <2>2, AdvancesOn DEF TurnGoesOn, ReplyFrom
  <1>10. CASE Park(w)
    <2>1. \/ Answers(w) \/ \E p \in TurnRows : Leaves(w, p)
          \/ \E p \in TurnRows : Advances(w, p) /\ p.step = "finish"
      BY <1>1, <1>10, ParkIs DEF Answers
    <2> QED BY <1>10, <2>1, LeavesOn, AdvancesOn DEF TurnGoesOn, ParkFrom, ReplyFrom, Park
  <1>11. CASE ApplyResponse(w)
    <2>1. q.step = "resume" /\ q.key \in LoopIds
      BY <1>1, <1>11, ApplyResponseIs
    <2>2. \E p \in TurnRows : /\ Advances(w, p) /\ p.step \in {"sorry", "reply", "tool"}
                              /\ p.step = "reply" => DeleteRow(q.key)
      BY <1>1, <1>11, ApplyResponseIs
    <2> QED BY <2>1, <2>2, AdvancesOn DEF TurnGoesOn, ParkFrom, ReplyFrom, DeleteRow, Advances
  <1>12. CASE ApplyTool(w)
    <2>1. q.step = "resume" /\ \E p \in TurnRows : Advances(w, p) /\ p.step \in {"tool", "ask"}
      BY <1>1, <1>12, ApplyToolIs
    <2> QED BY <2>1, AdvancesOn DEF TurnGoesOn, ParkFrom, ReplyFrom
  <1>13. CASE Reply(w)
    <2>1. q.step = "reply" /\ (Answers(w) \/ \E p \in TurnRows : Advances(w, p) /\ p.step = "finish")
      BY <1>1, <1>13, ReplyIs DEF Answers
    <2> QED BY <2>1, AdvancesOn DEF TurnGoesOn, ParkFrom, ReplyFrom
  <1>14. CASE Sorry(w)
    <2>1. /\ q.step = "sorry"
          /\ \/ Answers(w) \/ \E p \in TurnRows : Leaves(w, p)
             \/ \E p \in TurnRows : Advances(w, p) /\ p.step = "finish"
      BY <1>1, <1>14, SorryIs DEF Answers
    <2> QED BY <2>1, LeavesOn, AdvancesOn DEF TurnGoesOn, ParkFrom, ReplyFrom
  <1>15. CASE MarkResult(w)
    <2>1. q.step = "finish" /\ (Answers(w) \/ \E p \in TurnRows : Leaves(w, p))
      BY <1>1, <1>15, MarkIs DEF Answers
    <2> QED BY <2>1, LeavesOn
  <1> QED BY <1>2, <1>3, <1>4, <1>5, <1>6, <1>7, <1>8, <1>9, <1>10, <1>11, <1>12, <1>13, <1>14, <1>15, <1>16
        DEF WorkerStep

LEMMA StepIsOne ==
    ASSUME TurnInv, [TurnsNext]_turnVars
    PROVE  \/ \E w \in TurnWorkers : WorkerStep(w) /\ \E p \in TurnRows : TurnGoesOn(w, p)
           \/ \E w \in TurnWorkers : Answers(w) /\ (WorkerStep(w) \/ UNCHANGED <<receipts, rows, rowTurn, turnOps>>)
           \/ \E w \in TurnWorkers : \E p \in TurnRows :
                 Calls(w, p) /\ UNCHANGED <<receipts, rows, rowTurn, turnOps>>
           \/ /\ \A w \in TurnWorkers : workers'[w] = IdleProcess
              /\ UNCHANGED <<receipts, rows, rowTurn>>
           \/ UNCHANGED <<workers, receipts, rows, rowTurn>>
  <1>1. TurnsTypeOK
    BY DEF TurnInv
  <1>2. ASSUME NEW w \in TurnWorkers, WorkerStep(w)
        PROVE  Answers(w) \/ \E p \in TurnRows : TurnGoesOn(w, p)
    BY <1>2, WorkerGoesOn
  <1>3. ASSUME NEW w \in TurnWorkers,
               (\E m \in Messages : DriveCall(w, m)) \/ (\E o \in TurnOps : HookCall(w, o)) \/ OtherCall(w)
        PROVE  /\ \E p \in TurnRows : Calls(w, p)
               /\ UNCHANGED <<receipts, rows, rowTurn, turnOps>>
    <2>1. \E p \in TurnRows : Calls(w, p)
      BY <1>1, <1>3, DriveCallIs, HookCallIs, OtherCallIs
    <2> QED BY <1>3, <2>1 DEF DriveCall, HookCall, OtherCall, runTables
  <1>4. ASSUME NEW w \in TurnWorkers, WorkerDies(w)
        PROVE  Answers(w) /\ UNCHANGED <<receipts, rows, rowTurn, turnOps>>
    BY <1>4 DEF WorkerDies, Answers, runTables
  <1>5. CASE ServerRestarts
    BY <1>5 DEF ServerRestarts, runTables
  <1>6. CASE UNCHANGED <<workers, receipts, rows, rowTurn>>
    BY <1>6
  <1> QED BY <1>2, <1>3, <1>4, <1>5, <1>6 DEF TurnsNext, turnVars, runTables, Send, OperationEnds

-----------------------------------------------------------------------------
(* The turns of a conversation: parked loops are resumed by their own.       *)

(* One worker has changed, and perhaps the row of its loop. *)
HookFrom(w, p) ==
    p.job.kind = "hook" /\ Past(p) =>
        \/ p.job = workers[w].job /\ Past(workers[w]) /\ p.key = workers[w].key
        \/ /\ p.job.op \in DOMAIN turnOps /\ p.key = turnOps[p.job.op].key
           /\ p.key \in LoopIds /\ rows[p.key].op = p.job.op /\ p.step = "resume"
OneChanges(w, p) ==
    /\ workers' = [workers EXCEPT ![w] = p] /\ p \in TurnRows /\ SoundTurn(p)
    /\ TurnRowsMove(w) /\ ParkFrom(w, p) /\ ReplyFrom(w, p) /\ HookFrom(w, p)
    /\ p.step = "park" => p.job = workers[w].job

LEMMA OneChangesIs ==
    ASSUME TurnInv, NEW w \in TurnWorkers, NEW p \in TurnRows, OneChanges(w, p)
    PROVE  /\ \A v \in TurnWorkers : workers'[v] = IF v = w THEN p ELSE workers[v]
           /\ \A v \in TurnWorkers : workers[v] \in TurnRows /\ SoundTurn(workers[v])
           /\ \A k \in LoopIds : \/ rows'[k] = rows[k]
                               \/ rows'[k].op = 0
                               \/ /\ workers[w].step = "park" /\ rows'[k] = workers[w].loop
                                  /\ k = workers[w].key
           /\ 0 \notin DOMAIN turnOps /\ (Len(turnOps) + 1) \notin DOMAIN turnOps /\ Len(turnOps) + 1 # 0
  <1>1. TurnWorkersSound /\ TurnsTypeOK /\ DOMAIN rows = LoopIds
    BY DEF TurnInv, TurnsTypeOK
  <1>2. NoRow.op = 0
    BY DEF NoRow
  <1>3. /\ \A v \in TurnWorkers : workers'[v] = IF v = w THEN p ELSE workers[v]
        /\ \A v \in TurnWorkers : workers[v] \in TurnRows /\ SoundTurn(workers[v])
    BY <1>1 DEF TurnWorkersSound, OneChanges
  <1>4. DOMAIN turnOps = 1..Len(turnOps) /\ Len(turnOps) \in Nat
    BY <1>1, LenProperties DEF TurnsTypeOK
  <1>5. \A k \in LoopIds : \/ rows'[k] = rows[k]
                         \/ rows'[k].op = 0
                         \/ /\ workers[w].step = "park" /\ rows'[k] = workers[w].loop
                            /\ k = workers[w].key
    BY <1>1 DEF OneChanges, TurnRowsMove, SaveRow
  <1> QED BY <1>3, <1>4, <1>5

LEMMA StillWaits ==
    ASSUME OpsMove, NEW k, NEW loop, WaitsFor(turnOps, k, loop)
    PROVE  WaitsFor(turnOps', k, loop)
  BY DEF OpsMove, WaitsFor

LEMMA StillParksOwn ==
    ASSUME OpsMove, NEW p, ParksOwn(turnOps, p)
    PROVE  ParksOwn(turnOps', p)
  BY StillWaits DEF OpsMove, ParksOwn, WaitsFor

LEMMA OwnStay ==
    ASSUME TurnInv, OpsMove, NEW w \in TurnWorkers, NEW p \in TurnRows, OneChanges(w, p)
    PROVE  ParkedAreOwn' /\ ResumedAreOwn'
  <1>1. TurnWorkersSound /\ TurnsTypeOK /\ ParkedAreOwn /\ ResumedAreOwn /\ HooksAreTaken
    BY DEF TurnInv
  <1>2. \A v \in TurnWorkers : workers'[v] = IF v = w THEN p ELSE workers[v]
    BY OneChangesIs
  <1>3. \A v \in TurnWorkers : workers[v] \in TurnRows /\ SoundTurn(workers[v])
    BY OneChangesIs
  <1>4. \A k \in LoopIds : \/ rows'[k] = rows[k]
                         \/ rows'[k].op = 0
                         \/ /\ workers[w].step = "park" /\ rows'[k] = workers[w].loop
                            /\ k = workers[w].key
    BY OneChangesIs
  <1>5. 0 \notin DOMAIN turnOps /\ (Len(turnOps) + 1) \notin DOMAIN turnOps /\ Len(turnOps) + 1 # 0
    BY OneChangesIs
  <1>6. p \in TurnRows /\ SoundTurn(p) /\ ParkFrom(w, p) /\ ReplyFrom(w, p) /\ HookFrom(w, p)
        /\ (p.step = "park" => p.job = workers[w].job)
    BY DEF OneChanges
  <1>7. \A v \in TurnWorkers : workers[v].step = "park" =>
            /\ workers[v].loop.op # 0 /\ workers[v].loop.op \in DOMAIN turnOps
            /\ ParksOwn(turnOps, workers[v])
            /\ \A k \in LoopIds : rows[k].op # workers[v].loop.op
            /\ \A u \in TurnWorkers :
                  /\ workers[u].step = "park" /\ workers[u].loop.op = workers[v].loop.op => u = v
                  /\ ~Resumes(workers[u], workers[v].loop.op)
    BY <1>1, <1>3 DEF ParkedAreOwn, ParksOwn, WaitsFor, SoundTurn
  <1>8. \A k \in LoopIds : WaitsFor(turnOps', k, rows'[k])
    <2> TAKE k \in LoopIds
    <2>1. CASE rows'[k] = rows[k]
      BY <1>1, <2>1, StillWaits DEF ParkedAreOwn
    <2>2. CASE rows'[k].op = 0
      BY <2>2 DEF WaitsFor
    <2>3. CASE workers[w].step = "park" /\ rows'[k] = workers[w].loop /\ k = workers[w].key
      <3>1. WaitsFor(turnOps, k, rows'[k])
        BY <1>7, <2>3 DEF ParksOwn
      <3> QED BY <3>1, StillWaits
    <2> QED BY <1>4, <2>1, <2>2, <2>3
  <1>9. p.step = "park" =>
            /\ p.loop.op = Len(turnOps) + 1 /\ UNCHANGED rows
            /\ ParksOwn(turnOps', p)
    <2> HAVE p.step = "park"
    <2>1. /\ p.turn \in Turns /\ p.key \in LoopIds /\ p.loop.op = Len(turnOps) + 1 /\ UNCHANGED rows
          /\ p.loop.kind \in {"provider", "runtime"} /\ (p.loop.kind = "runtime" => p.loop.calls > 0)
          /\ turnOps' = Append(turnOps, [turn |-> p.turn, key |-> p.key, kind |-> p.loop.kind,
                                         status |-> "running"])
      BY <1>6 DEF ParkFrom
    <2>2. LET n == Len(turnOps) + 1 IN
          /\ n \in DOMAIN turnOps' /\ turnOps'[n].turn = p.turn
             /\ turnOps'[n].key = p.key /\ turnOps'[n].kind = p.loop.kind
      BY <1>1, <2>1, OpsAppendIs
    <2> QED BY <2>1, <2>2 DEF ParksOwn, WaitsFor
  <1>10. ASSUME NEW v \in TurnWorkers, workers'[v].step = "park"
         PROVE  /\ ParksOwn(turnOps', workers'[v])
                /\ \A k \in LoopIds : rows'[k].op # workers'[v].loop.op
                /\ \A u \in TurnWorkers :
                      /\ workers'[u].step = "park" /\ workers'[u].loop.op = workers'[v].loop.op => u = v
                      /\ ~Resumes(workers'[u], workers'[v].loop.op)
    <2>1. CASE v # w
      <3> DEFINE o == workers[v].loop.op
      <3>1. workers'[v] = workers[v] /\ workers[v].step = "park" /\ o # 0 /\ o \in DOMAIN turnOps
        BY <1>2, <1>7, <1>10, <2>1
      <3>2. ParksOwn(turnOps', workers'[v])
        BY <1>7, <3>1, StillParksOwn
      <3>3. \A k \in LoopIds : rows'[k].op # o
        BY <1>4, <1>7, <2>1, <3>1
      <3>4. ASSUME NEW u \in TurnWorkers, workers'[u].step = "park", workers'[u].loop.op = o PROVE u = v
        BY <1>2, <1>5, <1>7, <1>9, <3>1, <3>4
      <3>5. ASSUME NEW u \in TurnWorkers, Resumes(workers'[u], o) PROVE FALSE
        <4>1. CASE u # w
          BY <1>2, <1>7, <3>1, <3>5, <4>1
        <4>2. CASE u = w
          <5>1. p.job.kind = "hook" /\ p.job.op = o /\ Past(p)
            BY <1>2, <3>5, <4>2 DEF Resumes
          <5>2. \/ p.job = workers[w].job /\ Past(workers[w])
                \/ p.key \in LoopIds /\ rows[p.key].op = o
            BY <1>6, <5>1 DEF HookFrom
          <5> QED BY <1>7, <3>1, <5>1, <5>2 DEF Resumes
        <4> QED BY <4>1, <4>2
      <3> QED BY <3>1, <3>2, <3>3, <3>4, <3>5
    <2>2. CASE v = w
      <3> DEFINE n == Len(turnOps) + 1
      <3>1. workers'[v] = p /\ p.step = "park" /\ p.loop.op = n /\ n \notin DOMAIN turnOps /\ n # 0 /\ UNCHANGED rows
        BY <1>2, <1>5, <1>9, <1>10, <2>2
      <3> HIDE DEF n
      <3>2. ParksOwn(turnOps', workers'[v])
        BY <1>9, <3>1
      <3>3. \A k \in LoopIds : rows'[k].op # n
        BY <1>1, <3>1 DEF ParkedAreOwn, WaitsFor
      <3>4. ASSUME NEW u \in TurnWorkers, workers'[u].step = "park", workers'[u].loop.op = n PROVE u = v
        BY <1>2, <1>7, <2>2, <3>1, <3>4
      <3>5. ASSUME NEW u \in TurnWorkers, Resumes(workers'[u], n) PROVE FALSE
        <4>1. workers'[u].job = workers[u].job
          BY <1>2, <1>6, <2>2, <3>1
        <4>2. workers[u].job.kind = "hook" /\ workers[u].job.op = n
          BY <3>5, <4>1 DEF Resumes
        <4> QED BY <1>1, <3>1, <4>2, HeldHook
      <3> QED BY <3>1, <3>2, <3>3, <3>4, <3>5
    <2> QED BY <2>1, <2>2
  <1>11. ParkedAreOwn'
    BY <1>8, <1>10 DEF ParkedAreOwn
  <1>12. ASSUME NEW v \in TurnWorkers, workers'[v].job.kind = "hook", Past(workers'[v])
         PROVE  LET q == workers'[v] IN
                /\ q.job.op \in DOMAIN turnOps' /\ turnOps'[q.job.op].key = q.key
                /\ q.step = "reply" => rows'[q.key].op # q.job.op
    <2>1. CASE v # w
      <3> DEFINE q == workers[v]
      <3>1. workers'[v] = q /\ q.job.kind = "hook" /\ Past(q) /\ q.job.op \in TurnOps
        BY <1>1, <1>2, <1>12, <2>1, HeldHook
      <3>2. /\ q.job.op \in DOMAIN turnOps /\ turnOps[q.job.op].key = q.key
            /\ q.step = "reply" => rows[q.key].op # q.job.op
        BY <1>1, <3>1 DEF ResumedAreOwn
      <3>3. q.key \in LoopIds
        BY <1>1, <3>2, TurnOpFields
      <3>4. workers[w].step = "park" => workers[w].loop.op # q.job.op
        BY <1>7, <3>1 DEF Resumes
      <3>5. q.job.op # 0
        BY <1>5, <3>2
      <3>6. q.step = "reply" => rows'[q.key].op # q.job.op
        BY <1>4, <3>2, <3>3, <3>4, <3>5
      <3> QED BY <3>1, <3>2, <3>6 DEF OpsMove
    <2>2. CASE v = w
      <3>1. workers'[v] = p /\ p.job.kind = "hook" /\ Past(p)
        BY <1>2, <1>12, <2>2
      <3>2. p.job.op \in DOMAIN turnOps /\ turnOps[p.job.op].key = p.key
        BY <1>1, <1>6, <3>1 DEF HookFrom, ResumedAreOwn
      <3>3. p.step = "reply" => rows'[p.key].op # p.job.op
        <4>1. p.step = "reply" => p.key \in LoopIds /\ rows'[p.key] = NoRow
          BY <1>1, <1>6 DEF ReplyFrom, TurnsTypeOK
        <4> QED BY <1>5, <3>2, <4>1 DEF NoRow
      <3> QED BY <3>1, <3>2, <3>3 DEF OpsMove
    <2> QED BY <2>1, <2>2
  <1>13. ResumedAreOwn'
    BY <1>12 DEF ResumedAreOwn
  <1> QED BY <1>11, <1>13

LEMMA OwnStays ==
    ASSUME TurnInv, [TurnsNext]_turnVars
    PROVE  ParkedAreOwn' /\ ResumedAreOwn'
  <1>1. TurnWorkersSound /\ TurnsTypeOK /\ OpsMove
    BY OpsStay DEF TurnInv
  <1>2. ASSUME NEW w \in TurnWorkers, NEW p \in TurnRows, WorkerStep(w), TurnGoesOn(w, p)
        PROVE  OneChanges(w, p)
    <2>1. HookFrom(w, p)
      BY <1>2 DEF TurnGoesOn, PastFrom, HookFrom, Moves
    <2> QED BY <1>2, <2>1, RowsDoMove DEF OneChanges, TurnGoesOn, Moves
  <1>3. ASSUME NEW w \in TurnWorkers, Answers(w), TurnRowsMove(w)
        PROVE  OneChanges(w, IdleProcess) /\ IdleProcess \in TurnRows
    <2>1. IdleProcess.step = "idle" /\ IdleProcess.job.kind = "none"
      BY DEF IdleProcess, NoJob
    <2> QED BY <1>1, <1>3, <2>1, AnswersIs, IdleIsSound DEF OneChanges, HookFrom, ParkFrom, ReplyFrom
  <1>4. ASSUME NEW w \in TurnWorkers, NEW p \in TurnRows, Calls(w, p), UNCHANGED <<rows, rowTurn>>
        PROVE  OneChanges(w, p)
    BY <1>4 DEF Calls, OneChanges, TurnRowsMove, HookFrom, ParkFrom, ReplyFrom, Past
  <1>5. ASSUME UNCHANGED rows, \A w \in TurnWorkers : workers'[w].step \notin {"park"} /\ ~Past(workers'[w])
        PROVE  ParkedAreOwn' /\ ResumedAreOwn'
    <2>1. \A k \in LoopIds : WaitsFor(turnOps', k, rows'[k])
      BY <1>1, <1>5, StillWaits DEF TurnInv, ParkedAreOwn
    <2> QED BY <1>5, <2>1 DEF ParkedAreOwn, ResumedAreOwn, Past
  <1>6. ASSUME UNCHANGED <<workers, rows>> PROVE ParkedAreOwn' /\ ResumedAreOwn'
    <2>1. ParkedAreOwn /\ ResumedAreOwn
      BY DEF TurnInv
    <2>2. \A k \in LoopIds : WaitsFor(turnOps', k, rows'[k])
      BY <1>1, <1>6, <2>1, StillWaits DEF ParkedAreOwn
    <2>3. \A w \in TurnWorkers : workers[w].step = "park" =>
              ParksOwn(turnOps', workers'[w])
      BY <1>1, <1>6, <2>1, StillParksOwn DEF ParkedAreOwn
    <2>4. ParkedAreOwn'
      BY <1>6, <2>1, <2>2, <2>3 DEF ParkedAreOwn, Resumes, Past
    <2>5. ResumedAreOwn'
      BY <1>1, <1>6, <2>1 DEF ResumedAreOwn, OpsMove, Past
    <2> QED BY <2>4, <2>5
  <1>7. CASE \E w \in TurnWorkers : WorkerStep(w) /\ \E p \in TurnRows : TurnGoesOn(w, p)
    BY <1>1, <1>2, <1>7, OwnStay
  <1>8. CASE \E w \in TurnWorkers : Answers(w) /\ (WorkerStep(w) \/ UNCHANGED <<receipts, rows, rowTurn, turnOps>>)
    <2>1. \E w \in TurnWorkers : Answers(w) /\ TurnRowsMove(w)
      BY <1>8, RowsDoMove DEF TurnRowsMove
    <2> QED BY <1>1, <1>3, <2>1, OwnStay
  <1>9. CASE \E w \in TurnWorkers : \E p \in TurnRows : Calls(w, p) /\ UNCHANGED <<receipts, rows, rowTurn, turnOps>>
    BY <1>1, <1>4, <1>9, OwnStay
  <1>10. CASE (\A w \in TurnWorkers : workers'[w] = IdleProcess) /\ UNCHANGED <<receipts, rows, rowTurn>>
    BY <1>5, <1>10, IdleIsSound DEF IdleProcess
  <1>11. CASE UNCHANGED <<workers, receipts, rows, rowTurn>>
    BY <1>6, <1>11
  <1> QED BY <1>7, <1>8, <1>9, <1>10, <1>11, StepIsOne

-----------------------------------------------------------------------------
(* The turns of a conversation: who is addressed.                            *)

(* Who is addressed is claimed, or still to come on the list. *)
ListCovers(m, left, marks) ==
    \A i \in DOMAIN Addressed[m] :
        \/ marks[<<m, Addressed[m][i]>>] # "none"
        \/ \E j \in DOMAIN left : left[j] = Addressed[m][i]

LEMMA ListStays ==
    ASSUME TurnInv, [TurnsNext]_turnVars, NEW m \in Messages, NEW left, ListCovers(m, left, receipts)
    PROVE  ListCovers(m, left, receipts')
  <1>1. \A t \in Turns : receipts[t] # "none" => receipts'[t] # "none"
    BY TablesStay DEF ReceiptsMove, Marks, MarkReceipt
  <1>2. \A i \in DOMAIN Addressed[m] : <<m, Addressed[m][i]>> \in Turns
    <2> TAKE i \in DOMAIN Addressed[m]
    <2>1. Addressed[m] \in Seq(TurnAgents)
      BY TurnAssumption
    <2>2. Addressed[m][i] \in TurnAgents
      BY <2>1, LenProperties, ElementOfSeq
    <2> QED BY <2>2 DEF Turns
  <1> QED BY <1>1, <1>2 DEF ListCovers

LEMMA ClaimedStay ==
    ASSUME TurnInv, [TurnsNext]_turnVars
    PROVE  AddressedAreClaimed'
  <1>1. TurnWorkersSound /\ TurnsTypeOK /\ AddressedAreClaimed
    BY DEF TurnInv
  <1>2. \A v \in TurnWorkers : /\ workers[v] \in TurnRows /\ SoundTurn(workers[v])
                               /\ Claims(workers[v]) =>
                                     ListCovers(workers[v].job.message, workers[v].left, receipts)
    BY <1>1 DEF TurnWorkersSound, AddressedAreClaimed, ListCovers
  <1>3. \A v \in TurnWorkers : Claims(workers[v]) =>
            ListCovers(workers[v].job.message, workers[v].left, receipts')
    BY <1>2, ListStays DEF SoundTurn, Claims
  <1> DEFINE Good(p) == Claims(p) => ListCovers(p.job.message, p.left, receipts')
  <1>4. ASSUME NEW w \in TurnWorkers, NEW p, workers' = [workers EXCEPT ![w] = p], Good(p)
        PROVE  \A v \in TurnWorkers : Good(workers'[v])
    <2>1. \A v \in TurnWorkers : workers'[v] = IF v = w THEN p ELSE workers[v]
      BY <1>1, <1>4 DEF TurnWorkersSound
    <2> QED BY <1>3, <1>4, <2>1
  <1>5. Good(IdleProcess)
    BY DEF IdleProcess, NoJob, Claims
  <1>6. ASSUME NEW w \in TurnWorkers, NEW p \in TurnRows, TurnGoesOn(w, p)
        PROVE  \A v \in TurnWorkers : Good(workers'[v])
    <2> DEFINE q == workers[w]
    <2>1. workers' = [workers EXCEPT ![w] = p] /\ p.job = q.job
      BY <1>6 DEF TurnGoesOn, Moves
    <2>2. ASSUME Claims(p) PROVE ListCovers(p.job.message, p.left, receipts')
      <3> DEFINE m == p.job.message
      <3>1. CASE Past(q) /\ p.left = q.left
        BY <1>3, <2>1, <2>2, <3>1 DEF Claims
      <3>2. CASE p.left = Addressed[p.job.message]
        BY <3>2 DEF ListCovers
      <3>3. CASE /\ Past(q) /\ q.left # <<>> /\ p.left = Tail(q.left)
                 /\ receipts'[<<p.job.message, Head(q.left)>>] # "none"
        <4>1. ListCovers(m, q.left, receipts')
          BY <1>3, <2>1, <2>2, <3>3 DEF Claims
        <4>2. PICK l \in Seq(TurnAgents) : l = q.left
          BY <1>2, TurnFields
        <4>3. ASSUME NEW j \in DOMAIN l, j # 1
              PROVE  j - 1 \in DOMAIN p.left /\ p.left[j - 1] = l[j]
          <5>1. /\ DOMAIN l = 1..Len(l) /\ Len(l) \in Nat /\ p.left = Tail(l) /\ l # <<>>
            BY <3>3, <4>2, LenProperties
          <5>2. /\ Tail(l) \in Seq(TurnAgents) /\ Len(Tail(l)) = Len(l) - 1
                /\ \A i \in 1..Len(Tail(l)) : Tail(l)[i] = l[i + 1]
            BY <5>1, HeadTailProperties
          <5>3. DOMAIN Tail(l) = 1..(Len(l) - 1)
            BY <5>2, LenProperties
          <5>4. j - 1 \in 1..(Len(l) - 1) /\ (j - 1) + 1 = j
            BY <4>3, <5>1
          <5> QED BY <5>1, <5>2, <5>3, <5>4
        <4>4. l[1] = Head(q.left)
          BY <3>3, <4>2
        <4>5. ASSUME NEW i \in DOMAIN Addressed[m],
                     \E j \in DOMAIN q.left : q.left[j] = Addressed[m][i]
              PROVE  \/ receipts'[<<m, Addressed[m][i]>>] # "none"
                     \/ \E j \in DOMAIN p.left : p.left[j] = Addressed[m][i]
          <5>1. PICK j \in DOMAIN l : l[j] = Addressed[m][i]
            BY <4>2, <4>5
          <5>2. CASE j = 1
            BY <3>3, <4>2, <4>4, <5>1, <5>2
          <5>3. CASE j # 1
            BY <4>3, <5>1, <5>3
          <5> QED BY <5>2, <5>3
        <4> QED BY <4>1, <4>5 DEF ListCovers
      <3> QED BY <1>6, <2>2, <3>1, <3>2, <3>3 DEF TurnGoesOn, PastFrom, Claims
    <2> QED BY <1>4, <2>1, <2>2
  <1>7. ASSUME NEW w \in TurnWorkers, NEW p \in TurnRows, Calls(w, p)
        PROVE  \A v \in TurnWorkers : Good(workers'[v])
    <2>1. Good(p)
      BY <1>7 DEF Calls, Claims, Past
    <2> QED BY <1>4, <1>7, <2>1 DEF Calls
  <1>8. ASSUME NEW w \in TurnWorkers, Answers(w)
        PROVE  \A v \in TurnWorkers : Good(workers'[v])
    BY <1>1, <1>4, <1>5, <1>8, AnswersIs
  <1>9. CASE \A w \in TurnWorkers : workers'[w] = IdleProcess
    BY <1>5, <1>9 DEF AddressedAreClaimed, ListCovers
  <1>10. CASE \A v \in TurnWorkers : Good(workers'[v])
    BY <1>10 DEF AddressedAreClaimed, ListCovers, Claims, Past
  <1>11. CASE UNCHANGED workers
    <2>1. \A v \in TurnWorkers : Good(workers'[v])
      BY <1>3, <1>11
    <2> QED BY <1>10, <2>1
  <1> QED BY <1>6, <1>7, <1>8, <1>9, <1>10, <1>11, StepIsOne

-----------------------------------------------------------------------------
(* The turns of a conversation: the balance of starts and replies.           *)

HooksFall == \A o \in TurnOps : HookComes(o)' => HookComes(o)

LEMMA MovesFall ==
    ASSUME TurnInv, NEW w \in TurnWorkers, NEW p \in TurnRows, Moves(w, p),
           workers[w].job.kind = "hook" /\ Past(workers[w]) => Past(p)
    PROVE  HooksFall
  <1>1. DOMAIN workers = TurnWorkers
    BY DEF TurnInv, TurnsTypeOK
  <1>2. /\ \A v \in TurnWorkers : workers'[v] = IF v = w THEN p ELSE workers[v]
        /\ p.job = workers[w].job /\ hooks' = hooks
    BY <1>1 DEF Moves
  <1>3. \A v \in TurnWorkers : \A o \in TurnOps : Awaits(workers'[v], o) => Awaits(workers[v], o)
    BY <1>2 DEF Awaits
  <1> QED BY <1>2, <1>3 DEF HooksFall, HookComes, Awaits, Past

LEMMA AnswersFall ==
    ASSUME TurnInv, NEW w \in TurnWorkers, Answers(w),
           workers[w].job.kind = "hook" /\ Past(workers[w]) => Respond(w, "ok")
    PROVE  HooksFall
  <1>1. TurnsTypeOK /\ TurnWorkersSound /\ HooksAreTaken
    BY DEF TurnInv
  <1>2. /\ \A v \in TurnWorkers : workers'[v] = IF v = w THEN IdleProcess ELSE workers[v]
        /\ \A o \in TurnOps : (workers[w].job.kind = "hook" /\ workers[w].job.op = o)
                 \/ hooks'[o] = hooks[o]
    BY <1>1, AnswersIs DEF TurnWorkersSound
  <1>3. \A v \in TurnWorkers : \A o \in TurnOps : Awaits(workers'[v], o) => v # w /\ Awaits(workers[v], o)
    BY <1>2 DEF Awaits, IdleProcess, NoJob
  <1>4. ASSUME NEW o \in TurnOps, hooks'[o].state \in {"none", "due"} PROVE HookComes(o)
    <2>1. CASE hooks'[o] = hooks[o]
      BY <1>4, <2>1 DEF HookComes
    <2>2. CASE workers[w].job.kind = "hook" /\ workers[w].job.op = o
      <3>1. Respond(w, "ok") => hooks'[o].state = "delivered"
        <4>1. PICK h \in TurnHooks : hooks' = [hooks EXCEPT ![o] = h] /\ (Respond(w, "ok") => h.state = "delivered")
          BY <1>1, <2>2, HookAnswered
        <4>2. DOMAIN hooks = TurnOps
          BY <1>1 DEF TurnsTypeOK
        <4> QED BY <4>1, <4>2
      <3>2. ~Past(workers[w])
        BY <1>4, <2>2, <3>1
      <3> QED BY <2>2, <3>2 DEF HookComes, Awaits
    <2> QED BY <1>2, <2>1, <2>2
  <1>5. ASSUME NEW o \in TurnOps, HookComes(o)' PROVE HookComes(o)
    <2>1. hooks'[o].state \in {"none", "due"} \/ \E v \in TurnWorkers : Awaits(workers'[v], o)
      BY <1>5 DEF HookComes, Awaits, Past
    <2> QED BY <1>3, <1>4, <2>1 DEF HookComes
  <1> QED BY <1>5 DEF HooksFall

RowsFall == \A k \in LoopIds : rows'[k] = rows[k] \/ rows'[k].op = 0

LEMMA RowOps ==
    ASSUME TurnsTypeOK, NEW k \in LoopIds, rows[k].op # 0
    PROVE  rows[k].op \in TurnOps
  <1>1. rows[k] \in Loops
    BY DEF TurnsTypeOK, NoRow
  <1>2. rows[k].op \in 0..MaxTurnOps
    BY <1>1, LoopFields
  <1> QED BY <1>2, TurnAssumption DEF TurnOps

LEMMA ToComeFalls ==
    ASSUME TurnInv, HooksFall, NEW k \in LoopIds, rows'[k] = rows[k] \/ rows'[k].op = 0
    PROVE  ToCome(k)' <= ToCome(k)
  <1>1. ToCome(k) \in {0, 1} /\ ToCome(k)' \in {0, 1}
    BY DEF ToCome
  <1>2. ASSUME ToCome(k)' = 1 PROVE ToCome(k) = 1
    <2>1. rows'[k].op # 0 /\ HookComes(rows[k].op)'
      BY <1>2 DEF ToCome
    <2>2. rows'[k] = rows[k] /\ rows[k].op \in TurnOps
      BY <2>1, RowOps DEF TurnInv
    <2>3. PICK o \in TurnOps : o = rows[k].op /\ o = rows'[k].op
      BY <2>2
    <2>4. HookComes(o)'
      BY <2>1, <2>3 DEF HookComes
    <2>5. HookComes(o)
      BY <2>4 DEF HooksFall
    <2> QED BY <2>1, <2>2, <2>3, <2>5 DEF ToCome
  <1> QED BY <1>1, <1>2

SharesFall(w) == \A k \in LoopIds : Share(w, k)' <= Share(w, k)

LEMMA SharesDoFall ==
    ASSUME NEW w \in TurnWorkers,
           \/ workers'[w].step \notin Acts
           \/ workers'[w].key = workers[w].key /\ workers[w].step \in Acts
    PROVE  SharesFall(w)
  BY DEF SharesFall, Share

(* A step that costs nothing: the rows, hooks and shares only become less. *)
Quiet(w) == HooksFall /\ RowsFall /\ SharesFall(w) /\ UNCHANGED owed

LEMMA AdvancesQuietly ==
    ASSUME TurnInv, NEW w \in TurnWorkers, NEW p \in TurnRows, Advances(w, p),
           workers[w].step \in Acts \cup {"remark"}, p.step \notin {"idle", "recover", "serve"}
    PROVE  /\ HooksFall /\ (workers[w].step \in Acts => SharesFall(w))
           /\ workers'[w] = p /\ p.key = workers[w].key
  <1>1. DOMAIN workers = TurnWorkers
    BY DEF TurnInv, TurnsTypeOK
  <1>2. workers'[w] = p /\ Moves(w, p) /\ p.key = workers[w].key
    BY <1>1 DEF Advances, StaysInTurn, Moves
  <1>3. Past(workers[w]) => Past(p)
    BY DEF Advances, StaysInTurn, Past
  <1> QED BY <1>2, <1>3, MovesFall, SharesDoFall

LEMMA LeavesQuietly ==
    ASSUME TurnInv, NEW w \in TurnWorkers, NEW p \in TurnRows, Leaves(w, p)
    PROVE  HooksFall /\ SharesFall(w) /\ \A k \in LoopIds : Share(w, k)' = 0
  <1>1. DOMAIN workers = TurnWorkers
    BY DEF TurnInv, TurnsTypeOK
  <1>2. workers'[w] = p /\ Moves(w, p) /\ p.step \in {"recover", "claim"}
    BY <1>1 DEF Leaves, Moves
  <1>3. Past(workers[w]) => Past(p)
    BY DEF Leaves, Past
  <1>4. workers'[w].step \notin Acts
    BY <1>2 DEF Acts
  <1> QED BY <1>2, <1>3, <1>4, MovesFall, SharesDoFall DEF Share

LEMMA AnswersQuietly ==
    ASSUME TurnInv, NEW w \in TurnWorkers, Answers(w)
    PROVE  SharesFall(w) /\ \A k \in LoopIds : Share(w, k)' = 0
  <1>1. workers'[w].step = "idle"
    BY AnswersIs DEF TurnInv, IdleProcess
  <1>2. workers'[w].step \notin Acts
    BY <1>1 DEF Acts
  <1> QED BY <1>2, SharesDoFall DEF Share

LEMMA QuietSteps ==
    ASSUME TurnInv, NEW w \in TurnWorkers,
           \/ Recover(w) \/ ServeDrive(w) \/ ServeOther(w) \/ Prepare(w) \/ Ask(w) \/ CallTool(w)
           \/ ApplyResponse(w) \/ ApplyTool(w) \/ MarkResult(w)
    PROVE  Quiet(w)
  <1> DEFINE q == workers[w]
  <1>1. TurnWorkersSound /\ TurnsTypeOK /\ DOMAIN rows = LoopIds /\ DOMAIN workers = TurnWorkers
    BY DEF TurnInv, TurnsTypeOK
  <1>2. CASE Recover(w)
    <2>1. PICK p \in TurnRows : Moves(w, p) /\ p.step \in {"serve", "recover", "remark"}
      BY <1>1, <1>2, RecoverIs
    <2>2. workers'[w].step \notin Acts /\ ~Past(q) /\ UNCHANGED <<rows, owed>>
      BY <1>1, <1>2, <2>1 DEF Moves, Acts, Past, Recover, runTables
    <2> QED BY <2>1, <2>2, MovesFall, SharesDoFall DEF Quiet, RowsFall
  <1>3. CASE ServeDrive(w) \/ ServeOther(w)
    <2>1. q.step = "serve" /\ UNCHANGED <<rows, owed>> /\ ~Past(q)
      BY <1>3 DEF ServeDrive, ServeOther, Past, runTables
    <2>2. CASE Answers(w)
      BY <2>1, <2>2, AnswersFall, AnswersQuietly DEF Quiet, RowsFall
    <2>3. CASE \E p \in TurnRows : Moves(w, p) /\ p.step = "claim"
      <3>1. PICK p \in TurnRows : Moves(w, p) /\ p.step = "claim"
        BY <2>3
      <3>2. workers'[w].step \notin Acts
        BY <1>1, <3>1 DEF Moves, Acts
      <3> QED BY <2>1, <3>1, <3>2, MovesFall, SharesDoFall DEF Quiet, RowsFall
    <2>4. Answers(w) \/ \E p \in TurnRows : Moves(w, p) /\ p.step = "claim"
      BY <1>1, <1>3, ServeDriveIs, TurnAssumption DEF ServeOther, Answers
    <2> QED BY <2>2, <2>3, <2>4
  <1>4. CASE Prepare(w)
    <2>1. q.step = "prepare" /\ UNCHANGED <<rows, owed>> /\ q.step \in Acts
      BY <1>4 DEF Prepare, Acts, runTables
    <2>2. \/ Answers(w) /\ ~q.recovering
          \/ \E p \in TurnRows : Leaves(w, p)
          \/ \E p \in TurnRows : Advances(w, p) /\ p.step \in {"confirm", "tell", "ask"}
      BY <1>1, <1>4, PrepareIs
    <2>3. ~q.recovering => q.job.kind = "drive"
      BY <1>1, <2>1 DEF TurnWorkersSound, SoundTurn
    <2>4. CASE Answers(w) /\ ~q.recovering
      BY <2>1, <2>3, <2>4, AnswersFall, AnswersQuietly DEF Quiet, RowsFall
    <2>5. CASE \E p \in TurnRows : Leaves(w, p)
      BY <2>1, <2>5, LeavesQuietly DEF Quiet, RowsFall
    <2>6. CASE \E p \in TurnRows : Advances(w, p) /\ p.step \in {"confirm", "tell", "ask"}
      BY <2>1, <2>6, AdvancesQuietly DEF Quiet, RowsFall
    <2> QED BY <2>2, <2>4, <2>5, <2>6
  <1>5. CASE Ask(w) \/ CallTool(w)
    <2>1. UNCHANGED <<rows, owed>> /\ q.step \in Acts
      BY <1>5 DEF Ask, CallTool, Acts, runTables
    <2>2. \E p \in TurnRows : Advances(w, p) /\ p.step \in {"sorry", "tell", "park"}
      BY <1>1, <1>5, AskIs
    <2> QED BY <2>1, <2>2, AdvancesQuietly DEF Quiet, RowsFall
  <1>6. CASE ApplyResponse(w) \/ ApplyTool(w)
    <2>1. UNCHANGED owed /\ q.step = "resume" /\ q.step \in Acts /\ q.key \in LoopIds
      BY <1>1, <1>6, ApplyResponseIs, ApplyToolIs DEF Acts, ApplyResponse, ApplyTool
    <2>2. PICK p \in TurnRows :
              /\ Advances(w, p) /\ p.step \in {"sorry", "reply", "tool", "ask"}
              /\ UNCHANGED rows \/ \E l \in Loops \cup {NoRow} : l.op = 0 /\ rows' = [rows EXCEPT ![q.key] = l]
      <3>1. NoRow.op = 0
        BY DEF NoRow
      <3> QED BY <1>1, <1>6, <3>1, ApplyResponseIs, ApplyToolIs DEF DeleteRow, SaveRow
    <2>3. RowsFall
      BY <1>1, <2>2 DEF RowsFall
    <2> QED BY <2>1, <2>2, <2>3, AdvancesQuietly DEF Quiet
  <1>7. CASE MarkResult(w)
    <2>1. UNCHANGED <<rows, owed>>
      BY <1>7 DEF MarkResult, runTables
    <2>2. \/ InHook(q) /\ Respond(w, "ok")
          \/ \E p \in TurnRows : Leaves(w, p)
      BY <1>1, <1>7, MarkIs
    <2>3. CASE Respond(w, "ok")
      BY <2>1, <2>3, AnswersFall, AnswersQuietly DEF Quiet, RowsFall, Answers
    <2>4. CASE \E p \in TurnRows : Leaves(w, p)
      BY <2>1, <2>4, LeavesQuietly DEF Quiet, RowsFall
    <2> QED BY <2>2, <2>3, <2>4
  <1> QED BY <1>2, <1>3, <1>4, <1>5, <1>6, <1>7

(* What may still be said of a loop becomes no more than the starts of it.   *)
Spends(w, k) == Share(w, k)' + ToCome(k)' - owed'[k] <= Share(w, k) + ToCome(k) - owed[k]

LEMMA TurnCounts ==
    ASSUME NEW w \in TurnWorkers, NEW k
    PROVE  Share(w, k) \in {0, 1} /\ Share(w, k)' \in {0, 1} /\ ToCome(k) \in {0, 1} /\ ToCome(k)' \in {0, 1}
  BY DEF Share, ToCome

LEMMA SpendsWhenFalling ==
    ASSUME NEW w \in TurnWorkers, NEW k, owed[k] \in Int, owed'[k] \in Int,
           ToCome(k)' <= ToCome(k), Share(w, k)' - owed'[k] <= Share(w, k) - owed[k]
    PROVE  Spends(w, k)
  <1> DEFINE a == Share(w, k)
             b == Share(w, k)'
             c == ToCome(k)
             d == ToCome(k)'
  <1>1. a \in Int /\ b \in Int /\ c \in Int /\ d \in Int
    BY TurnCounts
  <1>2. d <= c /\ b - owed'[k] <= a - owed[k]
    OBVIOUS
  <1>3. Spends(w, k) <=> b + d - owed'[k] <= a + c - owed[k]
    BY DEF Spends
  <1> HIDE DEF a, b, c, d
  <1> QED BY <1>1, <1>2, <1>3

LEMMA SpendsSharing ==
    ASSUME NEW w \in TurnWorkers, NEW k, owed[k] \in Int, owed'[k] = owed[k],
           Share(w, k)' = 0, Share(w, k) = 1
    PROVE  Spends(w, k)
  BY TurnCounts DEF Spends

LEMMA SpendsComing ==
    ASSUME NEW w \in TurnWorkers, NEW k, owed[k] \in Int, owed'[k] = owed[k],
           ToCome(k)' = 0, ToCome(k) = 1
    PROVE  Spends(w, k)
  BY TurnCounts DEF Spends

LEMMA SaysOnce ==
    ASSUME TurnsTypeOK, NEW w \in TurnWorkers, workers[w].step \in Acts, workers[w].key \in LoopIds,
           \A k \in LoopIds : Share(w, k)' = 0,
           Replies(workers[w]) \/ UNCHANGED owed, NEW k \in LoopIds
    PROVE  Share(w, k)' - owed'[k] <= Share(w, k) - owed[k]
  BY TurnCounts DEF Replies, TurnsTypeOK, Share

LEMMA WorkerSpends ==
    ASSUME TurnInv, NEW w \in TurnWorkers, WorkerStep(w), NEW k \in LoopIds, owed'[k] \in Int
    PROVE  Spends(w, k)
  <1> DEFINE q == workers[w]
  <1>1. /\ TurnWorkersSound /\ TurnsTypeOK /\ ParkedAreOwn /\ ResumedAreOwn /\ HooksAreTaken
        /\ DOMAIN rows = LoopIds /\ DOMAIN workers = TurnWorkers /\ owed[k] \in Int /\ DOMAIN owed = LoopIds
        /\ q \in TurnRows /\ SoundTurn(q)
    BY DEF TurnInv, TurnsTypeOK, TurnWorkersSound
  <1>2. CASE Quiet(w)
    <2>1. ToCome(k)' <= ToCome(k)
      BY <1>2, ToComeFalls DEF Quiet, RowsFall
    <2>2. Share(w, k)' - owed'[k] <= Share(w, k) - owed[k]
      BY <1>1, <1>2, TurnCounts DEF Quiet, SharesFall
    <2> QED BY <1>1, <2>1, <2>2, SpendsWhenFalling
  <1>3. CASE Remark(w)
    <2> DEFINE j == Direct(q.turn)
    <2>1. PICK p \in TurnRows : StaysInTurn(w, p) /\ p.step = "prepare" /\ p.key = j
      BY <1>1, <1>3, RemarkIs
    <2>2. /\ q.step = "remark" /\ q.recovering /\ j \in LoopIds /\ owed' = [owed EXCEPT ![j] = @ + 1]
          /\ UNCHANGED rows
      BY <1>1, <1>3, RemarkIs, KeyParts DEF Remark, Starts, runTables
    <2> HIDE DEF j
    <2>3. Moves(w, p) /\ workers'[w] = p /\ ~Past(q)
      BY <1>1, <2>1, <2>2 DEF StaysInTurn, Moves, Past
    <2>4. HooksFall
      BY <2>3, MovesFall
    <2>5. Share(w, k) = 0 /\ Share(w, k)' = (IF j = k THEN 1 ELSE 0)
      BY <2>1, <2>2, <2>3 DEF Share, Acts
    <2>6. owed'[k] = IF j = k THEN owed[k] + 1 ELSE owed[k]
      BY <1>1, <2>2
    <2>7. ToCome(k)' <= ToCome(k)
      BY <2>2, <2>4, ToComeFalls
    <2> QED BY <1>1, <2>5, <2>6, <2>7, SpendsWhenFalling
  <1>4. CASE ClaimNext(w)
    <2> DEFINE u == <<q.job.message, Head(q.left)>>
    <2>0. q.step = "claim" /\ ~q.recovering /\ q.job.kind = "drive" /\ UNCHANGED rows /\ q.step \notin Acts
      BY <1>1, <1>4, ClaimIs DEF ClaimNext, Acts, runTables
    <2>1. CASE Answers(w) /\ UNCHANGED owed
      <3>1. Share(w, k)' = 0 /\ HooksFall
        BY <2>0, <2>1, AnswersQuietly, AnswersFall
      <3>2. ToCome(k)' <= ToCome(k)
        BY <2>0, <3>1, ToComeFalls
      <3> QED BY <1>1, <2>1, <3>1, <3>2, SpendsWhenFalling, TurnCounts
    <2>2. CASE \E p \in TurnRows : /\ Moves(w, p)
                                   /\ \/ p.step = "prepare" /\ p.key = Direct(u) /\ Direct(u) \in LoopIds /\ Starts(u)
                                      \/ p.step = "claim" /\ UNCHANGED owed
      <3>1. PICK p \in TurnRows : /\ Moves(w, p)
                                  /\ \/ p.step = "prepare" /\ p.key = Direct(u) /\ Direct(u) \in LoopIds /\ Starts(u)
                                     \/ p.step = "claim" /\ UNCHANGED owed
        BY <2>2
      <3> HIDE DEF u
      <3>2. workers'[w] = p
        BY <1>1, <3>1 DEF Moves
      <3>3. HooksFall
        BY <2>0, <3>1, MovesFall
      <3>4. ToCome(k)' <= ToCome(k)
        BY <2>0, <3>3, ToComeFalls
      <3>5. CASE p.step = "claim" /\ UNCHANGED owed
        <4>1. Share(w, k)' = 0
          BY <3>2, <3>5 DEF Share, Acts
        <4> QED BY <1>1, <3>4, <3>5, <4>1, SpendsWhenFalling, TurnCounts
      <3>6. CASE p.step = "prepare" /\ p.key = Direct(u) /\ Direct(u) \in LoopIds /\ Starts(u)
        <4>1. Share(w, k) = 0 /\ Share(w, k)' = (IF Direct(u) = k THEN 1 ELSE 0)
          BY <2>0, <3>2, <3>6 DEF Share, Acts
        <4>2. owed'[k] = IF Direct(u) = k THEN owed[k] + 1 ELSE owed[k]
          BY <1>1, <3>6 DEF Starts
        <4> QED BY <1>1, <3>4, <4>1, <4>2, SpendsWhenFalling
      <3> QED BY <3>1, <3>5, <3>6
    <2> HIDE DEF u
    <2> QED BY <1>1, <1>4, <2>1, <2>2, ClaimIs, KeyParts DEF u
  <1>5. CASE ServeHook(w)
    <2> DEFINE o == q.job.op
    <2>0. /\ o \in TurnOps /\ o \in DOMAIN turnOps /\ q.step = "serve" /\ q.job.kind = "hook"
          /\ ~q.recovering /\ UNCHANGED <<rows, owed>>
      BY <1>1, <1>5, HeldHook DEF ServeHook, SoundTurn, runTables
    <2>1. ~Past(q) /\ Share(w, k) = 0
      BY <2>0 DEF Past, Share, Acts
    <2>2. CASE Answers(w)
      <3>1. Share(w, k)' = 0 /\ HooksFall
        BY <2>1, <2>2, AnswersQuietly, AnswersFall
      <3>2. ToCome(k)' <= ToCome(k)
        BY <2>0, <3>1, ToComeFalls
      <3> QED BY <1>1, <2>0, <2>1, <3>1, <3>2, SpendsWhenFalling
    <2>3. CASE \E p \in TurnRows : /\ Moves(w, p) /\ p.step = "resume" /\ ~p.recovering
                                   /\ rows[p.key].op = p.job.op /\ p.key = turnOps[p.job.op].key
      <3>1. PICK p \in TurnRows : /\ Moves(w, p) /\ p.step = "resume" /\ ~p.recovering
                                  /\ rows[p.key].op = p.job.op /\ p.key = turnOps[p.job.op].key
        BY <2>3
      <3>2. workers'[w] = p /\ p.job = q.job /\ hooks' = hooks
        BY <1>1, <3>1 DEF Moves
      <3>3. HooksFall
        BY <2>1, <3>1, MovesFall
      <3>4. ToCome(k)' <= ToCome(k)
        BY <2>0, <3>3, ToComeFalls
      <3>5. CASE p.key # k
        <4>1. Share(w, k)' = 0
          BY <3>2, <3>5 DEF Share
        <4> QED BY <1>1, <2>0, <2>1, <3>4, <4>1, SpendsWhenFalling
      <3>6. CASE p.key = k
        <4>1. rows[k].op = o /\ rows'[k].op = o /\ o # 0
          BY <2>0, <3>1, <3>2, <3>6, TurnAssumption DEF TurnOps
        <4>2. ToCome(k) = 1
          BY <2>0, <2>1, <4>1 DEF ToCome, HookComes, Awaits
        <4>3. hooks[o].state = "taken"
          BY <1>1, <2>0, HeldHook
        <4>4. \A v \in TurnWorkers : ~Awaits(workers'[v], o)
          <5> TAKE v \in TurnWorkers
          <5>1. CASE v = w
            BY <3>1, <3>2, <5>1 DEF Awaits, Past
          <5>2. CASE v # w
            <6>1. workers'[v] = workers[v]
              BY <1>1, <3>1, <5>2 DEF Moves
            <6> QED BY <1>1, <2>0, <5>2, <6>1 DEF Awaits, HooksAreTaken
          <5> QED BY <5>1, <5>2
        <4>5. ToCome(k)' = 0
          BY <3>2, <4>1, <4>3, <4>4 DEF ToCome, HookComes, Awaits, Past
        <4> QED BY <1>1, <2>0, <4>2, <4>5, SpendsComing
      <3> QED BY <3>5, <3>6
    <2> QED BY <1>1, <1>5, <2>0, <2>2, <2>3, ServeHookIs
  <1>6. CASE TellOutcome(w)
    <2>1. /\ q.step = "tell" /\ q.key \in LoopIds /\ q.step \in Acts /\ UNCHANGED rows
          /\ q.recovering \/ q.job.kind = "drive"
          /\ Replies(q) \/ UNCHANGED owed
      BY <1>1, <1>6, TellIs DEF TellOutcome, Acts, SoundTurn, runTables
    <2>2. HooksFall /\ \A u \in LoopIds : Share(w, u)' = 0
      <3>1. CASE \E p \in TurnRows : Advances(w, p) /\ p.step = "finish"
        BY <2>1, <3>1, AdvancesQuietly DEF Share, Acts
      <3>2. CASE Answers(w)
        BY <2>1, <3>2, AnswersQuietly, AnswersFall DEF Past
      <3>3. CASE \E p \in TurnRows : Leaves(w, p)
        BY <3>3, LeavesQuietly
      <3> QED BY <1>1, <1>6, <3>1, <3>2, <3>3, TellIs
    <2>3. ToCome(k)' <= ToCome(k)
      BY <2>1, <2>2, ToComeFalls
    <2>4. Share(w, k)' - owed'[k] <= Share(w, k) - owed[k]
      BY <1>1, <2>1, <2>2, SaysOnce
    <2> QED BY <1>1, <2>3, <2>4, SpendsWhenFalling
  <1>12. CASE Confirm(w)
    <2>1. /\ q.step = "confirm" /\ q.step \in Acts /\ q.turn \in Turns /\ q.key = Direct(q.turn)
          /\ q.recovering \/ q.job.kind = "drive"
          /\ q.key \in LoopIds /\ UNCHANGED rows
      BY <1>1, <1>12, ConfirmIs, KeyParts DEF Confirm, Acts
    <2>2. CASE UNCHANGED owed /\ \E p \in TurnRows : Advances(w, p) /\ p.step = "tell"
      BY <1>2, <2>1, <2>2, AdvancesQuietly DEF Quiet, RowsFall
    <2>3. CASE UNCHANGED owed /\ (Answers(w) \/ \E p \in TurnRows : Leaves(w, p))
      <3>1. HooksFall /\ SharesFall(w)
        BY <2>1, <2>3, AnswersQuietly, AnswersFall, LeavesQuietly DEF Past
      <3> QED BY <1>2, <2>1, <2>3, <3>1 DEF Quiet, RowsFall
    <2>4. ASSUME NEW j \in LoopIds, j # q.key, HandsOver(q.turn, j),
                 NEW p \in TurnRows, StaysInTurn(w, p), p.step \in {"ask", "tell"}, p.key = j
          PROVE  Spends(w, k)
      <3>1. Moves(w, p) /\ workers'[w] = p /\ p.step \in Acts
        BY <1>1, <2>4 DEF StaysInTurn, Moves, Acts
      <3>2. HooksFall
        BY <2>1, <3>1, MovesFall DEF Past
      <3>3. ToCome(k)' <= ToCome(k)
        BY <2>1, <3>2, ToComeFalls
      <3>4. /\ Share(w, k) = IF k = q.key THEN 1 ELSE 0
            /\ Share(w, k)' = IF k = j THEN 1 ELSE 0
        BY <2>1, <2>4, <3>1 DEF Share
      <3>5. owed'[k] = IF k = j THEN owed[k] + 1 ELSE IF k = q.key THEN owed[k] - 1 ELSE owed[k]
        BY <1>1, <2>1, <2>4 DEF HandsOver
      <3> QED BY <1>1, <2>4, <3>3, <3>4, <3>5, SpendsWhenFalling
    <2> QED BY <1>1, <1>12, <2>1, <2>2, <2>3, <2>4, ConfirmIs
  <1>7. CASE Park(w)
    <2>1. /\ q.step = "park" /\ q.key \in LoopIds /\ q.step \in Acts /\ UNCHANGED owed
          /\ rows' = [rows EXCEPT ![q.key] = q.loop]
      BY <1>1, <1>7, ParkIs DEF Park, Acts, SaveRow
    <2>2. HooksFall /\ \A u \in LoopIds : Share(w, u)' = 0
      <3>1. CASE Respond(w, "ok")
        BY <3>1, AnswersQuietly, AnswersFall DEF Answers
      <3>2. CASE \E p \in TurnRows : Leaves(w, p)
        BY <3>2, LeavesQuietly
      <3>3. CASE \E p \in TurnRows : Advances(w, p) /\ p.step = "finish"
        BY <2>1, <3>3, AdvancesQuietly DEF Share, Acts
      <3> QED BY <1>1, <1>7, <3>1, <3>2, <3>3, ParkIs
    <2>3. CASE k = q.key
      <3>1. Share(w, k) = 1
        BY <2>1, <2>3 DEF Share
      <3> QED BY <1>1, <2>1, <2>2, <3>1, SpendsSharing
    <2>4. CASE k # q.key
      <3>1. ToCome(k)' <= ToCome(k)
        BY <1>1, <2>1, <2>2, <2>4, ToComeFalls
      <3>2. Share(w, k)' - owed'[k] <= Share(w, k) - owed[k]
        BY <1>1, <2>1, <2>2, SaysOnce
      <3> QED BY <1>1, <3>1, <3>2, SpendsWhenFalling
    <2> QED BY <2>3, <2>4
  <1>8. ASSUME q.step \in {"reply", "sorry"}, q.key \in LoopIds, q.job.kind = "hook", ~q.recovering,
               UNCHANGED rows,
               \/ Replies(q) /\ q.step = "reply" /\ Respond(w, "fail")
               \/ Replies(q) /\ \E p \in TurnRows : Advances(w, p) /\ p.step = "finish"
               \/ Respond(w, "fail") /\ UNCHANGED owed
        PROVE  Spends(w, k)
    <2>1. q.step \in Acts /\ Past(q) /\ (Replies(q) \/ UNCHANGED owed)
      BY <1>8 DEF Acts, Past
    <2>2. CASE \E p \in TurnRows : Advances(w, p) /\ p.step = "finish"
      <3>1. HooksFall /\ \A u \in LoopIds : Share(w, u)' = 0
        BY <2>1, <2>2, AdvancesQuietly DEF Share, Acts
      <3>2. ToCome(k)' <= ToCome(k)
        BY <1>8, <3>1, ToComeFalls
      <3>3. Share(w, k)' - owed'[k] <= Share(w, k) - owed[k]
        BY <1>1, <1>8, <2>1, <3>1, SaysOnce
      <3> QED BY <1>1, <3>2, <3>3, SpendsWhenFalling
    <2>3. CASE Respond(w, "fail") /\ (q.step = "reply" \/ UNCHANGED owed)
      <3> DEFINE o == q.job.op
      <3>1. Answers(w) /\ \A u \in LoopIds : Share(w, u)' = 0
        BY <2>3, AnswersQuietly DEF Answers
      <3>2. o \in TurnOps /\ turnOps[o].key = q.key /\ (q.step = "reply" => rows[q.key].op # o)
        BY <1>1, <1>8, <2>1, HeldHook DEF ResumedAreOwn
      <3>3. Share(w, k)' - owed'[k] <= Share(w, k) - owed[k]
        BY <1>1, <1>8, <2>1, <3>1, SaysOnce
      <3>4. CASE rows[k].op = o
        <4>1. k = q.key
          BY <1>1, <3>2, <3>4, TurnAssumption DEF ParkedAreOwn, WaitsFor, TurnOps
        <4>2. UNCHANGED owed
          BY <2>3, <3>2, <3>4, <4>1
        <4>3. Share(w, k) = 1
          BY <2>1, <4>1 DEF Share
        <4> QED BY <1>1, <3>1, <4>2, <4>3, SpendsSharing
      <3>5. CASE rows[k].op # o
        <4>1. ToCome(k)' <= ToCome(k)
          <5>1. ToCome(k)' \in {0, 1} /\ ToCome(k) \in {0, 1}
            BY TurnCounts
          <5>2. ASSUME ToCome(k)' = 1 PROVE ToCome(k) = 1
            <6>1. rows[k].op # 0 /\ rows'[k] = rows[k] /\ rows[k].op \in TurnOps /\ HookComes(rows[k].op)'
              BY <1>1, <1>8, <5>2, RowOps DEF ToCome
            <6>2. PICK x \in TurnOps : x = rows[k].op /\ x = rows'[k].op
              BY <6>1
            <6>3. HookComes(x)'
              BY <6>1, <6>2 DEF HookComes
            <6>4. hooks'[x] = hooks[x]
              BY <1>1, <3>1, <3>5, <6>2, AnswersIs
            <6>5. \A v \in TurnWorkers : workers'[v] = IF v = w THEN IdleProcess ELSE workers[v]
              BY <1>1, <3>1, AnswersIs DEF TurnWorkersSound
            <6>6. \A v \in TurnWorkers : Awaits(workers'[v], x) => Awaits(workers[v], x)
              BY <6>5 DEF Awaits, IdleProcess, NoJob
            <6>7. hooks'[x].state \in {"none", "due"} \/ \E v \in TurnWorkers : Awaits(workers'[v], x)
              BY <6>3 DEF HookComes, Awaits, Past
            <6>8. HookComes(x)
              BY <6>4, <6>6, <6>7 DEF HookComes
            <6> QED BY <6>1, <6>2, <6>8 DEF ToCome
          <5> QED BY <5>1, <5>2
        <4> QED BY <1>1, <3>3, <4>1, SpendsWhenFalling
      <3> QED BY <3>4, <3>5
    <2> QED BY <1>8, <2>2, <2>3
  <1>9. CASE Reply(w)
    <2>1. /\ q.step = "reply" /\ q.key \in LoopIds /\ q.job.kind = "hook" /\ ~q.recovering
          /\ \/ Replies(q) /\ Respond(w, "fail")
             \/ Replies(q) /\ \E p \in TurnRows : Advances(w, p) /\ p.step = "finish"
             \/ Respond(w, "fail") /\ UNCHANGED owed
      BY <1>1, <1>9, ReplyIs DEF SoundTurn, Acts
    <2>2. UNCHANGED rows
      BY <1>9 DEF Reply, runTables
    <2> QED BY <1>8, <2>1, <2>2
  <1>10. CASE Sorry(w) /\ InHook(q)
    <2>1. /\ q.step = "sorry" /\ q.key \in LoopIds /\ UNCHANGED rows
          /\ \/ Replies(q) /\ \E p \in TurnRows : Advances(w, p) /\ p.step = "finish"
             \/ Respond(w, "fail") /\ UNCHANGED owed
      BY <1>1, <1>10, SorryIs DEF SoundTurn, Acts, InHook
    <2> QED BY <1>8, <1>10, <2>1 DEF InHook
  <1>11. CASE Sorry(w) /\ ~InHook(q)
    <2>1. /\ q.step = "sorry" /\ q.key \in LoopIds /\ q.step \in Acts
          /\ q.recovering \/ q.job.kind = "drive"
          /\ rows' = [rows EXCEPT ![q.key] = NoRow]
          /\ Answers(w) \/ \E p \in TurnRows : Leaves(w, p)
          /\ Replies(q) \/ UNCHANGED owed
      BY <1>1, <1>11, SorryIs DEF DeleteRow, Acts, SoundTurn
    <2>2. HooksFall /\ \A u \in LoopIds : Share(w, u)' = 0
      <3>1. q.job.kind = "hook" => ~Past(q)
        BY <1>11 DEF Past, InHook
      <3> QED BY <2>1, <3>1, AnswersQuietly, AnswersFall, LeavesQuietly
    <2>3. rows'[k] = rows[k] \/ rows'[k].op = 0
      BY <1>1, <2>1 DEF NoRow
    <2>4. ToCome(k)' <= ToCome(k)
      BY <2>2, <2>3, ToComeFalls
    <2>5. Share(w, k)' - owed'[k] <= Share(w, k) - owed[k]
      BY <1>1, <2>1, <2>2, SaysOnce
    <2> QED BY <1>1, <2>4, <2>5, SpendsWhenFalling
  <1> QED BY <1>2, <1>3, <1>4, <1>5, <1>6, <1>7, <1>9, <1>10, <1>11, <1>12, QuietSteps DEF WorkerStep

-----------------------------------------------------------------------------
(* The turns of a conversation: the theorem.                                 *)

LEMMA StartsStay ==
    ASSUME TurnInv, [TurnsNext]_turnVars
    PROVE  StartsAreSpentOnce'
  <1>1. /\ TurnsTypeOK /\ StartsAreSpentOnce /\ DOMAIN workers = TurnWorkers /\ deaths \in Nat
        /\ owed \in [LoopIds -> Int] /\ owed' \in [LoopIds -> Int]
    <2>1. owed' \in [LoopIds -> Int]
      BY TablesStay
    <2>2. MaxDeaths \in Nat
      BY TurnAssumption
    <2> QED BY <2>1, <2>2 DEF TurnInv, TurnsTypeOK
  <1> SUFFICES ASSUME NEW k \in LoopIds
               PROVE  /\ IsFiniteSet(Acting(k)')
                      /\ Cardinality(Acting(k)') + ToCome(k)' <= owed'[k] + deaths'
    BY DEF StartsAreSpentOnce, Acting, ToCome, HookComes, Awaits, Past
  <1>2. /\ IsFiniteSet(Acting(k)) /\ Cardinality(Acting(k)) + ToCome(k) <= owed[k] + deaths
        /\ owed[k] \in Int /\ owed'[k] \in Int
    BY <1>1 DEF StartsAreSpentOnce
  <1>3. ToCome(k) \in {0, 1} /\ ToCome(k)' \in {0, 1} /\ Cardinality(Acting(k)) \in Nat
    BY <1>2, FS_CardinalityType DEF ToCome
  <1>4. ASSUME NEW w \in TurnWorkers, NEW p, workers' = [workers EXCEPT ![w] = p] PROVE OthersStay(w)
    BY <1>1, <1>4 DEF OthersStay
  <1>5. ASSUME NEW w \in TurnWorkers, WorkerStep(w)
        PROVE  /\ IsFiniteSet(Acting(k)')
               /\ Cardinality(Acting(k)') + ToCome(k)' <= owed'[k] + deaths'
    <2>1. OthersStay(w)
      BY <1>4, <1>5, WorkerStepShape DEF Moves, Answers, Respond, Become
    <2>2. deaths' = deaths
      BY <1>5 DEF WorkerStep, Recover, Remark, ServeDrive, ServeHook, ServeOther, ClaimNext, Prepare,
           Confirm, TellOutcome, Ask, CallTool, Park, ApplyResponse, ApplyTool, Reply, Sorry, MarkResult
    <2>3. Spends(w, k)
      BY <1>2, <1>5, WorkerSpends
    <2>4. /\ IsFiniteSet(Acting(k)') /\ Cardinality(Acting(k)') \in Nat
          /\ Cardinality(Acting(k)') = Cardinality(Acting(k)) - Share(w, k) + Share(w, k)'
      BY <1>2, <2>1, ActingChanges
    <2> DEFINE a == Share(w, k)
               b == Share(w, k)'
               c == ToCome(k)
               d == ToCome(k)'
               m == Cardinality(Acting(k))
               n == Cardinality(Acting(k)')
    <2>5. a \in Int /\ b \in Int /\ c \in Int /\ d \in Int /\ m \in Int /\ n \in Int
      BY <1>3, <2>4, TurnCounts
    <2>6. b + d - owed'[k] <= a + c - owed[k] /\ n = m - a + b /\ m + c <= owed[k] + deaths
      BY <1>2, <2>3, <2>4 DEF Spends
    <2> HIDE DEF a, b, c, d, m, n
    <2>7. n + d <= owed'[k] + deaths
      BY <1>1, <1>2, <2>5, <2>6
    <2> QED BY <2>2, <2>4, <2>7 DEF n, d
  <1>6. ASSUME NEW w \in TurnWorkers, WorkerDies(w)
        PROVE  /\ IsFiniteSet(Acting(k)')
               /\ Cardinality(Acting(k)') + ToCome(k)' <= owed'[k] + deaths'
    <2>1. Answers(w) /\ deaths' = deaths + 1 /\ UNCHANGED owed
      BY <1>6 DEF WorkerDies, Answers
    <2>2. OthersStay(w) /\ Share(w, k)' = 0
      BY <2>1, AnswersIs, AnswersQuietly DEF TurnInv
    <2>3. /\ IsFiniteSet(Acting(k)') /\ Cardinality(Acting(k)') \in Nat
          /\ Cardinality(Acting(k)') = Cardinality(Acting(k)) - Share(w, k) + Share(w, k)'
      BY <1>2, <2>2, ActingChanges
    <2> DEFINE a == Share(w, k)
               c == ToCome(k)
               d == ToCome(k)'
               m == Cardinality(Acting(k))
               n == Cardinality(Acting(k)')
    <2>4. a \in {0, 1} /\ c \in {0, 1} /\ d \in {0, 1} /\ m \in Nat /\ n \in Nat /\ n = m - a
          /\ m + c <= owed[k] + deaths
      BY <1>2, <1>3, <2>2, <2>3, TurnCounts
    <2> HIDE DEF a, c, d, m, n
    <2>5. n + d <= owed[k] + (deaths + 1)
      BY <1>1, <1>2, <2>4
    <2> QED BY <2>1, <2>3, <2>5 DEF n, d
  <1>7. CASE ServerRestarts
    <2>1. \A w \in TurnWorkers : workers'[w].step = "idle"
      BY <1>7 DEF ServerRestarts, IdleProcess
    <2>2. Acting(k)' = {}
      BY <2>1 DEF Acting, Acts
    <2>3. IsFiniteSet(Acting(k)') /\ Cardinality(Acting(k)') = 0
      BY <2>2, FS_EmptySet
    <2>4. deaths' = deaths + 1 /\ UNCHANGED owed
      BY <1>7 DEF ServerRestarts
    <2> DEFINE c == ToCome(k)
               d == ToCome(k)'
               m == Cardinality(Acting(k))
               n == Cardinality(Acting(k)')
    <2>5. c \in {0, 1} /\ d \in {0, 1} /\ m \in Nat /\ n = 0 /\ m + c <= owed[k] + deaths
      BY <1>2, <1>3, <2>3
    <2> HIDE DEF c, d, m, n
    <2>6. n + d <= owed[k] + (deaths + 1)
      BY <1>1, <1>2, <2>5
    <2> QED BY <2>3, <2>4, <2>6 DEF n, d
  <1>8. ASSUME HooksFall, UNCHANGED <<rows, owed, deaths>>, Acting(k)' = Acting(k)
        PROVE  /\ IsFiniteSet(Acting(k)')
               /\ Cardinality(Acting(k)') + ToCome(k)' <= owed'[k] + deaths'
    <2>1. ToCome(k)' <= ToCome(k)
      BY <1>8, ToComeFalls
    <2> DEFINE m == Cardinality(Acting(k))
               c == ToCome(k)
               d == ToCome(k)'
    <2>2. c \in {0, 1} /\ d \in {0, 1} /\ m \in Nat /\ d <= c /\ m + c <= owed[k] + deaths
      BY <1>2, <1>3, <2>1
    <2> HIDE DEF m, c, d
    <2>3. m + d <= owed[k] + deaths
      BY <1>1, <1>2, <2>2
    <2> QED BY <1>2, <1>8, <2>3 DEF m, d
  <1>9. ASSUME NEW w \in TurnWorkers, NEW p \in TurnRows, Calls(w, p)
        PROVE  /\ Acting(k)' = Acting(k)
               /\ \A v \in TurnWorkers : v # w => workers'[v] = workers[v]
               /\ workers'[w] = p
    <2>1. /\ \A v \in TurnWorkers : v # w => workers'[v] = workers[v]
          /\ workers'[w] = p /\ p.step \notin Acts /\ workers[w].step \notin Acts
      BY <1>1, <1>9 DEF Calls, Acts
    <2> QED BY <2>1 DEF Acting
  <1>10. ASSUME NEW w \in TurnWorkers, NEW m \in Messages, DriveCall(w, m)
         PROVE  HooksFall /\ UNCHANGED <<rows, owed, deaths>> /\ Acting(k)' = Acting(k)
    <2>1. PICK p \in TurnRows : Calls(w, p) /\ p.job.kind = "drive"
      BY <1>1, <1>10, DriveCallIs
    <2>2. UNCHANGED <<rows, owed, deaths, hooks>>
      BY <1>10 DEF DriveCall, runTables
    <2> QED BY <1>9, <2>1, <2>2 DEF HooksFall, HookComes, Awaits, Past
  <1>11. ASSUME NEW w \in TurnWorkers, OtherCall(w)
         PROVE  HooksFall /\ UNCHANGED <<rows, owed, deaths>> /\ Acting(k)' = Acting(k)
    <2>1. PICK p \in TurnRows : Calls(w, p) /\ p.job.kind = "other"
      BY <1>1, <1>11, OtherCallIs
    <2>2. UNCHANGED <<rows, owed, deaths, hooks>>
      BY <1>11 DEF OtherCall, runTables
    <2> QED BY <1>9, <2>1, <2>2 DEF HooksFall, HookComes, Awaits, Past
  <1>12. ASSUME NEW w \in TurnWorkers, NEW o \in TurnOps, HookCall(w, o)
         PROVE  HooksFall /\ UNCHANGED <<rows, owed, deaths>> /\ Acting(k)' = Acting(k)
    <2>1. PICK p \in TurnRows : Calls(w, p) /\ p.job.kind = "hook" /\ p.job.op = o
      BY <1>1, <1>12, HookCallIs
    <2>2. UNCHANGED <<rows, owed, deaths>> /\ hooks[o].state = "due" /\ hooks' = [hooks EXCEPT ![o].state = "taken"]
      BY <1>12 DEF HookCall, runTables
    <2>3. ASSUME NEW u \in TurnOps, HookComes(u)' PROVE HookComes(u)
      <3>1. CASE u = o
        BY <2>2, <3>1 DEF HookComes
      <3>2. CASE u # o
        <4>1. hooks'[u] = hooks[u]
          BY <2>2, <3>2
        <4>2. \A v \in TurnWorkers : Awaits(workers'[v], u) => Awaits(workers[v], u)
          BY <1>9, <2>1, <3>2 DEF Awaits
        <4>3. hooks'[u].state \in {"none", "due"} \/ \E v \in TurnWorkers : Awaits(workers'[v], u)
          BY <2>3 DEF HookComes, Awaits, Past
        <4> QED BY <4>1, <4>2, <4>3 DEF HookComes
      <3> QED BY <3>1, <3>2
    <2> QED BY <1>9, <2>1, <2>2, <2>3 DEF HooksFall
  <1>13. ASSUME NEW o \in TurnOps, OperationEnds(o)
         PROVE  HooksFall /\ UNCHANGED <<rows, owed, deaths>> /\ Acting(k)' = Acting(k)
    <2>1. UNCHANGED <<rows, owed, deaths, workers>> /\ hooks[o].state = "none"
          /\ hooks' = [hooks EXCEPT ![o].state = "due"]
      BY <1>13 DEF OperationEnds, runTables, TurnInv, HooksAreTaken
    <2>2. \A u \in TurnOps : hooks'[u].state \in {"none", "due"} => hooks[u].state \in {"none", "due"}
      BY <2>1
    <2> QED BY <2>1, <2>2 DEF HooksFall, HookComes, Awaits, Past, Acting
  <1>14. ASSUME UNCHANGED <<workers, rows, hooks, owed, deaths>>
         PROVE  HooksFall /\ UNCHANGED <<rows, owed, deaths>> /\ Acting(k)' = Acting(k)
    BY <1>14 DEF HooksFall, HookComes, Awaits, Past, Acting
  <1> QED BY <1>5, <1>6, <1>7, <1>8, <1>10, <1>11, <1>12, <1>13, <1>14 DEF TurnsNext, turnVars, Send, runTables

LEMMA TurnsStart == TurnsInit => TurnInv
  <1> SUFFICES ASSUME TurnsInit PROVE TurnInv
    OBVIOUS
  <1> USE DEF TurnsInit
  <1>1. \A w \in TurnWorkers : /\ workers[w] = IdleProcess /\ workers[w].step = "idle"
                               /\ workers[w].turn = NoTurn /\ workers[w].backlog = {}
                               /\ workers[w].job.kind = "none" /\ workers[w].loop \in Loops
                               /\ workers[w].job \in Jobs
    BY IdleIsSound, TurnFields DEF IdleProcess, NoJob
  <1>2. \A k \in LoopIds : rows[k] = NoRow /\ rows[k].op = 0
    BY DEF NoRow
  <1>8. RunsAreConfirmed
    BY <1>1 DEF RunsAreConfirmed, Confirmed
  <1>3. TurnsTypeOK
    <2>1. hooks \in [TurnOps -> [state : {"none", "due", "taken", "delivered", "dropped"},
                              attempts : 0..MaxDeliveries]]
      BY TurnAssumption
    <2>2. turnOps \in Seq([turn : Turns, key : LoopIds, kind : {"provider", "runtime"},
                        status : {"running", "succeeded", "failed", "abandoned"}])
      BY SeqDef
    <2> QED BY <1>1, <2>1, <2>2, KeyParts, TurnAssumption DEF TurnsTypeOK, Steps, IdleProcess
  <1>4. TurnWorkersSound
    BY IdleIsSound DEF TurnWorkersSound
  <1>5. TurnsWereSent /\ CompletedWereSaid /\ HooksAreTaken
    BY <1>1, TurnAssumption DEF TurnsWereSent, CompletedWereSaid, HooksAreTaken
  <1>6. ParkedAreOwn /\ ResumedAreOwn /\ AddressedAreClaimed
    BY <1>1, <1>2 DEF ParkedAreOwn, WaitsFor, ResumedAreOwn, AddressedAreClaimed, Claims, Past
  <1>7. StartsAreSpentOnce
    <2>1. \A k \in LoopIds : Acting(k) = {} /\ ToCome(k) = 0
      BY <1>1, <1>2 DEF Acting, Acts, ToCome
    <2>2. \A k \in LoopIds : owed[k] = 0 /\ deaths = 0
      OBVIOUS
    <2>3. \A k \in LoopIds : IsFiniteSet(Acting(k)) /\ Cardinality(Acting(k)) = 0
      BY <2>1, FS_EmptySet
    <2> QED BY <2>1, <2>2, <2>3 DEF StartsAreSpentOnce
  <1> QED BY <1>3, <1>4, <1>5, <1>6, <1>7, <1>8 DEF TurnInv

LEMMA TurnsStep == TurnInv /\ [TurnsNext]_turnVars => TurnInv'
  BY TypesStay, WorkersStaySound, SentStay, ConfirmedStay, CompletedStay, HooksStayTaken, OwnStays, ClaimedStay, StartsStay
     DEF TurnInv

LEMMA TurnInvSettles == TurnInv => TurnsSettleOnce
  <1> SUFFICES ASSUME TurnInv PROVE TurnsSettleOnce
    OBVIOUS
  <1>1. TurnsAreAnsweredOnce
    <2> SUFFICES ASSUME NEW k \in LoopIds PROVE owed[k] >= -deaths
      BY DEF TurnsAreAnsweredOnce
    <2>1. /\ IsFiniteSet(Acting(k)) /\ Cardinality(Acting(k)) + ToCome(k) <= owed[k] + deaths
          /\ owed[k] \in Int /\ deaths \in Nat
      BY TurnAssumption DEF TurnInv, TurnsTypeOK, StartsAreSpentOnce
    <2> DEFINE m == Cardinality(Acting(k))
               c == ToCome(k)
    <2>2. m \in Nat /\ c \in Nat /\ m + c <= owed[k] + deaths
      BY <2>1, FS_CardinalityType DEF ToCome
    <2> HIDE DEF m, c
    <2> QED BY <2>1, <2>2
  <1>2. CompletedReceiptsWereAnswered
    BY DEF TurnInv, CompletedWereSaid, CompletedReceiptsWereAnswered, WasAnswered
  <1>3. ParkedRowsWaitForTheirOwn
    BY DEF TurnInv, ParkedAreOwn, WaitsFor, ParkedRowsWaitForTheirOwn
  <1>4. AddressedAgentsAreClaimed
    <2> SUFFICES ASSUME NEW w \in TurnWorkers, workers[w].step = "claim", workers[w].left = <<>>,
                        NEW i \in DOMAIN Addressed[workers[w].job.message]
                 PROVE  receipts[<<workers[w].job.message, Addressed[workers[w].job.message][i]>>] # "none"
      BY DEF AddressedAgentsAreClaimed
    <2>1. Claims(workers[w])
      BY DEF TurnInv, TurnWorkersSound, SoundTurn, Claims, Past
    <2>2. DOMAIN workers[w].left = {}
      OBVIOUS
    <2> QED BY <2>1, <2>2 DEF TurnInv, AddressedAreClaimed
  <1> QED BY <1>1, <1>2, <1>3, <1>4 DEF TurnsSettleOnce

(* What a message asks of an agent is answered once, by whoever finishes it, *)
(* however many workers resume, recover and retry the turn, and a receipt is *)
(* completed only if something was said or a run was set to work, for any    *)
(* workers, messages and agents, and any bounds on operations, runs, attempts*)
(* and deaths.                                                               *)
THEOREM TurnsSettled == TurnsSpec => [](TurnsTypeOK /\ TurnsSettleOnce)
  <1>1. TurnInv => TurnsTypeOK /\ TurnsSettleOnce
    BY TurnInvSettles DEF TurnInv
  <1> QED BY <1>1, TurnsStart, TurnsStep, PTL DEF TurnsSpec
===============================================================================
