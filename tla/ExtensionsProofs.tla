--------------------------- MODULE ExtensionsProofs ---------------------------
(***************************************************************************)
(* Theorems about components of the extensions and of what the host does   *)
(* for them, for every value of their constants, and about the suite of    *)
(* them.                                                                   *)
(***************************************************************************)
EXTENDS MCExtensions, ConversationsProofs, ExtensionStoreProofs

-----------------------------------------------------------------------------
(* Sequences. *)

LEMMA PrefixOf ==
    ASSUME NEW S, NEW s \in Seq(S), NEW t \in Seq(S)
    PROVE  IsPrefix(s, s \o t)
  <1>1. /\ s \o t \in Seq(S) /\ Len(s \o t) = Len(s) + Len(t) /\ Len(s) \in Nat /\ Len(t) \in Nat
        /\ \A i \in 1..Len(s) : (s \o t)[i] = s[i]
    BY ConcatProperties, LenProperties
  <1>2. \A i \in 1..Len(s) : s[i] \in S /\ (s \o t)[i] \in S
    BY <1>1, ElementOfSeq
  <1>3. /\ SubSeq(s, 1, Len(s)) \in Seq(S) /\ SubSeq(s \o t, 1, Len(s)) \in Seq(S)
        /\ Len(SubSeq(s, 1, Len(s))) = Len(s) /\ Len(SubSeq(s \o t, 1, Len(s))) = Len(s)
        /\ \A i \in 1..Len(s) : SubSeq(s, 1, Len(s))[i] = SubSeq(s \o t, 1, Len(s))[i]
    BY <1>1, <1>2
  <1>4. SubSeq(s, 1, Len(s)) = SubSeq(s \o t, 1, Len(s))
    BY <1>3, SeqEqual
  <1> QED BY <1>1, <1>4 DEF IsPrefix

(* The first of a list moves to the end of another. *)
LEMMA OneMoves ==
    ASSUME NEW S, NEW s \in Seq(S), NEW t \in Seq(S), t # <<>>
    PROVE  /\ Head(t) \in S /\ Tail(t) \in Seq(S) /\ Append(s, Head(t)) \in Seq(S)
           /\ Append(s, Head(t)) \o Tail(t) = s \o t
           /\ Len(t) = 1 <=> Tail(t) = <<>>
           /\ Len(Append(s, Head(t))) = Len(s) + 1
           /\ Range(Append(s, Head(t))) = Range(s) \cup {Head(t)}
  <1> DEFINE h == Head(t)
             u == Tail(t)
             a == Append(s, h)
  <1>1. /\ h \in S /\ u \in Seq(S) /\ Len(u) = Len(t) - 1 /\ Len(t) \in Nat /\ Len(s) \in Nat
        /\ \A i \in 1..Len(u) : u[i] = t[i + 1]
    BY HeadTailProperties, LenProperties
  <1>2. h = t[1] /\ Len(t) > 0
    BY EmptySeq, LenProperties
  <1> HIDE DEF h, u
  <1>3. /\ a \in Seq(S) /\ Len(a) = Len(s) + 1 /\ a[Len(s) + 1] = h
        /\ \A i \in 1..Len(s) : a[i] = s[i]
    BY <1>1, AppendProperties
  <1> HIDE DEF a
  <1>4. /\ a \o u \in Seq(S) /\ Len(a \o u) = Len(a) + Len(u)
        /\ \A i \in 1..(Len(a) + Len(u)) : (a \o u)[i] = IF i <= Len(a) THEN a[i] ELSE u[i - Len(a)]
    BY <1>1, <1>3, ConcatProperties
  <1>5. /\ s \o t \in Seq(S) /\ Len(s \o t) = Len(s) + Len(t)
        /\ \A i \in 1..(Len(s) + Len(t)) : (s \o t)[i] = IF i <= Len(s) THEN s[i] ELSE t[i - Len(s)]
    BY ConcatProperties
  <1>6. a \o u = s \o t
    <2>1. Len(a \o u) = Len(s \o t)
      BY <1>1, <1>3, <1>4, <1>5
    <2>2. ASSUME NEW i \in 1..Len(a \o u) PROVE (a \o u)[i] = (s \o t)[i]
      <3>1. i \in 1..(Len(s) + Len(t)) /\ i \in 1..(Len(a) + Len(u))
        BY <1>1, <1>3, <1>4
      <3>2. CASE i <= Len(s)
        BY <1>1, <1>3, <1>4, <1>5, <3>1, <3>2
      <3>3. CASE i = Len(s) + 1
        BY <1>1, <1>2, <1>3, <1>4, <1>5, <3>1, <3>3
      <3>4. CASE i > Len(s) + 1
        <4>1. i - Len(a) \in 1..Len(u) /\ (i - Len(a)) + 1 = i - Len(s)
          BY <1>1, <1>3, <3>1, <3>4
        <4>2. (a \o u)[i] = u[i - Len(a)] /\ (s \o t)[i] = t[i - Len(s)]
          BY <1>1, <1>3, <1>4, <1>5, <3>1, <3>4
        <4> QED BY <1>1, <4>1, <4>2
      <3>5. i <= Len(s) \/ i = Len(s) + 1 \/ i > Len(s) + 1
        <4>1. i \in Int /\ Len(s) \in Int
          BY <1>1, <3>1
        <4> QED BY <4>1
      <3> QED BY <3>2, <3>3, <3>4, <3>5
    <2> QED BY <1>4, <1>5, <2>1, <2>2, SeqEqual
  <1>7. Len(t) = 1 <=> u = <<>>
    BY <1>1, EmptySeq
  <1>8. Range(a) = Range(s) \cup {h}
    <2>1. Range(a) = {a[i] : i \in 1..Len(a)} /\ Range(s) = {s[i] : i \in 1..Len(s)}
      BY <1>3, RangeEquality
    <2>2. 1..Len(a) = (1..Len(s)) \cup {Len(s) + 1}
      BY <1>1, <1>3
    <2>3. {a[i] : i \in 1..Len(s)} = {s[i] : i \in 1..Len(s)}
      BY <1>3
    <2> QED BY <1>3, <2>1, <2>2, <2>3
  <1> QED BY <1>1, <1>3, <1>6, <1>7, <1>8 DEF h, u, a

-----------------------------------------------------------------------------
(* The pipeline: what is listed of an order. *)

LEMMA PresentAreListed ==
    ASSUME NEW order, order \in Seq(Range(order))
    PROVE  /\ PresentOf(order) \in Seq(Range(order))
           /\ Len(PresentOf(order)) \in Nat /\ Len(PresentOf(order)) <= Len(order)
  <1> DEFINE there == {i \in DOMAIN order : ready[order[i]] # "absent"}
             at    == Ordered(there)
             list  == [k \in DOMAIN at |-> order[at[k]]]
  <1>1. Len(order) \in Nat /\ DOMAIN order = 1..Len(order)
    BY LenProperties
  <1>2. there \in SUBSET (0..Len(order)) /\ there \subseteq 1..Len(order)
    BY <1>1
  <1>3. Cardinality(there) \in Nat /\ at \in [1..Cardinality(there) -> there]
    BY <1>1, <1>2, OrderedIs
  <1>4. Cardinality(there) <= Len(order)
    <2>1. IsFiniteSet(1..Len(order)) /\ Cardinality(1..Len(order)) = Len(order)
      BY <1>1, FS_Interval
    <2> QED BY <1>2, <2>1, FS_Subset
  <1>5. \A i \in there : order[i] \in Range(order)
    BY DEF Range
  <1>6. list \in [1..Cardinality(there) -> Range(order)]
    <2> HIDE DEF there, at
    <2> QED BY <1>3, <1>5
  <1>7. list \in Seq(Range(order)) /\ Len(list) = Cardinality(there)
    <2> HIDE DEF list, there
    <2> QED BY <1>3, <1>6, ListedAsSeq
  <1>8. PresentOf(order) = list
    BY DEF PresentOf
  <1> QED BY <1>3, <1>4, <1>7, <1>8

-----------------------------------------------------------------------------
(* The pipeline: a request. *)

Declared == Range(Providers)
Offered  == Range(SlotHandlers)

PipeRows ==
    [at : PipeAts, key : ActionKeys, role : {"none", "operator", "agent"}, agent : BOOLEAN,
     rules : Seq(Declared), listed : Seq(Declared), ran : Seq(Declared),
     allowed : SUBSET Declared, value : {"null", "done", "nothing"}, said : 0..1]

Working == {"get", "authorize", "consume", "call"}

(* What a request has listed is what ran and what is left, an agent is       *)
(* allowed what it is about to call, and only deleting finds nothing.        *)
SoundPipe(p) ==
    /\ p.at \in {"new", "ensure", "list"} => p.ran = <<>>
    /\ p.at \in Working => p.ran \o p.rules = p.listed /\ p.rules # <<>>
    /\ p.at = "after" => p.ran = p.listed
    /\ IsPrefix(p.ran, p.listed)
    /\ p.agent /\ p.at \in {"consume", "call"} => Head(p.rules) \in p.allowed
    /\ p.agent => Range(p.ran) \subseteq p.allowed
    /\ p.value = "nothing" => p.key = "conversation.delete" /\ p.at # "new"
    /\ p.said = 1 => p.ran = p.listed /\ p.at = "answered"

LEMMA NothingRan ==
    ASSUME NEW s \in Seq(Declared)
    PROVE  IsPrefix(<<>>, s) /\ Range(<<>>) = {}
  <1>1. <<>> \in Seq(Declared) /\ <<>> \o s = s
    BY ConcatEmptySeq, EmptySeq
  <1>2. IsPrefix(<<>>, s)
    BY <1>1, PrefixOf
  <1> QED BY <1>2 DEF Range

LEMMA FirstPipe == NewPipe \in PipeRows /\ SoundPipe(NewPipe)
  <1>1. <<>> \in Seq(Declared)
    BY EmptySeq
  <1>2. IsPrefix(<<>>, <<>>) /\ Range(<<>>) = {}
    BY <1>1, NothingRan
  <1> QED BY <1>1, <1>2 DEF NewPipe, PipeRows, SoundPipe, PipeAts, ActionKeys, Working

(* A request goes on, or ends. *)
LEMMA PipeGoes ==
    ASSUME NEW p \in PipeRows, SoundPipe(p), p.at \notin DriveEnds \cup {"new", "after"},
           NEW at, at \in {"failed", "gone"}
                   \/ (p.at = "ensure" /\ at = "list")
                   \/ (p.at = "get" /\ at = IF p.agent THEN "authorize" ELSE "call")
                   \/ (p.at = "consume" /\ at = "call")
    PROVE  [p EXCEPT !.at = at] \in PipeRows /\ SoundPipe([p EXCEPT !.at = at])
  <1> DEFINE q == [p EXCEPT !.at = at]
  <1>1. at \in PipeAts
    BY DEF PipeAts, DriveEnds
  <1>2. /\ q \in PipeRows /\ q.at = at /\ q.key = p.key /\ q.agent = p.agent
        /\ q.rules = p.rules /\ q.listed = p.listed /\ q.ran = p.ran
        /\ q.allowed = p.allowed /\ q.value = p.value /\ q.said = p.said
    BY <1>1 DEF PipeRows
  <1> HIDE DEF q
  <1>3. SoundPipe(q)
    BY <1>2 DEF SoundPipe, Working, DriveEnds
  <1> QED BY <1>2, <1>3 DEF q

(* It is new, *)
LEMMA PipeAsked ==
    ASSUME NEW p \in PipeRows, SoundPipe(p), p.at = "new",
           NEW key \in ActionKeys, NEW role \in {"none", "operator", "agent"},
           NEW agent \in BOOLEAN
    PROVE  LET q == [p EXCEPT !.at = "ensure", !.key = key, !.role = role, !.agent = agent]
           IN  q \in PipeRows /\ SoundPipe(q)
  <1> DEFINE q == [p EXCEPT !.at = "ensure", !.key = key, !.role = role, !.agent = agent]
  <1>1. /\ q \in PipeRows /\ q.at = "ensure" /\ q.agent = agent
        /\ q.listed = p.listed /\ q.ran = p.ran /\ q.value = p.value /\ q.said = p.said
    BY DEF PipeRows, PipeAts
  <1>2. p.ran = <<>> /\ Range(<<>>) = {}
    BY EmptySeq, NothingRan DEF SoundPipe
  <1> HIDE DEF q
  <1>3. SoundPipe(q)
    BY <1>1, <1>2 DEF SoundPipe, Working
  <1> QED BY <1>1, <1>3 DEF q

(* lists the rules, *)
LEMMA PipeLists ==
    ASSUME NEW p \in PipeRows, SoundPipe(p), p.at = "list",
           NEW rules \in Seq(Declared), rules # <<>>
    PROVE  LET q == [p EXCEPT !.at = "get", !.rules = rules, !.listed = rules]
           IN  q \in PipeRows /\ SoundPipe(q)
  <1> DEFINE q == [p EXCEPT !.at = "get", !.rules = rules, !.listed = rules]
  <1>1. /\ q \in PipeRows /\ q.at = "get" /\ q.agent = p.agent /\ q.key = p.key
        /\ q.rules = rules /\ q.listed = rules /\ q.ran = p.ran /\ q.allowed = p.allowed
        /\ q.value = p.value /\ q.said = p.said
    BY DEF PipeRows, PipeAts
  <1>2. p.ran = <<>> /\ <<>> \o rules = rules /\ IsPrefix(<<>>, rules)
    BY ConcatEmptySeq, NothingRan DEF SoundPipe
  <1> HIDE DEF q
  <1>3. SoundPipe(q)
    BY <1>1, <1>2 DEF SoundPipe, Working
  <1> QED BY <1>1, <1>3 DEF q

(* is allowed one, *)
LEMMA PipeIsAllowed ==
    ASSUME NEW p \in PipeRows, SoundPipe(p), p.at = "authorize"
    PROVE  LET q == [p EXCEPT !.at = "consume", !.allowed = @ \cup {Head(p.rules)}]
           IN  q \in PipeRows /\ SoundPipe(q)
  <1> DEFINE q == [p EXCEPT !.at = "consume", !.allowed = @ \cup {Head(p.rules)}]
  <1>0. p.rules \in Seq(Declared) /\ p.allowed \in SUBSET Declared /\ p.rules # <<>>
    BY DEF PipeRows, SoundPipe, Working
  <1>1. Head(p.rules) \in Declared
    BY <1>0, HeadTailProperties
  <1>2. /\ q \in PipeRows /\ q.at = "consume" /\ q.agent = p.agent /\ q.key = p.key
        /\ q.rules = p.rules /\ q.listed = p.listed /\ q.ran = p.ran
        /\ q.allowed = p.allowed \cup {Head(p.rules)} /\ q.value = p.value /\ q.said = p.said
    BY <1>0, <1>1 DEF PipeRows, PipeAts
  <1> HIDE DEF q
  <1>3. SoundPipe(q)
    BY <1>2 DEF SoundPipe, Working
  <1> QED BY <1>2, <1>3 DEF q

(* has called it, *)
LEMMA PipeRan ==
    ASSUME NEW p \in PipeRows, SoundPipe(p), p.at = "call"
    PROVE  LET ran == Append(p.ran, Head(p.rules)) IN
           /\ \A value \in {"done", "nothing"} :
                 (value = "nothing" => p.key = "conversation.delete") =>
                 LET q == [p EXCEPT !.ran = ran, !.rules = Tail(@), !.value = value,
                                    !.at = IF Len(p.rules) = 1 THEN "after" ELSE "get"]
                 IN  q \in PipeRows /\ SoundPipe(q)
           /\ LET q == [p EXCEPT !.ran = ran, !.at = "failed"]
              IN  q \in PipeRows /\ SoundPipe(q)
  <1> DEFINE ran == Append(p.ran, Head(p.rules))
  <1>0. /\ p.rules \in Seq(Declared) /\ p.ran \in Seq(Declared) /\ p.rules # <<>>
        /\ p.allowed \in SUBSET Declared /\ p.listed = p.ran \o p.rules /\ p.said \in {0, 1}
    BY DEF PipeRows, SoundPipe, Working
  <1>1. /\ Tail(p.rules) \in Seq(Declared) /\ ran \in Seq(Declared)
        /\ ran \o Tail(p.rules) = p.listed
        /\ Len(p.rules) = 1 <=> Tail(p.rules) = <<>>
        /\ Range(ran) = Range(p.ran) \cup {Head(p.rules)}
    <2> DEFINE s == p.ran
               t == p.rules
    <2>1. s \in Seq(Declared) /\ t \in Seq(Declared) /\ t # <<>>
      BY <1>0
    <2> HIDE DEF s, t
    <2>2. /\ Tail(t) \in Seq(Declared) /\ Append(s, Head(t)) \in Seq(Declared)
          /\ Append(s, Head(t)) \o Tail(t) = s \o t
          /\ Len(t) = 1 <=> Tail(t) = <<>>
          /\ Range(Append(s, Head(t))) = Range(s) \cup {Head(t)}
      BY <2>1, OneMoves
    <2> QED BY <1>0, <2>2 DEF s, t
  <1>2. IsPrefix(ran, p.listed) /\ (Tail(p.rules) = <<>> => ran = p.listed)
    <2> HIDE DEF ran
    <2> DEFINE t == Tail(p.rules)
    <2>1. t \in Seq(Declared) /\ ran \o t = p.listed
      BY <1>1
    <2> HIDE DEF t
    <2>2. IsPrefix(ran, ran \o t) /\ ran \o <<>> = ran
      BY <1>1, <2>1, PrefixOf, ConcatEmptySeq
    <2> QED BY <2>1, <2>2 DEF t
  <1>3. p.agent => Range(ran) \subseteq p.allowed
    BY <1>1 DEF SoundPipe
  <1>4. p.said = 0
    BY <1>0 DEF SoundPipe
  <1> HIDE DEF ran
  <1>5. ASSUME NEW value \in {"done", "nothing"},
               value = "nothing" => p.key = "conversation.delete"
        PROVE  LET q == [p EXCEPT !.ran = ran, !.rules = Tail(@), !.value = value,
                                  !.at = IF Len(p.rules) = 1 THEN "after" ELSE "get"]
               IN  q \in PipeRows /\ SoundPipe(q)
    <2> DEFINE q == [p EXCEPT !.ran = ran, !.rules = Tail(@), !.value = value,
                              !.at = IF Len(p.rules) = 1 THEN "after" ELSE "get"]
    <2>1. /\ q \in PipeRows /\ q.at = IF Len(p.rules) = 1 THEN "after" ELSE "get"
          /\ q.agent = p.agent /\ q.key = p.key /\ q.rules = Tail(p.rules)
          /\ q.listed = p.listed /\ q.ran = ran /\ q.allowed = p.allowed
          /\ q.value = value /\ q.said = p.said
      BY <1>1 DEF PipeRows, PipeAts
    <2> HIDE DEF q
    <2>2. SoundPipe(q)
      BY <1>1, <1>2, <1>3, <1>4, <1>5, <2>1 DEF SoundPipe, Working
    <2> QED BY <2>1, <2>2 DEF q
  <1>6. LET q == [p EXCEPT !.ran = ran, !.at = "failed"]
        IN  q \in PipeRows /\ SoundPipe(q)
    <2> DEFINE q == [p EXCEPT !.ran = ran, !.at = "failed"]
    <2>1. /\ q \in PipeRows /\ q.at = "failed" /\ q.agent = p.agent /\ q.key = p.key
          /\ q.listed = p.listed /\ q.ran = ran /\ q.allowed = p.allowed
          /\ q.value = p.value /\ q.said = p.said
      BY <1>1 DEF PipeRows, PipeAts, DriveEnds
    <2> HIDE DEF q
    <2>2. SoundPipe(q)
      BY <1>2, <1>3, <1>4, <2>1 DEF SoundPipe, Working
    <2> QED BY <2>1, <2>2 DEF q
  <1> QED BY <1>5, <1>6 DEF ran

(* and tells of what has run. *)
LEMMA PipeTells ==
    ASSUME NEW p \in PipeRows, SoundPipe(p), p.at = "after"
    PROVE  LET q == [p EXCEPT !.at = "answered", !.said = HandlerSays(p)]
           IN  /\ q \in PipeRows /\ SoundPipe(q)
               /\ p.key = "message.append" => q.said = 1
  <1> DEFINE q == [p EXCEPT !.at = "answered", !.said = HandlerSays(p)]
  <1>1. HandlerSays(p) \in 0..1
    BY DEF HandlerSays
  <1>2. /\ q \in PipeRows /\ q.at = "answered" /\ q.agent = p.agent /\ q.key = p.key
        /\ q.listed = p.listed /\ q.ran = p.ran /\ q.allowed = p.allowed
        /\ q.value = p.value /\ q.said = HandlerSays(p)
    BY <1>1 DEF PipeRows, PipeAts, DriveEnds
  <1> HIDE DEF q
  <1>3. SoundPipe(q)
    BY <1>2 DEF SoundPipe, Working
  <1>4. p.key = "message.append" => HandlerSays(p) = 1
    BY DEF HandlerSays, SoundPipe
  <1> QED BY <1>2, <1>3, <1>4 DEF q

-----------------------------------------------------------------------------
(* The pipeline: the drive of a slot. *)

DriveRows ==
    [at : {"none", "spawned", "resolve", "asking", "over"},
     handlers : Seq(Offered), listed : Seq(Offered), asked : Seq(Offered), mode : BOOLEAN,
     flips : 0..MaxFlips, owners : SUBSET Offered, lost : 0..Len(SlotHandlers)]

(* What a drive has listed is who was asked and who is left; while it goes   *)
(* on, every owner but those whose answers were lost is still to come.       *)
SoundDrive(r) ==
    /\ r.at \in {"none", "spawned"} =>
          r.handlers = <<>> /\ r.asked = <<>> /\ r.listed = <<>> /\ r.owners = {}
    /\ r.at \in {"resolve", "asking"} => r.handlers # <<>> /\ Cardinality(r.owners) <= r.lost
    /\ r.asked \o r.handlers = r.listed
    /\ Len(r.listed) <= Len(SlotHandlers) /\ r.lost <= Len(r.asked)
    /\ IsFiniteSet(r.owners) /\ Cardinality(r.owners) <= 1 + r.lost

(* It has ended although handlers are left and nobody has claimed the        *)
(* message.                                                                  *)
Broken(r) == r.at = "over" /\ r.handlers # <<>> /\ r.owners = {}

LEMMA OrderLengths == Len(Providers) \in Nat /\ Len(SlotHandlers) \in Nat
  BY PipelineAssumption, LenProperties

LEMMA FirstDrive == NewDrive \in DriveRows /\ SoundDrive(NewDrive)
  <1>1. <<>> \in Seq(Offered) /\ <<>> \o <<>> = <<>> /\ Len(<<>>) = 0
    BY EmptySeq, ConcatEmptySeq
  <1>2. IsFiniteSet({}) /\ Cardinality({}) = 0
    BY FS_EmptySet
  <1>3. NewDrive \in DriveRows
    BY <1>1, OrderLengths, PipelineAssumption DEF NewDrive, DriveRows
  <1>4. SoundDrive(NewDrive)
    BY <1>1, <1>2, OrderLengths DEF NewDrive, SoundDrive
  <1> QED BY <1>3, <1>4

LEMMA DriveFields ==
    ASSUME NEW r \in DriveRows
    PROVE  /\ r.handlers \in Seq(Offered) /\ r.listed \in Seq(Offered)
           /\ r.asked \in Seq(Offered) /\ r.owners \in SUBSET Offered /\ r.lost \in Nat
           /\ Len(r.handlers) \in Nat /\ Len(r.asked) \in Nat /\ Len(r.listed) \in Nat
  <1>1. /\ r.handlers \in Seq(Offered) /\ r.listed \in Seq(Offered)
        /\ r.asked \in Seq(Offered) /\ r.owners \in SUBSET Offered /\ r.lost \in Nat
    BY OrderLengths DEF DriveRows
  <1> QED BY <1>1, LenProperties

(* A drive ends, *)
LEMMA DriveEnded ==
    ASSUME NEW r \in DriveRows, SoundDrive(r), r.at # "none"
    PROVE  LET q == [r EXCEPT !.at = "over"]
           IN  /\ q \in DriveRows /\ SoundDrive(q)
               /\ r.at = "spawned" => ~Broken(q)
  <1> DEFINE q == [r EXCEPT !.at = "over"]
  <1>1. /\ q \in DriveRows /\ q.at = "over" /\ q.handlers = r.handlers /\ q.asked = r.asked
        /\ q.listed = r.listed /\ q.owners = r.owners /\ q.lost = r.lost
    BY DEF DriveRows
  <1> HIDE DEF q
  <1>2. SoundDrive(q) /\ (r.at = "spawned" => ~Broken(q))
    BY <1>1 DEF SoundDrive, Broken
  <1> QED BY <1>1, <1>2 DEF q

(* lists the handlers, *)
LEMMA DriveLists ==
    ASSUME NEW r \in DriveRows, SoundDrive(r), r.at = "spawned",
           NEW there \in Seq(Offered), there # <<>>, Len(there) <= Len(SlotHandlers)
    PROVE  LET q == [r EXCEPT !.at = "resolve", !.handlers = there, !.listed = there]
           IN  q \in DriveRows /\ SoundDrive(q)
  <1> DEFINE q == [r EXCEPT !.at = "resolve", !.handlers = there, !.listed = there]
  <1>1. /\ q \in DriveRows /\ q.at = "resolve" /\ q.handlers = there /\ q.asked = r.asked
        /\ q.listed = there /\ q.owners = r.owners /\ q.lost = r.lost
    BY DEF DriveRows
  <1>2. /\ r.asked = <<>> /\ r.owners = {} /\ <<>> \o there = there
        /\ Cardinality({}) = 0 /\ r.lost \in Nat
    BY ConcatEmptySeq, FS_EmptySet, DriveFields DEF SoundDrive
  <1> HIDE DEF q
  <1>3. SoundDrive(q)
    BY <1>1, <1>2 DEF SoundDrive
  <1> QED BY <1>1, <1>3 DEF q

(* reads the activation of the next, *)
LEMMA DriveResolves ==
    ASSUME NEW r \in DriveRows, SoundDrive(r), r.at = "resolve", NEW mode \in BOOLEAN
    PROVE  LET q == [r EXCEPT !.at = "asking", !.mode = mode]
           IN  q \in DriveRows /\ SoundDrive(q) /\ q.handlers = r.handlers
  <1> DEFINE q == [r EXCEPT !.at = "asking", !.mode = mode]
  <1>1. /\ q \in DriveRows /\ q.at = "asking" /\ q.handlers = r.handlers /\ q.asked = r.asked
        /\ q.listed = r.listed /\ q.owners = r.owners /\ q.lost = r.lost
    BY DEF DriveRows
  <1> HIDE DEF q
  <1>2. SoundDrive(q)
    BY <1>1 DEF SoundDrive
  <1> QED BY <1>1, <1>2 DEF q

(* and goes on with the rest, or ends. *)
AfterAnswer(r, outcome, owners, lost) ==
    LET rest == Remaining(r.handlers, outcome) IN
    [r EXCEPT !.handlers = rest, !.asked = Append(@, Head(r.handlers)),
              !.owners = owners, !.lost = lost,
              !.at = IF GoesOn(outcome) /\ rest # <<>> THEN "resolve" ELSE "over"]

LEMMA DriveAnswered ==
    ASSUME NEW r \in DriveRows, SoundDrive(r), r.at = "asking",
           NEW outcome \in HandlerOutcomes, NEW owners, NEW lost,
           \/ outcome = "claim" /\ owners = r.owners \cup {Head(r.handlers)} /\ lost = r.lost
           \/ outcome # "claim" /\ owners = r.owners /\ lost = r.lost
           \/ outcome = "fail" /\ owners = r.owners \cup {Head(r.handlers)} /\ lost = r.lost + 1
    PROVE  LET q == AfterAnswer(r, outcome, owners, lost)
           IN  q \in DriveRows /\ SoundDrive(q) /\ q.at # "asking" /\ ~Broken(q)
  <1> DEFINE t == r.handlers
             a == r.asked
             rest == Tail(t)
             asked == Append(a, Head(t))
             at == IF GoesOn(outcome) /\ rest # <<>> THEN "resolve" ELSE "over"
             q == AfterAnswer(r, outcome, owners, lost)
  <1>1. /\ t \in Seq(Offered) /\ a \in Seq(Offered) /\ t # <<>> /\ r.listed = a \o t
        /\ r.owners \in SUBSET Offered /\ r.lost \in Nat /\ IsFiniteSet(r.owners)
        /\ Cardinality(r.owners) <= r.lost /\ r.lost <= Len(a)
        /\ Len(r.listed) <= Len(SlotHandlers)
    BY DriveFields DEF SoundDrive
  <1>2. Len(a) \in Nat /\ Len(t) \in Nat /\ Len(t) > 0 /\ Len(r.listed) = Len(a) + Len(t)
    <2> HIDE DEF t, a
    <2>1. Len(a) \in Nat /\ Len(t) \in Nat /\ Len(t) > 0
      BY <1>1, LenProperties, EmptySeq
    <2>2. Len(a \o t) = Len(a) + Len(t)
      BY <1>1, ConcatProperties
    <2> QED BY <1>1, <2>1, <2>2
  <1>3. /\ Head(t) \in Offered /\ rest \in Seq(Offered) /\ asked \in Seq(Offered)
        /\ asked \o rest = r.listed /\ Len(asked) = Len(a) + 1
    <2> HIDE DEF t, a
    <2>1. /\ Head(t) \in Offered /\ Tail(t) \in Seq(Offered)
          /\ Append(a, Head(t)) \in Seq(Offered)
          /\ Append(a, Head(t)) \o Tail(t) = a \o t
          /\ Len(Append(a, Head(t))) = Len(a) + 1
      BY <1>1, OneMoves
    <2> QED BY <1>1, <2>1
  <1>4. /\ owners \in SUBSET Offered /\ IsFiniteSet(owners) /\ lost \in {r.lost, r.lost + 1}
        /\ outcome # "claim" => Cardinality(owners) <= lost
        /\ Cardinality(owners) <= 1 + lost
        /\ outcome = "claim" => owners # {}
    <2> HIDE DEF t, a
    <2>1. /\ IsFiniteSet(r.owners \cup {Head(t)}) /\ Cardinality(r.owners) \in Nat
          /\ Cardinality(r.owners \cup {Head(t)}) \in {Cardinality(r.owners), Cardinality(r.owners) + 1}
      BY <1>1, FS_AddElement, FS_CardinalityType
    <2>2. \/ outcome = "claim" /\ owners = r.owners \cup {Head(t)} /\ lost = r.lost
          \/ outcome # "claim" /\ owners = r.owners /\ lost = r.lost
          \/ outcome = "fail" /\ owners = r.owners \cup {Head(t)} /\ lost = r.lost + 1
      BY DEF t
    <2> DEFINE more == r.owners \cup {Head(t)}
               n    == Cardinality(r.owners)
    <2>3. /\ more \in SUBSET Offered /\ more # {} /\ IsFiniteSet(more)
          /\ Cardinality(more) \in {n, n + 1} /\ n \in Nat /\ n <= r.lost /\ r.lost \in Nat
      BY <1>1, <1>3, <2>1
    <2> HIDE DEF more, n
    <2>4. CASE outcome = "claim" /\ owners = more /\ lost = r.lost
      BY <2>3, <2>4
    <2>5. CASE outcome # "claim" /\ owners = r.owners /\ lost = r.lost
      BY <1>1, <2>3, <2>5 DEF n
    <2>6. CASE outcome = "fail" /\ owners = more /\ lost = r.lost + 1
      BY <2>3, <2>6
    <2> QED BY <2>2, <2>4, <2>5, <2>6 DEF more
  <1>5. lost \in 0..Len(SlotHandlers) /\ lost <= Len(asked)
    <2> HIDE DEF t, a, asked
    <2> QED BY <1>1, <1>2, <1>3, <1>4, OrderLengths
  <1>6. q = [r EXCEPT !.handlers = rest, !.asked = asked, !.owners = owners, !.lost = lost,
                      !.at = at]
    BY DEF AfterAnswer, Remaining
  <1>7. at \in {"resolve", "over"} /\ (at = "resolve" <=> outcome # "claim" /\ rest # <<>>)
    BY DEF GoesOn
  <1> HIDE DEF t, a, rest, asked, at, q
  <1>8. /\ q \in DriveRows /\ q.at = at /\ q.handlers = rest /\ q.asked = asked
        /\ q.listed = r.listed /\ q.owners = owners /\ q.lost = lost
    BY <1>3, <1>4, <1>5, <1>6, <1>7 DEF DriveRows
  <1>9. SoundDrive(q) /\ ~Broken(q)
    BY <1>1, <1>3, <1>4, <1>5, <1>7, <1>8 DEF SoundDrive, Broken
  <1> QED BY <1>7, <1>8, <1>9 DEF q

-----------------------------------------------------------------------------
(* The pipeline: the inductive invariant. *)

RequestsAreSound == \A d \in Dispatches : SoundPipe(pipes[d])
DrivesAreSound   == \A d \in Dispatches : SoundDrive(slotDrives[d])

(* A drive follows an event, knows no later switch, and breaks only by what  *)
(* happens outside. *)
DrivesFollow    == \A d \in Dispatches : slotDrives[d].at # "none" => pipes[d].said = 1
FlipsAreCounted == \A d \in Dispatches : slotDrives[d].flips <= upset.flips
BreaksAreRare   == \A d \in Dispatches : Broken(slotDrives[d]) => upset.upheavals > 0

PipeInv ==
    /\ PipelineTypeOK
    /\ RequestsAreSound
    /\ DrivesAreSound
    /\ DrivesFollow
    /\ FlipsAreCounted
    /\ BreaksAreRare
    /\ HandlersKnowTheirMode

LEMMA PipeTypes ==
    PipelineTypeOK <=>
        /\ ready \in [Exts -> {"absent", "entry", "worker"}]
        /\ onceLeft \in SUBSET Declared /\ requested \in SUBSET Declared
        /\ taskMode \in {"unset", "on", "off"}
        /\ pipes \in [Dispatches -> PipeRows] /\ slotDrives \in [Dispatches -> DriveRows]
        /\ upset \in [grants : 0..MaxAllowed, flips : 0..MaxFlips, upheavals : 0..MaxUpheavals]
  BY DEF PipelineTypeOK, PipeRows, DriveRows, Declared, Offered

LEMMA PipeInitially == PipeInit => PipeInv
  <1> SUFFICES ASSUME PipeInit PROVE PipeInv
    OBVIOUS
  <1>1. /\ NewPipe \in PipeRows /\ SoundPipe(NewPipe)
        /\ NewDrive \in DriveRows /\ SoundDrive(NewDrive)
    BY FirstPipe, FirstDrive
  <1>2. NewDrive.at = "none" /\ NewDrive.flips = 0
    BY DEF NewDrive
  <1>3. \A d \in Dispatches : pipes[d] = NewPipe /\ slotDrives[d] = NewDrive
    BY DEF PipeInit
  <1>4. PipelineTypeOK
    BY <1>1, PipelineAssumption, PipeTypes DEF PipeInit
  <1>5. RequestsAreSound /\ DrivesAreSound
    BY <1>1, <1>3 DEF RequestsAreSound, DrivesAreSound
  <1>6. DrivesFollow /\ FlipsAreCounted /\ BreaksAreRare /\ HandlersKnowTheirMode
    BY <1>2, <1>3
    DEF DrivesFollow, FlipsAreCounted, BreaksAreRare, HandlersKnowTheirMode, Broken, PipeInit
  <1> QED BY <1>4, <1>5, <1>6 DEF PipeInv

(* A request that has not told of anything moves. *)
LEMMA PipeMoves ==
    ASSUME PipeInv, NEW d \in Dispatches, NEW q \in PipeRows, SoundPipe(q),
           pipes[d].at # "answered", Turn(d, q),
           onceLeft' \in SUBSET Declared, requested' \in SUBSET Declared,
           UNCHANGED <<ready, taskMode, slotDrives, upset>>
    PROVE  PipeInv'
  <1>1. pipes' = [pipes EXCEPT ![d] = q] /\ pipes \in [Dispatches -> PipeRows]
    BY PipeTypes DEF Turn, PipeInv
  <1>2. /\ pipes' \in [Dispatches -> PipeRows] /\ pipes'[d] = q
        /\ \A e \in Dispatches : e # d => pipes'[e] = pipes[e]
    BY <1>1
  <1>3. PipelineTypeOK'
    BY <1>2, PipeTypes DEF PipeInv, PipelineTypeOK, PipeRows, DriveRows, Declared, Offered
  <1>4. RequestsAreSound'
    BY <1>2 DEF PipeInv, RequestsAreSound
  <1>5. slotDrives[d].at = "none"
    BY DEF PipeInv, DrivesFollow, RequestsAreSound, SoundPipe
  <1>6. DrivesFollow'
    BY <1>2, <1>5 DEF PipeInv, DrivesFollow
  <1>7. DrivesAreSound' /\ FlipsAreCounted' /\ BreaksAreRare' /\ HandlersKnowTheirMode'
    BY DEF PipeInv, DrivesAreSound, FlipsAreCounted, BreaksAreRare, HandlersKnowTheirMode
  <1> QED BY <1>3, <1>4, <1>6, <1>7 DEF PipeInv

(* A drive moves that has begun. *)
LEMMA DriveMoves ==
    ASSUME PipeInv, NEW d \in Dispatches, NEW q \in DriveRows, SoundDrive(q), ~Broken(q),
           slotDrives[d].at # "none", q.flips = slotDrives[d].flips,
           q.at = "asking" /\ Head(q.handlers) = SlotHandlers[1] => (q.mode <=> taskMode = "on"),
           Drive(d, q), UNCHANGED <<ready, onceLeft, requested, taskMode, pipes, upset>>
    PROVE  PipeInv'
  <1>1. slotDrives' = [slotDrives EXCEPT ![d] = q] /\ slotDrives \in [Dispatches -> DriveRows]
    BY PipeTypes DEF Drive, PipeInv
  <1>2. /\ slotDrives' \in [Dispatches -> DriveRows] /\ slotDrives'[d] = q
        /\ \A e \in Dispatches : e # d => slotDrives'[e] = slotDrives[e]
    BY <1>1
  <1>3. PipelineTypeOK'
    BY <1>2, PipeTypes DEF PipeInv, PipelineTypeOK, PipeRows, DriveRows, Declared, Offered
  <1>4. RequestsAreSound' /\ DrivesAreSound'
    BY <1>2 DEF PipeInv, RequestsAreSound, DrivesAreSound
  <1>5. DrivesFollow' /\ FlipsAreCounted' /\ BreaksAreRare'
    BY <1>2 DEF PipeInv, DrivesFollow, FlipsAreCounted, BreaksAreRare
  <1>6. HandlersKnowTheirMode'
    BY <1>2 DEF PipeInv, HandlersKnowTheirMode
  <1> QED BY <1>3, <1>4, <1>5, <1>6 DEF PipeInv

-----------------------------------------------------------------------------
(* The pipeline: its steps. *)

LEMMA RequestSteps ==
    ASSUME PipeInv, NEW d \in Dispatches,
           \/ AskHandler(d) \/ Ensure(d) \/ List(d) \/ Get(d)
           \/ AuthorizeDispatch(d) \/ ConsumeOnce(d) \/ Call(d)
    PROVE  PipeInv'
  <1> DEFINE p == pipes[d]
  <1>1. /\ p \in PipeRows /\ SoundPipe(p)
        /\ onceLeft \in SUBSET Declared /\ requested \in SUBSET Declared
    BY PipeTypes DEF PipeInv, RequestsAreSound
  <1>2. p.at \in Working => Head(p.rules) \in Declared
    <2>1. p.rules \in Seq(Declared) /\ (p.at \in Working => p.rules # <<>>)
      BY <1>1 DEF PipeRows, SoundPipe
    <2> QED BY <2>1, HeadTailProperties
  <1>3. Providers \in Seq(Declared)
    BY PipelineAssumption DEF Declared
  <1>4. PresentOf(Providers) \in Seq(Declared)
    BY <1>3, PresentAreListed DEF Declared
  <1>5. ASSUME NEW at, p.at \notin DriveEnds \cup {"new", "after"},
               at \in {"failed", "gone"}
                   \/ (p.at = "ensure" /\ at = "list")
                   \/ (p.at = "get" /\ at = IF p.agent THEN "authorize" ELSE "call")
                   \/ (p.at = "consume" /\ at = "call"),
               GoTo(d, at), onceLeft' \in SUBSET Declared, requested' \in SUBSET Declared,
               UNCHANGED <<ready, taskMode, slotDrives, upset>>
        PROVE  PipeInv'
    <2>1. [p EXCEPT !.at = at] \in PipeRows /\ SoundPipe([p EXCEPT !.at = at])
      BY <1>1, <1>5, PipeGoes
    <2>2. Turn(d, [p EXCEPT !.at = at]) /\ p.at # "answered"
      BY <1>5 DEF GoTo, DriveEnds
    <2> QED BY <1>5, <2>1, <2>2, PipeMoves
  <1>6. CASE AskHandler(d)
    <2>1. PICK key \in ActionKeys, role \in {"none", "operator", "agent"}, agent \in BOOLEAN :
              Turn(d, [p EXCEPT !.at = "ensure", !.key = key, !.role = role, !.agent = agent])
      BY <1>6 DEF AskHandler
    <2> DEFINE q == [p EXCEPT !.at = "ensure", !.key = key, !.role = role, !.agent = agent]
    <2>2. p.at = "new" /\ UNCHANGED <<ready, onceLeft, requested, taskMode, slotDrives, upset>>
      BY <1>6 DEF AskHandler
    <2>3. q \in PipeRows /\ SoundPipe(q)
      BY <1>1, <2>2, PipeAsked
    <2> HIDE DEF q
    <2> QED BY <1>1, <2>1, <2>2, <2>3, PipeMoves DEF q
  <1>7. CASE Ensure(d)
    <2>1. p.at = "ensure" /\ UNCHANGED <<ready, onceLeft, requested, taskMode, slotDrives, upset>>
          /\ (GoTo(d, "list") \/ GoTo(d, "failed"))
      BY <1>7 DEF Ensure, Fail
    <2> QED BY <1>1, <1>5, <2>1 DEF DriveEnds
  <1>8. CASE List(d)
    <2> DEFINE rules == PresentOf(Providers)
               q == [p EXCEPT !.at = "get", !.rules = rules, !.listed = rules]
    <2>1. p.at = "list" /\ UNCHANGED <<ready, onceLeft, requested, taskMode, slotDrives, upset>>
          /\ \/ GoTo(d, "failed")
             \/ rules # <<>> /\ Turn(d, q)
      <3> HIDE DEF rules
      <3> QED BY <1>8 DEF List, Fail, rules
    <2>2. CASE GoTo(d, "failed")
      BY <1>1, <1>5, <2>1, <2>2 DEF DriveEnds
    <2>3. CASE rules # <<>> /\ Turn(d, q)
      <3>1. q \in PipeRows /\ SoundPipe(q)
        <4> HIDE DEF rules
        <4> QED BY <1>1, <1>4, <2>1, <2>3, PipeLists DEF rules
      <3> HIDE DEF q
      <3> QED BY <1>1, <2>1, <2>3, <3>1, PipeMoves
    <2> QED BY <2>1, <2>2, <2>3
  <1>9. CASE Get(d)
    <2>1. p.at = "get" /\ UNCHANGED <<ready, onceLeft, requested, taskMode, slotDrives, upset>>
          /\ (GoTo(d, "failed") \/ GoTo(d, IF p.agent THEN "authorize" ELSE "call"))
      BY <1>9 DEF Get, Fail
    <2> QED BY <1>1, <1>5, <2>1 DEF DriveEnds
  <1>10. CASE AuthorizeDispatch(d)
    <2> DEFINE q == [p EXCEPT !.at = "consume", !.allowed = @ \cup {Head(p.rules)}]
    <2>1. p.at = "authorize" /\ UNCHANGED <<ready, onceLeft, taskMode, slotDrives, upset>>
          /\ \/ Turn(d, q) /\ requested' = requested
             \/ GoTo(d, "failed") /\ requested' = requested \cup {Head(p.rules)}
      BY <1>10 DEF AuthorizeDispatch, Fail, Head1
    <2>2. requested' \in SUBSET Declared
      BY <1>1, <1>2, <2>1 DEF Working
    <2>3. q \in PipeRows /\ SoundPipe(q)
      BY <1>1, <2>1, PipeIsAllowed
    <2>4. CASE Turn(d, q)
      <3> HIDE DEF q
      <3> QED BY <1>1, <2>1, <2>2, <2>3, <2>4, PipeMoves
    <2>5. CASE GoTo(d, "failed")
      BY <1>1, <1>5, <2>1, <2>2, <2>5 DEF DriveEnds
    <2> QED BY <2>1, <2>4, <2>5
  <1>11. CASE ConsumeOnce(d)
    <2>1. p.at = "consume" /\ GoTo(d, "call") /\ onceLeft' \in {onceLeft, onceLeft \ {Head1(d)}}
          /\ UNCHANGED <<ready, requested, taskMode, slotDrives, upset>>
      BY <1>11 DEF ConsumeOnce
    <2> QED BY <1>1, <1>5, <2>1 DEF DriveEnds
  <1>12. CASE Call(d)
    <2> DEFINE ran == Append(p.ran, Head(p.rules))
               At == IF Len(p.rules) = 1 THEN "after" ELSE "get"
    <2>1. p.at = "call" /\ UNCHANGED <<ready, onceLeft, requested, taskMode, slotDrives, upset>>
      BY <1>12 DEF Call
    <2>2. \/ \E value \in {"done", "nothing"} :
                /\ value = "nothing" => p.key = "conversation.delete"
                /\ Turn(d, [p EXCEPT !.ran = ran, !.rules = Tail(@), !.value = value,
                                     !.at = IF Len(p.rules) = 1 THEN "after" ELSE "get"])
          \/ Turn(d, [p EXCEPT !.ran = ran, !.at = "failed"])
          \/ GoTo(d, "failed")
      BY <1>12 DEF Call, Fail, Head1
    <2>3. ASSUME NEW value \in {"done", "nothing"},
                 value = "nothing" => p.key = "conversation.delete",
                 Turn(d, [p EXCEPT !.ran = ran, !.rules = Tail(@), !.value = value,
                                   !.at = IF Len(p.rules) = 1 THEN "after" ELSE "get"])
          PROVE  PipeInv'
      <3> DEFINE q == [p EXCEPT !.ran = ran, !.rules = Tail(@), !.value = value,
                                !.at = IF Len(p.rules) = 1 THEN "after" ELSE "get"]
      <3>1. q \in PipeRows /\ SoundPipe(q)
        BY <1>1, <2>1, <2>3, PipeRan
      <3>2. Turn(d, q)
        BY <2>3
      <3> HIDE DEF q
      <3> QED BY <1>1, <2>1, <3>1, <3>2, PipeMoves
    <2>4. CASE Turn(d, [p EXCEPT !.ran = ran, !.at = "failed"])
      <3> DEFINE q == [p EXCEPT !.ran = ran, !.at = "failed"]
      <3>1. q \in PipeRows /\ SoundPipe(q)
        BY <1>1, <2>1, PipeRan
      <3>2. Turn(d, q)
        BY <2>4
      <3> HIDE DEF q
      <3> QED BY <1>1, <2>1, <3>1, <3>2, PipeMoves
    <2>5. CASE GoTo(d, "failed")
      BY <1>1, <1>5, <2>1, <2>5 DEF DriveEnds
    <2> QED BY <2>2, <2>3, <2>4, <2>5
  <1> QED BY <1>6, <1>7, <1>8, <1>9, <1>10, <1>11, <1>12

LEMMA AfterStep ==
    ASSUME PipeInv, NEW d \in Dispatches, After(d)
    PROVE  PipeInv'
  <1> DEFINE p == pipes[d]
             q == [p EXCEPT !.at = "answered", !.said = HandlerSays(p)]
             r == slotDrives[d]
             spawned == [r EXCEPT !.at = "spawned", !.flips = upset.flips]
  <1>1. /\ p \in PipeRows /\ SoundPipe(p) /\ r \in DriveRows /\ SoundDrive(r)
        /\ pipes \in [Dispatches -> PipeRows] /\ slotDrives \in [Dispatches -> DriveRows]
        /\ upset.flips \in 0..MaxFlips
    BY PipeTypes DEF PipeInv, RequestsAreSound, DrivesAreSound
  <1>2. p.at = "after" /\ Turn(d, q)
        /\ UNCHANGED <<ready, onceLeft, requested, taskMode, upset>>
        /\ slotDrives' = IF p.key # "message.append" THEN slotDrives
                         ELSE [slotDrives EXCEPT ![d].at = "spawned", ![d].flips = upset.flips]
    BY DEF After
  <1>3. q \in PipeRows /\ SoundPipe(q) /\ (p.key = "message.append" => q.said = 1)
    BY <1>1, <1>2, PipeTells
  <1>4. r.at = "none"
    BY <1>2 DEF PipeInv, DrivesFollow, RequestsAreSound, SoundPipe
  <1>5. /\ spawned \in DriveRows /\ spawned.at = "spawned" /\ spawned.flips = upset.flips
        /\ SoundDrive(spawned)
    <2>1. /\ spawned \in DriveRows /\ spawned.at = "spawned" /\ spawned.flips = upset.flips
          /\ spawned.handlers = r.handlers /\ spawned.asked = r.asked
          /\ spawned.listed = r.listed /\ spawned.owners = r.owners /\ spawned.lost = r.lost
      BY <1>1 DEF DriveRows
    <2> HIDE DEF spawned, r
    <2> QED BY <1>1, <1>4, <2>1 DEF SoundDrive
  <1> HIDE DEF q
  <1>6. /\ pipes' \in [Dispatches -> PipeRows] /\ pipes'[d] = q
        /\ \A e \in Dispatches : e # d => pipes'[e] = pipes[e]
    BY <1>1, <1>2, <1>3 DEF Turn
  <1>7. slotDrives' = IF p.key # "message.append" THEN slotDrives
                      ELSE [slotDrives EXCEPT ![d] = spawned]
    BY <1>1, <1>2
  <1> HIDE DEF spawned, r, p
  <1>8. /\ slotDrives' \in [Dispatches -> DriveRows]
        /\ \A e \in Dispatches : e # d => slotDrives'[e] = slotDrives[e]
        /\ slotDrives'[d] = IF p.key # "message.append" THEN slotDrives[d] ELSE spawned
    BY <1>1, <1>5, <1>7
  <1>9. PipelineTypeOK'
    BY <1>2, <1>6, <1>8, PipeTypes
    DEF PipeInv, PipelineTypeOK, PipeRows, DriveRows, Declared, Offered
  <1>10. RequestsAreSound'
    BY <1>3, <1>6 DEF PipeInv, RequestsAreSound
  <1>11. DrivesAreSound'
    BY <1>5, <1>8 DEF PipeInv, DrivesAreSound
  <1>12. DrivesFollow'
    BY <1>3, <1>4, <1>6, <1>8 DEF PipeInv, DrivesFollow, r
  <1>13. FlipsAreCounted'
    <2>1. upset.flips <= upset.flips
      BY <1>1
    <2> QED BY <1>2, <1>5, <1>8, <2>1 DEF PipeInv, FlipsAreCounted
  <1>14. BreaksAreRare'
    BY <1>2, <1>5, <1>8 DEF PipeInv, BreaksAreRare, Broken
  <1>15. HandlersKnowTheirMode'
    BY <1>2, <1>5, <1>8 DEF PipeInv, HandlersKnowTheirMode
  <1> QED BY <1>9, <1>10, <1>11, <1>12, <1>13, <1>14, <1>15 DEF PipeInv

LEMMA DriveSteps ==
    ASSUME PipeInv, NEW d \in Dispatches,
           ListHandlers(d) \/ ResolveMode(d) \/ HandlerAnswers(d) \/ HandlerIsLost(d)
    PROVE  PipeInv'
  <1> DEFINE r == slotDrives[d]
  <1>1. r \in DriveRows /\ SoundDrive(r)
    BY PipeTypes DEF PipeInv, DrivesAreSound
  <1>2. CASE ListHandlers(d)
    <2> DEFINE there == PresentOf(SlotHandlers)
               ended == [r EXCEPT !.at = "over"]
               q     == [r EXCEPT !.at = "resolve", !.handlers = there, !.listed = there]
    <2>1. /\ r.at = "spawned"
          /\ UNCHANGED <<ready, onceLeft, requested, taskMode, pipes, upset>>
          /\ \/ Drive(d, ended)
             \/ there # <<>> /\ Drive(d, q)
      <3> HIDE DEF there
      <3> QED BY <1>2 DEF ListHandlers, there
    <2>2. CASE Drive(d, ended)
      <3>1. ended \in DriveRows /\ SoundDrive(ended) /\ ~Broken(ended)
        BY <1>1, <2>1, DriveEnded
      <3>2. ended.at = "over" /\ ended.flips = r.flips
        BY <1>1 DEF DriveRows
      <3> HIDE DEF ended
      <3> QED BY <2>1, <2>2, <3>1, <3>2, DriveMoves
    <2>3. CASE there # <<>> /\ Drive(d, q)
      <3>1. there \in Seq(Offered) /\ Len(there) <= Len(SlotHandlers)
        BY PipelineAssumption, PresentAreListed DEF Offered
      <3> HIDE DEF there
      <3>2. q \in DriveRows /\ SoundDrive(q)
        BY <1>1, <2>1, <2>3, <3>1, DriveLists
      <3>3. q.at = "resolve" /\ q.flips = r.flips
        BY <1>1 DEF DriveRows
      <3> HIDE DEF q
      <3> QED BY <2>1, <2>3, <3>2, <3>3, DriveMoves DEF Broken
    <2> QED BY <2>1, <2>2, <2>3
  <1>3. CASE ResolveMode(d)
    <2> DEFINE mode == Mode(Head(r.handlers))
               q == [r EXCEPT !.at = "asking", !.mode = mode]
    <2>1. r.at = "resolve" /\ Drive(d, q)
          /\ UNCHANGED <<ready, onceLeft, requested, taskMode, pipes, upset>>
      BY <1>3 DEF ResolveMode
    <2>2. mode \in BOOLEAN /\ (Head(r.handlers) = SlotHandlers[1] => (mode <=> taskMode = "on"))
      BY DEF Mode
    <2> HIDE DEF mode
    <2>3. q \in DriveRows /\ SoundDrive(q) /\ q.handlers = r.handlers
      BY <1>1, <2>1, <2>2, DriveResolves
    <2>4. q.at = "asking" /\ q.flips = r.flips /\ q.mode = mode
      BY <1>1 DEF DriveRows
    <2> HIDE DEF q
    <2>5. Head(q.handlers) = SlotHandlers[1] => (q.mode <=> taskMode = "on")
      BY <2>2, <2>3, <2>4
    <2> QED BY <2>1, <2>3, <2>4, <2>5, DriveMoves DEF Broken
  <1>4. ASSUME NEW outcome \in HandlerOutcomes, NEW owners, NEW lost,
               \/ outcome = "claim" /\ owners = r.owners \cup {Head(r.handlers)} /\ lost = r.lost
               \/ outcome # "claim" /\ owners = r.owners /\ lost = r.lost
               \/ /\ outcome = "fail" /\ owners = r.owners \cup {Head(r.handlers)}
                  /\ lost = r.lost + 1,
               r.at = "asking", Answered(d, outcome, owners, lost),
               UNCHANGED <<ready, onceLeft, requested, taskMode, pipes, upset>>
        PROVE  PipeInv'
    <2> DEFINE q == AfterAnswer(r, outcome, owners, lost)
    <2>1. Drive(d, q)
      BY <1>4 DEF Answered, AfterAnswer
    <2>2. q \in DriveRows /\ SoundDrive(q) /\ q.at # "asking" /\ ~Broken(q)
      BY <1>1, <1>4, DriveAnswered
    <2>3. q.flips = r.flips
      BY <1>1 DEF DriveRows, AfterAnswer
    <2> HIDE DEF q
    <2> QED BY <1>4, <2>1, <2>2, <2>3, DriveMoves
  <1>5. CASE HandlerAnswers(d)
    <2>1. PICK outcome \in HandlerOutcomes :
              Answered(d, outcome,
                       IF outcome = "claim" THEN r.owners \cup {Head(r.handlers)} ELSE r.owners,
                       r.lost)
      BY <1>5 DEF HandlerAnswers
    <2>2. r.at = "asking" /\ UNCHANGED <<ready, onceLeft, requested, taskMode, pipes, upset>>
      BY <1>5 DEF HandlerAnswers
    <2> HIDE DEF r
    <2>3. CASE outcome = "claim"
      <3>1. Answered(d, "claim", r.owners \cup {Head(r.handlers)}, r.lost)
        BY <2>1, <2>3
      <3> QED BY <1>4, <2>2, <2>3, <3>1
    <2>4. CASE outcome # "claim"
      <3>1. Answered(d, outcome, r.owners, r.lost)
        BY <2>1, <2>4
      <3> QED BY <1>4, <2>2, <2>4, <3>1
    <2> QED BY <2>3, <2>4
  <1>6. CASE HandlerIsLost(d)
    <2>1. r.at = "asking" /\ UNCHANGED <<ready, onceLeft, requested, taskMode, pipes, upset>>
          /\ \/ Answered(d, "fail", r.owners, r.lost)
             \/ Answered(d, "fail", r.owners \cup {Head(r.handlers)}, r.lost + 1)
      BY <1>6 DEF HandlerIsLost
    <2>2. "fail" \in HandlerOutcomes
      BY DEF HandlerOutcomes
    <2> HIDE DEF r
    <2> QED BY <1>4, <2>1, <2>2
  <1> QED BY <1>2, <1>3, <1>5, <1>6

LEMMA OtherSteps ==
    ASSUME PipeInv, Approve \/ Flip \/ Swapped \/ PipelineRestarts
    PROVE  PipeInv'
  <1>0. /\ ready \in [Exts -> {"absent", "entry", "worker"}]
        /\ onceLeft \in SUBSET Declared /\ requested \in SUBSET Declared
        /\ pipes \in [Dispatches -> PipeRows] /\ slotDrives \in [Dispatches -> DriveRows]
        /\ upset \in [grants : 0..MaxAllowed, flips : 0..MaxFlips, upheavals : 0..MaxUpheavals]
        /\ {MaxAllowed, MaxFlips, MaxUpheavals} \subseteq Nat
    BY PipeTypes, PipelineAssumption DEF PipeInv
  <1>1. CASE Approve
    <2>1. /\ upset' = [upset EXCEPT !.grants = @ + 1] /\ upset.grants < MaxAllowed
          /\ UNCHANGED <<ready, taskMode, pipes, slotDrives>>
          /\ \E x \in requested : onceLeft' = onceLeft \cup {x} /\ requested' = requested \ {x}
      BY <1>1 DEF Approve
    <2>2. /\ upset' \in [grants : 0..MaxAllowed, flips : 0..MaxFlips, upheavals : 0..MaxUpheavals]
          /\ upset'.flips = upset.flips /\ upset'.upheavals = upset.upheavals
      BY <1>0, <2>1
    <2>3. onceLeft' \in SUBSET Declared /\ requested' \in SUBSET Declared
      BY <1>0, <2>1
    <2>4. PipelineTypeOK'
      BY <2>1, <2>2, <2>3 DEF PipeInv, PipelineTypeOK, Declared
    <2> QED BY <2>1, <2>2, <2>4
        DEF PipeInv, RequestsAreSound, DrivesAreSound, DrivesFollow, FlipsAreCounted,
            BreaksAreRare, HandlersKnowTheirMode
  <1>2. CASE Flip
    <2>1. /\ upset' = [upset EXCEPT !.flips = @ + 1] /\ upset.flips < MaxFlips
          /\ UNCHANGED <<ready, onceLeft, requested, pipes, slotDrives>>
          /\ taskMode' \in {"on", "off"}
      BY <1>2 DEF Flip
    <2>2. /\ upset' \in [grants : 0..MaxAllowed, flips : 0..MaxFlips, upheavals : 0..MaxUpheavals]
          /\ upset'.flips = upset.flips + 1 /\ upset'.upheavals = upset.upheavals
      BY <1>0, <2>1
    <2>3. PipelineTypeOK'
      BY <2>1, <2>2 DEF PipeInv, PipelineTypeOK
    <2>4. \A d \in Dispatches : slotDrives'[d].flips < upset'.flips
      <3>1. \A d \in Dispatches : slotDrives[d].flips \in Nat /\ upset.flips \in Nat
        BY <1>0 DEF DriveRows
      <3> QED BY <2>1, <2>2, <3>1 DEF PipeInv, FlipsAreCounted
    <2>5. \A d \in Dispatches : slotDrives'[d].flips \in Nat /\ upset'.flips \in Nat
      BY <1>0, <2>1, <2>2 DEF DriveRows
    <2>6. FlipsAreCounted' /\ HandlersKnowTheirMode'
      BY <2>4, <2>5 DEF FlipsAreCounted, HandlersKnowTheirMode
    <2> QED BY <2>1, <2>2, <2>3, <2>6
        DEF PipeInv, RequestsAreSound, DrivesAreSound, DrivesFollow, BreaksAreRare
  <1>3. CASE Swapped
    <2>1. /\ upset' = [upset EXCEPT !.upheavals = @ + 1] /\ upset.upheavals < MaxUpheavals
          /\ UNCHANGED <<onceLeft, requested, taskMode, pipes, slotDrives>>
          /\ ready' \in [Exts -> {"absent", "entry", "worker"}]
      BY <1>0, <1>3 DEF Swapped
    <2>2. /\ upset' \in [grants : 0..MaxAllowed, flips : 0..MaxFlips, upheavals : 0..MaxUpheavals]
          /\ upset'.flips = upset.flips /\ upset'.upheavals > 0
      BY <1>0, <2>1
    <2>3. PipelineTypeOK'
      BY <2>1, <2>2 DEF PipeInv, PipelineTypeOK
    <2> QED BY <2>1, <2>2, <2>3
        DEF PipeInv, RequestsAreSound, DrivesAreSound, DrivesFollow, FlipsAreCounted,
            BreaksAreRare, HandlersKnowTheirMode
  <1>4. CASE PipelineRestarts
    <2>1. /\ upset' = [upset EXCEPT !.upheavals = @ + 1] /\ upset.upheavals < MaxUpheavals
          /\ UNCHANGED <<ready, onceLeft, requested, taskMode>>
          /\ pipes' = [d \in Dispatches |->
                IF pipes[d].at \in DriveEnds \cup {"new"} THEN pipes[d]
                ELSE [pipes[d] EXCEPT !.at = "gone"]]
          /\ slotDrives' = [d \in Dispatches |->
                IF slotDrives[d].at = "none" THEN slotDrives[d]
                ELSE [slotDrives[d] EXCEPT !.at = "over"]]
      BY <1>4 DEF PipelineRestarts
    <2>2. /\ upset' \in [grants : 0..MaxAllowed, flips : 0..MaxFlips, upheavals : 0..MaxUpheavals]
          /\ upset'.flips = upset.flips /\ upset'.upheavals > 0
      BY <1>0, <2>1
    <2>3. ASSUME NEW d \in Dispatches
          PROVE  pipes'[d] \in PipeRows /\ SoundPipe(pipes'[d]) /\ pipes'[d].said = pipes[d].said
      <3> DEFINE p == pipes[d]
                 q == [p EXCEPT !.at = "gone"]
      <3>1. p \in PipeRows /\ SoundPipe(p)
        BY <1>0 DEF PipeInv, RequestsAreSound
      <3>2. pipes'[d] = IF p.at \in DriveEnds \cup {"new"} THEN p ELSE q
        BY <2>1
      <3>3. /\ q \in PipeRows /\ q.at = "gone" /\ q.key = p.key /\ q.agent = p.agent
            /\ q.rules = p.rules /\ q.listed = p.listed /\ q.ran = p.ran
            /\ q.allowed = p.allowed /\ q.value = p.value /\ q.said = p.said
        BY <3>1 DEF PipeRows, PipeAts, DriveEnds
      <3> HIDE DEF p, q
      <3>4. p.at \notin DriveEnds \cup {"new"} => SoundPipe(q)
        BY <3>1, <3>3 DEF SoundPipe, Working, DriveEnds
      <3> QED BY <3>1, <3>2, <3>3, <3>4 DEF p
    <2>4. ASSUME NEW d \in Dispatches
          PROVE  /\ slotDrives'[d] \in DriveRows /\ SoundDrive(slotDrives'[d])
                 /\ slotDrives'[d].flips = slotDrives[d].flips
                 /\ slotDrives'[d].at # "none" => slotDrives[d].at # "none"
                 /\ slotDrives'[d].at # "asking"
      <3> DEFINE r == slotDrives[d]
                 q == [r EXCEPT !.at = "over"]
      <3>1. r \in DriveRows /\ SoundDrive(r)
        BY <1>0 DEF PipeInv, DrivesAreSound
      <3>2. slotDrives'[d] = IF r.at = "none" THEN r ELSE q
        BY <2>1
      <3>3. q.at = "over" /\ q.flips = r.flips
        BY <3>1 DEF DriveRows
      <3>4. r.at # "none" => q \in DriveRows /\ SoundDrive(q)
        BY <3>1, DriveEnded
      <3> HIDE DEF r, q
      <3> QED BY <3>1, <3>2, <3>3, <3>4 DEF r
    <2>5. pipes' \in [Dispatches -> PipeRows] /\ slotDrives' \in [Dispatches -> DriveRows]
      BY <2>1, <2>3, <2>4
    <2>6. PipelineTypeOK'
      BY <2>1, <2>2, <2>5, PipeTypes
      DEF PipeInv, PipelineTypeOK, PipeRows, DriveRows, Declared, Offered
    <2>7. RequestsAreSound' /\ DrivesAreSound'
      BY <2>3, <2>4 DEF RequestsAreSound, DrivesAreSound
    <2>8. DrivesFollow' /\ FlipsAreCounted' /\ HandlersKnowTheirMode'
      BY <2>2, <2>3, <2>4 DEF PipeInv, DrivesFollow, FlipsAreCounted, HandlersKnowTheirMode
    <2>9. BreaksAreRare'
      BY <2>2 DEF BreaksAreRare
    <2> QED BY <2>6, <2>7, <2>8, <2>9 DEF PipeInv
  <1> QED BY <1>1, <1>2, <1>3, <1>4

LEMMA PipeStep ==
    ASSUME PipeInv, [PipeNext]_pipeVars
    PROVE  PipeInv'
  <1>1. CASE UNCHANGED pipeVars
    BY <1>1
    DEF pipeVars, PipeInv, PipelineTypeOK, RequestsAreSound, DrivesAreSound, DrivesFollow,
        FlipsAreCounted, BreaksAreRare, HandlersKnowTheirMode
  <1> QED
    BY <1>1, RequestSteps, AfterStep, DriveSteps, OtherSteps DEF PipeNext

LEMMA PipeInvAccounts == PipeInv => PipelineTypeOK /\ DispatchesAreAccountedFor
  <1> SUFFICES ASSUME PipeInv PROVE PipelineTypeOK /\ DispatchesAreAccountedFor
    OBVIOUS
  <1>1. /\ EventsDescribeWhatRan /\ AgentRunsWereAllowed
    BY DEF PipeInv, RequestsAreSound, SoundPipe, DrivesFollow, EventsDescribeWhatRan,
           AgentRunsWereAllowed
  <1>2. SlotHasOneOwner /\ HandlersAreAskedInTurn
    BY DEF PipeInv, DrivesAreSound, SoundDrive, BreaksAreRare, Broken, SlotHasOneOwner,
           HandlersAreAskedInTurn
  <1> QED BY <1>1, <1>2 DEF PipeInv, DispatchesAreAccountedFor

(* The pipeline keeps its invariant. *)
THEOREM PipelineInvariant == PipeSpec => []PipeInv
  BY PipeInitially, PipeStep, PTL DEF PipeSpec

(* Whatever has been dispatched is told, allowed and claimed as it was done, *)
(* for any extensions, requests, grants, switches and upheavals              *)
(* (dispatch_action_pipeline, drive_operator_message_received).              *)
THEOREM DispatchesAccountedFor == PipeSpec => [](PipelineTypeOK /\ DispatchesAreAccountedFor)
  BY PipelineInvariant, PipeInvAccounts, PTL

-----------------------------------------------------------------------------
(* Plans. *)

LEMMA StepTypeOnce == \A type : StepType(StepType(type)) = StepType(type)
  BY DEF StepType

LEMMA NormalForm ==
    ASSUME NEW plan
    PROVE  /\ Normalize(Normalize(plan)) = Normalize(plan)
           /\ plan.intent = "" => Normalize(plan).intent = InferIntent(plan)
  <1> DEFINE norm == Normalize(plan)
  <1>1. /\ norm.schema = IF plan.schema \in {"", "1.0"} THEN "3.0" ELSE plan.schema
        /\ norm.intent = NormalIntent(plan)
        /\ norm.status = IF plan.status = "" THEN "ready" ELSE plan.status
        /\ norm.contract = IF plan.contract = "none" THEN VerifyContract(NormalIntent(plan))
                           ELSE plan.contract
        /\ norm.steps = [i \in DOMAIN plan.steps |-> NormalStep(plan.steps[i])]
    BY DEF Normalize
  <1>2. NormalIntent(plan) # "" /\ VerifyContract(NormalIntent(plan)) # "none"
    BY DEF NormalIntent, InferIntent, VerifyContract
  <1>3. ASSUME NEW i \in DOMAIN norm.steps
        PROVE  NormalStep(norm.steps[i]) = norm.steps[i]
    <2> DEFINE s == plan.steps[i]
    <2>1. norm.steps[i] = [type |-> StepType(s.type), tool |-> s.tool, agent |-> s.agent]
      BY <1>1 DEF NormalStep, Step
    <2>2. StepType(StepType(s.type)) = StepType(s.type)
      BY StepTypeOnce
    <2> QED BY <2>1, <2>2 DEF NormalStep, Step
  <1>4. [i \in DOMAIN norm.steps |-> NormalStep(norm.steps[i])] = norm.steps
    BY <1>1, <1>3
  <1>5. norm = [schema |-> norm.schema, intent |-> norm.intent, status |-> norm.status,
                contract |-> norm.contract, steps |-> norm.steps]
    BY DEF Normalize
  <1> HIDE DEF norm
  <1>6. NormalIntent(norm) = norm.intent
    BY <1>1, <1>2 DEF NormalIntent
  <1>7. Normalize(norm) = norm
    BY <1>1, <1>2, <1>4, <1>5, <1>6 DEF Normalize
  <1> QED BY <1>1, <1>7 DEF NormalIntent, norm

(* The draft is what was written in normal form, and it is ready; its tasks  *)
(* are its steps. *)
PlanInv ==
    \/ written = NoPlan /\ draft = NoPlan /\ tasks = <<>>
    \/ /\ written \in WrittenPlans /\ draft = Normalize(written) /\ Ready(draft)
       /\ \/ tasks = <<>>
          \/ tasks = [i \in DOMAIN draft.steps |->
                         IF draft.steps[i].agent = "" THEN "agent" ELSE draft.steps[i].agent]

LEMMA PlanBegins == PlanInit => PlanInv
  BY DEF PlanInit, PlanInv

LEMMA ReadyIsAPlan == Ready(NoPlan) => FALSE
  BY DEF Ready, NoPlan

LEMMA PlanStep == ASSUME PlanInv, [PlanNext]_planVars PROVE PlanInv'
  <1>1. CASE UNCHANGED planVars
    BY <1>1 DEF planVars, PlanInv
  <1>2. CASE WriteNothing
    BY <1>2 DEF WriteNothing, PlanInv
  <1>3. ASSUME MayWrite, NEW plan \in WrittenPlans, WritePlanText(plan) PROVE PlanInv'
    BY <1>3, ReadyIsAPlan DEF WritePlanText, MayWrite, PlanInv
  <1>4. CASE DeriveTasks("agent")
    BY <1>4 DEF DeriveTasks, PlanInv
  <1>5. CASE Revise
    BY <1>5 DEF Revise, PlanInv
  <1> QED BY <1>1, <1>2, <1>3, <1>4, <1>5 DEF PlanNext

LEMMA PlanInvSound == PlanInv => AcceptedPlansAreSound
  <1> SUFFICES ASSUME PlanInv PROVE AcceptedPlansAreSound
    OBVIOUS
  <1>1. NormalizeIsIdempotent
    BY NormalForm DEF PlanInv, NormalizeIsIdempotent
  <1>2. UndeclaredChangesAreVerified
    <2> SUFFICES ASSUME draft # NoPlan, written.intent = "", Types(written) \cap Searches = {},
                        First(draft, Mutations) # 0
                 PROVE  /\ First(draft, {"baseline_verify"}) # 0
                        /\ First(draft, {"baseline_verify"}) < First(draft, Mutations)
      BY DEF UndeclaredChangesAreVerified
    <2>1. written \in WrittenPlans /\ draft = Normalize(written) /\ Ready(draft)
      BY DEF PlanInv
    <2>2. draft.intent \in {"code_change", "mixed"}
      BY <2>1, NormalForm DEF InferIntent
    <2> QED BY <2>1, <2>2 DEF Ready
  <1>3. TasksCanBeResumed
    BY DEF PlanInv, TasksCanBeResumed
  <1> QED BY <1>1, <1>2, <1>3 DEF AcceptedPlansAreSound

(* A plan that was accepted is in normal form, verifies what it changes and  *)
(* makes tasks somebody can resume, whatever the model writes and however    *)
(* many steps it has (generate_draft_plan, normalize_plan, validate_plan).   *)
THEOREM PlansSound == PlanSpec => []AcceptedPlansAreSound
  BY PlanBegins, PlanStep, PlanInvSound, PTL DEF PlanSpec

-----------------------------------------------------------------------------
(* The streams of the topics. *)

(* What a signal is still to come from: the lag, an event that is queued,    *)
(* or one that is not published yet. *)
SignalComes(c) ==
    \/ c.at = "first" \/ c.lagged
    \/ unpublished \cap Relevant(c.topic) # {}
    \/ \E i \in DOMAIN c.queue : c.queue[i] \in Relevant(c.topic)

Connections == [at : {"off", "first", "receiving"}, topic : HubTopics,
                queue : Seq(HubEvents), lagged : BOOLEAN]

TopicInv ==
    /\ receivers \in [Readers -> Connections]
    /\ unpublished \subseteq HubEvents
    /\ stale \subseteq Readers
    /\ \A r \in Readers : Len(receivers[r].queue) <= HubCapacity
    /\ \A r \in stale : receivers[r].at # "off" /\ SignalComes(receivers[r])
    /\ workflows.sent = workflows.polled /\ workflows.last = workflows.polled
    /\ workflows = [now |-> workflows.now, last |-> workflows.last, sent |-> workflows.sent,
                    polled |-> workflows.polled, error |-> workflows.error]

LEMMA TopicBegins == TopicInit => TopicInv
  <1> SUFFICES ASSUME TopicInit PROVE TopicInv
    OBVIOUS
  <1>1. Unconnected \in Connections /\ Len(Unconnected.queue) = 0
    BY DEF Unconnected, Connections, HubTopics
  <1> QED BY <1>1, TopicAssumption DEF TopicInit, TopicInv

(* What an event does to the queue of a receiver. *)
LEMMA QueueKeeps ==
    ASSUME NEW q \in Seq(HubEvents), NEW e \in HubEvents, Len(q) <= HubCapacity
    PROVE  /\ Received(q, e) \in Seq(HubEvents) /\ Len(Received(q, e)) <= HubCapacity
           /\ Len(q) # HubCapacity =>
                 /\ \E i \in DOMAIN Received(q, e) : Received(q, e)[i] = e
                 /\ \A i \in DOMAIN q : \E j \in DOMAIN Received(q, e) : Received(q, e)[j] = q[i]
  <1>0. HubCapacity \in Nat \ {0} /\ Len(q) \in Nat
    BY TopicAssumption
  <1>1. CASE Len(q) < HubCapacity
    <2>1. Received(q, e) = Append(q, e)
      BY <1>1 DEF Received
    <2>2. /\ Append(q, e) \in Seq(HubEvents) /\ Len(Append(q, e)) = Len(q) + 1
          /\ Append(q, e)[Len(q) + 1] = e
          /\ \A i \in 1..Len(q) : Append(q, e)[i] = q[i]
      OBVIOUS
    <2> QED BY <1>0, <1>1, <2>1, <2>2
  <1>2. CASE ~(Len(q) < HubCapacity)
    <2>1. Len(q) = HubCapacity /\ q # <<>>
      BY <1>0, <1>2
    <2>2. Received(q, e) = Append(Tail(q), e)
      BY <1>2 DEF Received
    <2>3. Tail(q) \in Seq(HubEvents) /\ Len(Tail(q)) = Len(q) - 1
      BY <2>1
    <2> QED BY <1>0, <2>1, <2>2, <2>3
  <1> QED BY <1>1, <1>2

LEMMA TopicStep == ASSUME TopicInv, [TopicNext]_topicVars PROVE TopicInv'
  <1>0. /\ receivers \in [Readers -> Connections]
        /\ \A r \in Readers : receivers[r] \in Connections
    BY DEF TopicInv
  <1>1. CASE UNCHANGED topicVars
    BY <1>1 DEF topicVars, TopicInv, SignalComes
  <1>2. ASSUME NEW e \in HubEvents, Changed(e) PROVE TopicInv'
    <2>1. ASSUME NEW r \in stale' PROVE receivers'[r].at # "off" /\ SignalComes(receivers[r])'
      BY <1>2, <2>1 DEF Changed, TopicInv, SignalComes
    <2> QED BY <1>2, <2>1 DEF Changed, TopicInv
  <1>3. ASSUME NEW e \in HubEvents, PublishToAll(e) PROVE TopicInv'
    <2>1. ASSUME NEW r \in Readers
          PROVE  /\ receivers'[r] \in Connections /\ Len(receivers'[r].queue) <= HubCapacity
                 /\ receivers'[r].at = receivers[r].at
                 /\ r \in stale => SignalComes(receivers[r])'
      <3> DEFINE c == receivers[r]
                 d == [c EXCEPT !.queue = Received(@, e),
                                !.lagged = @ \/ Len(c.queue) = HubCapacity]
      <3>1. c \in Connections /\ Len(c.queue) <= HubCapacity /\ c.queue \in Seq(HubEvents)
        BY <1>0 DEF TopicInv, Connections
      <3>2. receivers'[r] = IF c.at = "off" THEN c ELSE d
        BY <1>3 DEF PublishToAll
      <3>3. Received(c.queue, e) \in Seq(HubEvents) /\ Len(Received(c.queue, e)) <= HubCapacity
        BY <3>1, QueueKeeps
      <3>4. /\ d \in Connections /\ d.at = c.at /\ d.topic = c.topic
            /\ d.queue = Received(c.queue, e)
            /\ d.lagged = (c.lagged \/ Len(c.queue) = HubCapacity)
        BY <3>1, <3>3 DEF Connections
      <3>5. ASSUME r \in stale, c.at # "off", ~d.lagged, c.at # "first",
                   unpublished' \cap Relevant(c.topic) = {}
            PROVE  \E i \in DOMAIN d.queue : d.queue[i] \in Relevant(c.topic)
        <4>1. SignalComes(c) /\ ~c.lagged /\ Len(c.queue) # HubCapacity
          BY <3>4, <3>5 DEF TopicInv
        <4>2. unpublished' = unpublished \ {e}
          BY <1>3 DEF PublishToAll
        <4>3. \/ e \in Relevant(c.topic)
              \/ \E i \in DOMAIN c.queue : c.queue[i] \in Relevant(c.topic)
          BY <3>5, <4>1, <4>2 DEF SignalComes
        <4> HIDE DEF c, d
        <4> QED BY <3>1, <3>4, <4>1, <4>3, QueueKeeps
      <3>6. r \in stale => c.at # "off" /\ receivers'[r] = d
        BY <3>2 DEF TopicInv
      <3> HIDE DEF c, d
      <3>7. r \in stale => SignalComes(receivers[r])'
        BY <3>4, <3>5, <3>6 DEF SignalComes
      <3> QED BY <3>1, <3>2, <3>3, <3>4, <3>7 DEF c
    <2>2. /\ receivers' = [r \in Readers |-> receivers'[r]]
          /\ stale' = stale /\ workflows' = workflows /\ unpublished' \subseteq unpublished
      BY <1>3 DEF PublishToAll
    <2> QED BY <2>1, <2>2 DEF TopicInv
  <1>4. ASSUME NEW r \in Readers, NEW topic \in HubTopics, SubscribeTo(r, topic) PROVE TopicInv'
    <2> DEFINE c == [at |-> "first", topic |-> topic, queue |-> <<>>, lagged |-> FALSE]
    <2>1. c \in Connections /\ Len(c.queue) = 0 /\ c.at = "first"
      BY DEF Connections
    <2>2. /\ receivers' = [receivers EXCEPT ![r] = c]
          /\ stale' = stale /\ workflows' = workflows /\ unpublished' = unpublished
      BY <1>4 DEF SubscribeTo
    <2> HIDE DEF c
    <2> QED BY <1>0, <2>1, <2>2, TopicAssumption DEF TopicInv, SignalComes
  <1>5. ASSUME NEW r \in Readers, FirstSignal(r) \/ CatchUp(r) PROVE TopicInv'
    <2>1. PICK c \in Connections :
              /\ c.queue = receivers[r].queue
              /\ receivers' = [receivers EXCEPT ![r] = c]
              /\ stale' = stale \ {r} /\ workflows' = workflows /\ unpublished' = unpublished
      <3> DEFINE f == [receivers[r] EXCEPT !.at = "receiving"]
                 l == [receivers[r] EXCEPT !.lagged = FALSE]
      <3>1. /\ f \in Connections /\ f.queue = receivers[r].queue
            /\ l \in Connections /\ l.queue = receivers[r].queue
        BY <1>0 DEF Connections
      <3>2. FirstSignal(r) => receivers' = [receivers EXCEPT ![r] = f]
        BY <1>0 DEF FirstSignal
      <3>3. CatchUp(r) => receivers' = [receivers EXCEPT ![r] = l]
        BY <1>0 DEF CatchUp
      <3>4. stale' = stale \ {r} /\ workflows' = workflows /\ unpublished' = unpublished
        BY <1>5 DEF FirstSignal, CatchUp
      <3> HIDE DEF f, l
      <3> QED BY <1>5, <3>1, <3>2, <3>3, <3>4
    <2> QED BY <1>0, <2>1 DEF TopicInv, SignalComes
  <1>6. ASSUME NEW r \in Readers, Receive1(r) PROVE TopicInv'
    <2> DEFINE q == receivers[r].queue
               c == [receivers[r] EXCEPT !.queue = Tail(@)]
    <2>1. /\ q \in Seq(HubEvents) /\ q # <<>> /\ Len(q) <= HubCapacity
          /\ receivers[r].at = "receiving" /\ ~receivers[r].lagged
      BY <1>0, <1>6 DEF Receive1, TopicInv, Connections
    <2>2. /\ Tail(q) \in Seq(HubEvents) /\ Len(Tail(q)) <= HubCapacity
          /\ \A i \in DOMAIN q : i = 1 \/ \E j \in DOMAIN Tail(q) : Tail(q)[j] = q[i]
      <3>1. /\ Tail(q) \in Seq(HubEvents) /\ Len(Tail(q)) = Len(q) - 1
            /\ \A j \in 1..(Len(q) - 1) : Tail(q)[j] = q[j + 1]
        BY <2>1
      <3>2. ASSUME NEW i \in 1..Len(q), i # 1 PROVE i - 1 \in 1..(Len(q) - 1) /\ (i - 1) + 1 = i
        BY <3>2
      <3>3. DOMAIN q = 1..Len(q) /\ DOMAIN Tail(q) = 1..(Len(q) - 1)
        BY <2>1, <3>1
      <3> QED BY <2>1, <3>1, <3>2, <3>3, TopicAssumption
    <2>3. /\ c \in Connections /\ c.queue = Tail(q) /\ c.at = "receiving" /\ c.lagged = FALSE
          /\ c.topic = receivers[r].topic
      BY <1>0, <2>1, <2>2 DEF Connections
    <2>4. /\ receivers' = [receivers EXCEPT ![r] = c]
          /\ workflows' = workflows /\ unpublished' = unpublished
          /\ stale' = IF Head(q) \in Relevant(receivers[r].topic) THEN stale \ {r} ELSE stale
      BY <1>0, <1>6 DEF Receive1
    <2>5. r \in stale' => \/ unpublished \cap Relevant(c.topic) # {}
                          \/ \E j \in DOMAIN c.queue : c.queue[j] \in Relevant(c.topic)
      <3> SUFFICES ASSUME r \in stale'
                   PROVE  \/ unpublished \cap Relevant(c.topic) # {}
                          \/ \E j \in DOMAIN c.queue : c.queue[j] \in Relevant(c.topic)
        OBVIOUS
      <3>1. r \in stale /\ q[1] \notin Relevant(receivers[r].topic) /\ SignalComes(receivers[r])
        BY <2>1, <2>4 DEF TopicInv
      <3>2. \/ unpublished \cap Relevant(receivers[r].topic) # {}
            \/ \E i \in DOMAIN q : q[i] \in Relevant(receivers[r].topic)
        BY <2>1, <3>1 DEF SignalComes
      <3>3. ASSUME NEW i \in DOMAIN q, q[i] \in Relevant(receivers[r].topic)
            PROVE  \E j \in DOMAIN Tail(q) : Tail(q)[j] \in Relevant(receivers[r].topic)
        BY <2>2, <3>1, <3>3
      <3> HIDE DEF q
      <3> HIDE DEF c
      <3> QED BY <2>3, <3>2, <3>3
    <2> HIDE DEF c, q
    <2> QED BY <1>0, <2>1, <2>2, <2>3, <2>4, <2>5 DEF TopicInv, SignalComes
  <1>7. ASSUME NEW r \in Readers, Leave(r) PROVE TopicInv'
    <2>1. Unconnected \in Connections /\ Len(Unconnected.queue) = 0
      BY DEF Unconnected, Connections, HubTopics
    <2>2. /\ receivers' = [receivers EXCEPT ![r] = Unconnected] /\ stale' = stale \ {r}
          /\ workflows' = workflows /\ unpublished' = unpublished
      BY <1>7 DEF Leave
    <2> QED BY <1>0, <2>1, <2>2, TopicAssumption DEF TopicInv, SignalComes
  <1>8. CASE WorkflowChanges \/ PollWorkflows \/ PollFails
    <2>1. UNCHANGED <<unpublished, receivers, stale>>
      BY <1>8 DEF WorkflowChanges, PollWorkflows, PollFails
    <2>2. /\ workflows'.sent = workflows'.polled /\ workflows'.last = workflows'.polled
          /\ workflows' = [now |-> workflows'.now, last |-> workflows'.last,
                           sent |-> workflows'.sent, polled |-> workflows'.polled,
                           error |-> workflows'.error]
      BY <1>8 DEF WorkflowChanges, PollWorkflows, PollFails, TopicInv
    <2> QED BY <2>1, <2>2 DEF TopicInv, SignalComes
  <1> QED BY <1>1, <1>2, <1>3, <1>4, <1>5, <1>6, <1>7, <1>8 DEF TopicNext

LEMMA TopicInvShows == TopicInv => NoChangeIsMissed /\ WorkflowsAreShown
  BY DEF TopicInv, SignalComes, NoChangeIsMissed, WorkflowsAreShown

(* The counters, which the signals do not depend on. *)
WorkflowPolls == [now : PayloadVersions, last : PayloadVersions, sent : PayloadVersions,
                  polled : PayloadVersions, error : BOOLEAN]

TopicKinds == newsCount \in 0..MaxNews /\ workflows \in WorkflowPolls

LEMMA PollIs ==
    ASSUME NEW f \in WorkflowPolls, NEW v \in PayloadVersions
    PROVE  /\ [f EXCEPT !.now = v] \in WorkflowPolls
           /\ [f EXCEPT !.polled = v] \in WorkflowPolls
           /\ [f EXCEPT !.last = v] \in WorkflowPolls
           /\ [f EXCEPT !.sent = v] \in WorkflowPolls
  BY DEF WorkflowPolls

LEMMA PollEnds ==
    ASSUME NEW f \in WorkflowPolls
    PROVE  /\ [f EXCEPT !.error = TRUE] \in WorkflowPolls
           /\ [f EXCEPT !.error = FALSE] \in WorkflowPolls
  BY DEF WorkflowPolls

LEMMA TopicKindsBegin == TopicInit => TopicKinds
  BY TopicAssumption DEF TopicInit, TopicKinds, WorkflowPolls, PayloadVersions

LEMMA TopicKindsStep == TopicKinds /\ [TopicNext]_topicVars => TopicKinds'
  <1> SUFFICES ASSUME TopicKinds, [TopicNext]_topicVars PROVE TopicKinds'
    OBVIOUS
  <1>1. CASE WorkflowChanges
    <2>1. MaxNews \in Nat \ {0} /\ newsCount \in Nat /\ newsCount < MaxNews
      BY <1>1, TopicAssumption DEF WorkflowChanges, TopicKinds
    <2>2. PICK v : v = 1 + (workflows.now % MaxNews)
      OBVIOUS
    <2>3. v \in PayloadVersions
      <3>1. workflows.now \in Nat
        BY DEF TopicKinds, WorkflowPolls, PayloadVersions
      <3>2. workflows.now % MaxNews \in 0..(MaxNews - 1)
        BY <2>1, <3>1
      <3> QED BY <2>1, <2>2, <3>2 DEF PayloadVersions
    <2>4. workflows' = [workflows EXCEPT !.now = v] /\ newsCount' = newsCount + 1
      BY <1>1, <2>2 DEF WorkflowChanges
    <2>5. workflows' \in WorkflowPolls
      BY <2>3, <2>4, PollIs DEF TopicKinds
    <2>6. newsCount' \in 0..MaxNews
      BY <2>1, <2>4
    <2> QED BY <2>5, <2>6 DEF TopicKinds
  <1>2. CASE PollWorkflows
    <2>1. PICK w : w = workflows.now
      OBVIOUS
    <2>2. newsCount' = newsCount /\ w \in PayloadVersions
      BY <1>2, <2>1 DEF PollWorkflows, TopicKinds, WorkflowPolls
    <2>3. PICK f \in WorkflowPolls : f = [workflows EXCEPT !.polled = w]
      BY <2>2, PollIs DEF TopicKinds
    <2>4. PICK g \in WorkflowPolls : g = [f EXCEPT !.last = w]
      BY <2>2, PollIs
    <2>5. PICK h \in WorkflowPolls : h = [g EXCEPT !.sent = w]
      BY <2>2, PollIs
    <2>6. PICK k \in WorkflowPolls : k = [h EXCEPT !.error = FALSE]
      BY PollEnds
    <2>7. workflows' = k \/ workflows' = f
      BY <1>2, <2>1, <2>3, <2>4, <2>5, <2>6, Zenon DEF PollWorkflows
    <2> QED BY <2>2, <2>7 DEF TopicKinds
  <1>3. CASE PollFails
    BY <1>3, PollEnds DEF PollFails, TopicKinds
  <1>4. ASSUME NEW e \in HubEvents, Changed(e) \/ PublishToAll(e) PROVE TopicKinds'
    <2>1. workflows' = workflows
      BY <1>4 DEF Changed, PublishToAll
    <2>2. newsCount' = newsCount \/ (newsCount < MaxNews /\ newsCount' = newsCount + 1)
      BY <1>4 DEF Changed, PublishToAll
    <2>3. newsCount' \in 0..MaxNews
      BY <2>2, TopicAssumption DEF TopicKinds
    <2> QED BY <2>1, <2>3 DEF TopicKinds
  <1>5. ASSUME NEW r \in Readers,
               \/ \E topic \in HubTopics : SubscribeTo(r, topic)
               \/ FirstSignal(r) \/ CatchUp(r) \/ Receive1(r) \/ Leave(r)
        PROVE  TopicKinds'
    BY <1>5 DEF SubscribeTo, FirstSignal, CatchUp, Receive1, Leave, TopicKinds
  <1>6. CASE UNCHANGED topicVars
    BY <1>6 DEF topicVars, TopicKinds
  <1> QED BY <1>1, <1>2, <1>3, <1>4, <1>5, <1>6 DEF TopicNext

LEMMA TopicTypes == TopicInv /\ TopicKinds => TopicTypeOK
  BY DEF TopicInv, TopicKinds, WorkflowPolls, TopicTypeOK, Connections

(* A connection that has nothing left to receive was signalled after every   *)
(* change of its topic, for any connections, capacity and changes.           *)
THEOREM TopicsMissNothing == TopicSpec => [](NoChangeIsMissed /\ WorkflowsAreShown)
  BY TopicBegins, TopicStep, TopicInvShows, PTL DEF TopicSpec

-----------------------------------------------------------------------------
(* Drafts and runs: the inductive invariant.                                 *)

RunRows   == [stage : RunStages, draft : 0..MaxDrafts, message : 0..MaxHeard,
              plan : BOOLEAN, events : Seq(Events), unlogged : BOOLEAN]
DraftRows == [status : {"ready", "running", "abandoned"}, revision : 1..MaxRevisions]

HeardRows == [kind : Demands, receipt : {"running", "completed", "failed"}, taken : Nat]

(* A worker that executes a run: every step of it needs the run's plan.      *)
Executing == {"close", "prepare", "save", "log", "ask"}

(* Where a handler can stand, with so many drafts, these runs and so many    *)
(* messages: what it works on is there, and a run that it executes, or comes *)
(* back to, has a plan.                                                      *)
SoundHandler(p, n, runs, count) ==
    /\ p.session <= n /\ p.draft <= n /\ p.run <= Len(runs)
    /\ p.step # "idle" => p.message \in 1..count
    /\ p.step \in {"abandon", "create"} => p.session # 0
    /\ p.step = "abandon" => p.kind = "topic"
    /\ p.step \in {"create", "plan", "close"} => p.kind = "confirm"
    /\ p.step \in {"plan", "close"} =>
          p.run # 0 /\ p.draft # 0 /\ runs[p.run].draft = p.draft
    /\ p.step \in Executing \/ (p.step = "clear" /\ p.kind # "topic") =>
          p.run # 0 /\ runs[p.run].plan
    /\ p.step \in {"save", "log"} => p.then \in {"tell", "mark", "prepare", "ask"}

HandlersSound ==
    /\ handlers \in [RunWorkers -> Handlers]
    /\ \A w \in RunWorkers : SoundHandler(handlers[w], Len(drafts), wfRuns, Len(heard))

(* The tables: every run is in the order of the updates. *)
RunTables ==
    /\ session \in 0..Len(drafts)
    /\ drafts \in Seq(DraftRows) /\ Len(drafts) <= MaxDrafts
    /\ wfRuns \in Seq(RunRows) /\ Len(wfRuns) <= MaxRuns
    /\ recent \in Seq(DOMAIN wfRuns) /\ Len(recent) = Len(wfRuns)
    /\ \A r \in DOMAIN wfRuns : \E i \in DOMAIN recent : recent[i] = r
    /\ \A r \in DOMAIN wfRuns : wfRuns[r].message <= Len(heard) /\ wfRuns[r].draft <= Len(drafts)
    /\ heard \in Seq(HeardRows) /\ Len(heard) <= MaxHeard /\ errors \in 0..MaxErrors

(* The handlers that may still make a run of a message share, with the runs  *)
(* there are, in the times it was taken.                                     *)
BeforeRun   == {"session", "create"}
Creating(m) == {w \in RunWorkers : handlers[w].message = m /\ handlers[w].step \in BeforeRun}
TakesAreSpentOnce ==
    \A m \in DOMAIN heard :
       /\ IsFiniteSet(Creating(m))
       /\ Cardinality(RunsOf(m)) + Cardinality(Creating(m)) <= heard[m].taken

(* The stage of a run is in its log, or the worker that saved it is about to *)
(* log it.                                                                   *)
IsLogged(row) == \E i \in DOMAIN row.events : row.events[i].to = row.stage
SavedStagesAreLogged ==
    \A r \in DOMAIN wfRuns :
       \/ wfRuns[r].unlogged \/ IsLogged(wfRuns[r])
       \/ \E w \in RunWorkers : /\ handlers[w].run = r /\ handlers[w].step = "log"
                                /\ handlers[w].to = wfRuns[r].stage

RunsInv ==
    /\ RunTables
    /\ HandlersSound
    /\ TakesAreSpentOnce
    /\ SavedStagesAreLogged
    /\ ExecutedRunsHavePlans
    /\ RunningDraftsHaveRuns

LEMMA RunsOfAreFinite ==
    ASSUME wfRuns \in Seq(RunRows), NEW m
    PROVE  IsFiniteSet(RunsOf(m)) /\ Cardinality(RunsOf(m)) \in Nat
  <1>1. RunsOf(m) \subseteq 1..Len(wfRuns) /\ Len(wfRuns) \in Nat
    BY DEF RunsOf
  <1>2. IsFiniteSet(1..Len(wfRuns))
    BY <1>1, FS_Interval
  <1> QED BY <1>1, <1>2, FS_Subset, FS_CardinalityType

LEMMA RunsInvKeeps == RunsInv => RunsTypeOK /\ RunsKeepToTheirPlans
  <1> SUFFICES ASSUME RunsInv PROVE RunsTypeOK /\ RunsKeepToTheirPlans
    OBVIOUS
  <1>1. RunsTypeOK
    BY DEF RunsInv, RunTables, HandlersSound, SoundHandler, RunsTypeOK, RunRows, DraftRows, HeardRows
  <1>2. StagesAreLogged
    BY DEF RunsInv, SavedStagesAreLogged, IsLogged, StagesAreLogged
  <1>3. EachTakeMakesOneRun
    <2> SUFFICES ASSUME NEW m \in DOMAIN heard PROVE Cardinality(RunsOf(m)) <= heard[m].taken
      BY DEF EachTakeMakesOneRun
    <2>1. Cardinality(RunsOf(m)) \in Nat
      BY RunsOfAreFinite DEF RunsInv, RunTables
    <2>2. /\ Cardinality(Creating(m)) \in Nat
          /\ Cardinality(RunsOf(m)) + Cardinality(Creating(m)) <= heard[m].taken
      BY FS_CardinalityType DEF RunsInv, TakesAreSpentOnce
    <2>3. heard[m] \in HeardRows
      BY DEF RunsInv, RunTables
    <2>4. heard[m].taken \in Nat
      BY <2>3 DEF HeardRows
    <2> QED BY <2>1, <2>2, <2>4
  <1> QED BY <1>1, <1>2, <1>3 DEF RunsInv, RunsKeepToTheirPlans

-----------------------------------------------------------------------------
(* Drafts and runs: what the steps have in common.                           *)

(* Messages are remembered, and how often each was taken. *)
HeardGrows ==
    /\ heard' \in Seq(HeardRows) /\ Len(heard) <= Len(heard') /\ Len(heard') <= MaxHeard
    /\ \A m \in DOMAIN heard : heard[m].taken <= heard'[m].taken

(* Rows keep what they were made for, and a plan that is there stays. *)
RunsGrow ==
    /\ Len(drafts) <= Len(drafts') /\ Len(wfRuns) <= Len(wfRuns')
    /\ HeardGrows
    /\ \A r \in DOMAIN wfRuns :
          /\ wfRuns'[r].draft = wfRuns[r].draft /\ wfRuns'[r].message = wfRuns[r].message
          /\ wfRuns[r].plan => wfRuns'[r].plan

(* A handler may make a run of a message only if it could before. *)
Follows(q, p) == p.step \in BeforeRun => q.step \in BeforeRun /\ p.message = q.message

Sound(p)      == SoundHandler(p, Len(drafts), wfRuns, Len(heard))
SoundThen(p)  == SoundHandler(p, Len(drafts'), wfRuns', Len(heard'))

LEMMA HeardFields ==
    ASSUME heard \in Seq(HeardRows), NEW m \in DOMAIN heard
    PROVE  heard[m] \in HeardRows /\ heard[m].taken \in Nat /\ heard[m].kind \in Demands
  <1>1. heard[m] \in HeardRows
    OBVIOUS
  <1> QED BY <1>1 DEF HeardRows

LEMMA HeardStays == RunTables /\ UNCHANGED heard => HeardGrows
  <1> SUFFICES ASSUME RunTables, UNCHANGED heard PROVE HeardGrows
    OBVIOUS
  <1>1. heard \in Seq(HeardRows) /\ Len(heard) \in Nat /\ Len(heard) <= MaxHeard
    BY DEF RunTables
  <1>2. \A m \in DOMAIN heard : heard[m].taken \in Nat
    BY <1>1, HeardFields
  <1> QED BY <1>1, <1>2 DEF HeardGrows

(* A row of the messages is written. *)
LEMMA HeardChanges ==
    ASSUME RunTables, NEW m \in DOMAIN heard, NEW row \in HeardRows,
           heard' = [heard EXCEPT ![m] = row], heard[m].taken <= row.taken
    PROVE  /\ HeardGrows /\ DOMAIN heard' = DOMAIN heard /\ heard'[m] = row
           /\ Len(heard') = Len(heard) /\ \A n \in DOMAIN heard : n # m => heard'[n] = heard[n]
  <1>1. heard \in Seq(HeardRows) /\ Len(heard) \in Nat /\ Len(heard) <= MaxHeard
    BY DEF RunTables
  <1>2. \A n \in DOMAIN heard : heard[n].taken \in Nat
    BY <1>1, HeardFields
  <1>3. /\ heard' \in Seq(HeardRows) /\ Len(heard') = Len(heard) /\ DOMAIN heard' = DOMAIN heard
        /\ heard'[m] = row /\ \A n \in DOMAIN heard : n # m => heard'[n] = heard[n]
    BY <1>1
  <1>4. ASSUME NEW n \in DOMAIN heard PROVE heard[n].taken <= heard'[n].taken
    BY <1>2, <1>3
  <1> QED BY <1>1, <1>3, <1>4 DEF HeardGrows

LEMMA MarkGrows ==
    ASSUME RunTables, NEW w \in RunWorkers, NEW receipt \in {"running", "completed", "failed"},
           Mark(w, receipt), handlers[w].message \in DOMAIN heard
    PROVE  HeardGrows /\ Len(heard') = Len(heard)
  <1> DEFINE m == handlers[w].message
             row == [heard[m] EXCEPT !.receipt = receipt]
  <1>1. heard[m] \in HeardRows /\ heard[m].taken \in Nat
    BY HeardFields DEF RunTables
  <1>2. row \in HeardRows /\ heard[m].taken <= row.taken
    BY <1>1 DEF HeardRows
  <1>3. heard' = [heard EXCEPT ![m] = row]
    BY DEF Mark
  <1> HIDE DEF row
  <1> QED BY <1>2, <1>3, HeardChanges

LEMMA HandlerFields ==
    ASSUME NEW p \in Handlers
    PROVE  /\ p = [step |-> p.step, kind |-> p.kind, message |-> p.message, managed |-> p.managed,
                   session |-> p.session, draft |-> p.draft, revision |-> p.revision,
                   run |-> p.run, from |-> p.from, to |-> p.to, then |-> p.then]
           /\ p.step \in HandlerSteps /\ p.kind \in Demands
           /\ p.message \in 0..MaxHeard /\ p.managed \in BOOLEAN /\ p.session \in 0..MaxDrafts
           /\ p.draft \in 0..MaxDrafts /\ p.revision \in 0..MaxRevisions /\ p.run \in 0..MaxRuns
           /\ p.from \in RunStages /\ p.to \in RunStages /\ p.then \in HandlerSteps
  BY DEF Handlers

LEMMA AtRest == AtRestHandler \in Handlers /\ AtRestHandler.step = "idle"
  BY RunsAssumption DEF AtRestHandler, Handlers, HandlerSteps, RunStages, Demands

LEMMA AtRestIsSound ==
    ASSUME NEW n \in Nat, NEW runs \in Seq(RunRows), NEW count
    PROVE  SoundHandler(AtRestHandler, n, runs, count)
  <1>1. Len(runs) \in Nat
    OBVIOUS
  <1> QED BY <1>1 DEF SoundHandler, AtRestHandler, Executing

(* What is sound stays so while the tables grow. *)
LEMMA SoundStays ==
    ASSUME RunTables, RunTables', RunsGrow, NEW p \in Handlers, Sound(p)
    PROVE  SoundThen(p)
  <1>1. /\ Len(drafts) \in Nat /\ Len(drafts') \in Nat /\ Len(wfRuns) \in Nat /\ Len(wfRuns') \in Nat
        /\ Len(heard) \in Nat /\ Len(heard') \in Nat /\ DOMAIN wfRuns = 1..Len(wfRuns)
    BY DEF RunTables
  <1>2. p.run \in Nat /\ p.session \in Nat /\ p.draft \in Nat /\ p.message \in Nat
    BY HandlerFields, RunsAssumption
  <1>3. p.run # 0 => p.run \in DOMAIN wfRuns
    BY <1>1, <1>2 DEF Sound, SoundHandler
  <1>4. /\ p.session <= Len(drafts') /\ p.draft <= Len(drafts') /\ p.run <= Len(wfRuns')
        /\ p.step # "idle" => p.message \in 1..Len(heard')
    BY <1>1, <1>2 DEF Sound, SoundHandler, RunsGrow, HeardGrows
  <1>5. p.run # 0 => /\ wfRuns'[p.run].draft = wfRuns[p.run].draft
                     /\ wfRuns[p.run].plan => wfRuns'[p.run].plan
    BY <1>3 DEF RunsGrow
  <1> QED BY <1>4, <1>5 DEF Sound, SoundThen, SoundHandler

(* One handler moves: the others stay sound. *)
LEMMA OneHandlerMoves ==
    ASSUME RunsInv, RunTables', RunsGrow, NEW w \in RunWorkers, NEW p \in Handlers, Now(w, p),
           SoundThen(p)
    PROVE  HandlersSound'
  <1>1. /\ handlers \in [RunWorkers -> Handlers] /\ handlers' \in [RunWorkers -> Handlers]
        /\ handlers'[w] = p /\ \A v \in RunWorkers : v # w => handlers'[v] = handlers[v]
    BY DEF RunsInv, HandlersSound, Now
  <1>2. ASSUME NEW v \in RunWorkers
        PROVE  SoundHandler(handlers'[v], Len(drafts'), wfRuns', Len(heard'))
    <2>1. Sound(handlers[v]) /\ handlers[v] \in Handlers
      BY <1>1 DEF RunsInv, HandlersSound, Sound
    <2>2. SoundThen(handlers[v])
      BY <2>1, SoundStays DEF RunsInv
    <2> QED BY <1>1, <2>2 DEF SoundThen
  <1> QED BY <1>1, <1>2 DEF HandlersSound

(* A handler that makes a run no longer may. *)
LEMMA TakesAreSpent ==
    ASSUME RunsInv, RunTables', RunsGrow, NEW w \in RunWorkers, NEW p \in Handlers, Now(w, p),
           Follows(handlers[w], p), Len(heard') = Len(heard),
           \A r \in DOMAIN wfRuns' :
              \/ r \in DOMAIN wfRuns
              \/ /\ r = Len(wfRuns) + 1 /\ wfRuns'[r].message = handlers[w].message
                 /\ handlers[w].step \in BeforeRun /\ p.step \notin BeforeRun
    PROVE  TakesAreSpentOnce'
  <1>1. /\ handlers'[w] = p /\ \A v \in RunWorkers : v # w => handlers'[v] = handlers[v]
    BY DEF RunsInv, HandlersSound, Now
  <1> SUFFICES ASSUME NEW m \in DOMAIN heard'
               PROVE  /\ IsFiniteSet(Creating(m)')
                      /\ Cardinality(RunsOf(m)') + Cardinality(Creating(m)') <= heard'[m].taken
    BY DEF TakesAreSpentOnce
  <1> DEFINE R == RunsOf(m)
             S == {r \in DOMAIN wfRuns' : wfRuns'[r].message = m}
             C == Creating(m)
             D == {v \in RunWorkers : handlers'[v].message = m /\ handlers'[v].step \in BeforeRun}
  <1>2. RunsOf(m)' = S /\ Creating(m)' = D
    BY DEF RunsOf, Creating
  <1>3. /\ m \in DOMAIN heard /\ heard[m].taken \in Nat /\ heard'[m].taken \in Nat
        /\ heard[m].taken <= heard'[m].taken
    <2>1. heard \in Seq(HeardRows) /\ heard' \in Seq(HeardRows)
      BY DEF RunsInv, RunTables
    <2>2. m \in DOMAIN heard
      BY <2>1
    <2>3. heard[m] \in HeardRows /\ heard'[m] \in HeardRows
      BY <2>1, <2>2
    <2> QED BY <2>2, <2>3 DEF RunsGrow, HeardGrows, HeardRows
  <1>4. /\ IsFiniteSet(R) /\ Cardinality(R) \in Nat /\ IsFiniteSet(C) /\ Cardinality(C) \in Nat
        /\ Cardinality(R) + Cardinality(C) <= heard[m].taken
    BY <1>3, RunsOfAreFinite, FS_CardinalityType DEF RunsInv, RunTables, TakesAreSpentOnce
  <1>5. DOMAIN wfRuns \subseteq DOMAIN wfRuns' /\ Len(wfRuns) + 1 \notin DOMAIN wfRuns
    <2>1. /\ Len(wfRuns) \in Nat /\ Len(wfRuns') \in Nat /\ Len(wfRuns) <= Len(wfRuns')
          /\ DOMAIN wfRuns = 1..Len(wfRuns) /\ DOMAIN wfRuns' = 1..Len(wfRuns')
      BY DEF RunsInv, RunTables, RunsGrow
    <2> QED BY <2>1
  <1>6. R \subseteq S /\ \A r \in S : r \in R \/ r = Len(wfRuns) + 1
    BY <1>5 DEF RunsOf, RunsGrow
  <1>7. D \subseteq C
    BY <1>1 DEF Creating, Follows
  <1>8. IsFiniteSet(D) /\ Cardinality(D) \in Nat /\ Cardinality(D) <= Cardinality(C)
    BY <1>4, <1>7, FS_Subset, FS_CardinalityType
  <1>9. CASE S = R
    <2>1. Cardinality(S) = Cardinality(R)
      BY <1>9
    <2> HIDE DEF R, S, C, D
    <2> QED BY <1>2, <1>3, <1>4, <1>8, <2>1
  <1>10. CASE S # R
    <2> DEFINE n == Len(wfRuns) + 1
    <2>1. n \in S /\ n \notin R /\ S = R \cup {n}
      BY <1>5, <1>6, <1>10 DEF RunsOf
    <2>2. w \in C /\ w \notin D
      BY <1>1, <1>5, <2>1 DEF Creating
    <2> HIDE DEF n
    <2>3. Cardinality(S) = Cardinality(R) + 1
      BY <1>4, <2>1, FS_AddElement
    <2>4. Cardinality(D) <= Cardinality(C) - 1
      <3>1. D \subseteq C \ {w} /\ IsFiniteSet(C \ {w}) /\ Cardinality(C \ {w}) = Cardinality(C) - 1
        BY <1>4, <1>7, <2>2, FS_RemoveElement
      <3> QED BY <3>1, FS_Subset
    <2> QED BY <1>2, <1>3, <1>4, <1>8, <2>3, <2>4
  <1> QED BY <1>9, <1>10

-----------------------------------------------------------------------------
(* Drafts and runs: the tables.                                              *)

RunFacts == ExecutedRunsHavePlans /\ RunningDraftsHaveRuns

LEMMA RunFields ==
    ASSUME RunTables, NEW r \in DOMAIN wfRuns
    PROVE  /\ wfRuns[r] \in RunRows /\ wfRuns[r].stage \in RunStages
           /\ wfRuns[r].draft \in 0..MaxDrafts /\ wfRuns[r].message \in 0..MaxHeard
           /\ wfRuns[r].plan \in BOOLEAN /\ wfRuns[r].events \in Seq(Events)
           /\ wfRuns[r].unlogged \in BOOLEAN
  <1>1. wfRuns[r] \in RunRows
    BY DEF RunTables
  <1> QED BY <1>1 DEF RunRows

(* Accesses that change no row. *)
LEMMA NoRowChanges ==
    ASSUME RunTables, RunFacts, UNCHANGED <<drafts, wfRuns, recent>>,
           session' \in 0..Len(drafts), HeardGrows, errors' \in 0..MaxErrors
    PROVE  RunTables' /\ RunFacts' /\ RunsGrow
  <1>1. /\ Len(drafts) \in Nat /\ Len(wfRuns) \in Nat /\ Len(heard) \in Nat /\ Len(heard') \in Nat
        /\ Len(heard) <= Len(heard')
    BY DEF RunTables, HeardGrows
  <1>2. ASSUME NEW r \in DOMAIN wfRuns PROVE wfRuns[r].message <= Len(heard')
    <2>1. wfRuns[r].message \in 0..MaxHeard /\ wfRuns[r].message <= Len(heard)
      BY RunFields DEF RunTables
    <2> QED BY <1>1, <2>1, RunsAssumption
  <1>3. RunTables'
    BY <1>2 DEF RunTables, HeardGrows
  <1>4. RunsGrow
    BY <1>1 DEF RunsGrow
  <1>5. RunFacts'
    BY <1>1 DEF RunFacts, ExecutedRunsHavePlans, RunningDraftsHaveRuns
  <1> QED BY <1>3, <1>4, <1>5

(* A run of a draft or of nobody. *)
LEMMA FirstTrace ==
    InitialTrace = << [from |-> "pending", to |-> "planning"] >>
  <1>1. Decide("pending", FALSE) = "planning"
    <2> DEFINE M == {i \in DOMAIN BuiltinRules :
                       BuiltinRules[i].stage = "pending" /\ (BuiltinRules[i].ready => FALSE)}
    <2>1. M = {1}
      BY DEF BuiltinRules
    <2>2. (CHOOSE i \in M : \A j \in M : i <= j) = 1
      BY <2>1
    <2>3. BuiltinRules[1].next = "planning"
      BY DEF BuiltinRules
    <2> QED BY <2>1, <2>2, <2>3 DEF Decide
  <1>2. Decide("planning", FALSE) = "planning"
    <2>1. {i \in DOMAIN BuiltinRules :
             BuiltinRules[i].stage = "planning" /\ (BuiltinRules[i].ready => FALSE)} = {}
      BY DEF BuiltinRules
    <2> QED BY <2>1 DEF Decide
  <1>3. Trace("pending") = << [from |-> "pending", to |-> "planning"] >> /\ Trace("planning") = <<>>
    BY <1>1, <1>2 DEF Trace
  <1> HIDE DEF Trace
  <1> DEFINE first == << [from |-> "pending", to |-> "planning"] >>
  <1>4. first \o <<>> = first /\ first # <<>> /\ Last(first).to = "planning"
    BY DEF Last
  <1> QED BY <1>3, <1>4 DEF InitialTrace

LEMMA NewRunIs ==
    ASSUME NEW d \in 0..MaxDrafts, NEW m \in 0..MaxHeard
    PROVE  /\ NewRun(d, m) \in RunRows
           /\ NewRun(d, m).stage = "planning" /\ NewRun(d, m).draft = d
           /\ NewRun(d, m).message = m /\ IsLogged(NewRun(d, m))
  <1> DEFINE event == [from |-> "pending", to |-> "planning"]
             row   == [stage |-> "planning", draft |-> d, message |-> m, plan |-> FALSE,
                       events |-> << event >>, unlogged |-> FALSE]
  <1>1. NewRun(d, m) = row
    BY FirstTrace DEF NewRun, Last
  <1>2. event \in Events
    BY DEF Events, RunStages
  <1>3. << event >> \in Seq(Events)
    BY <1>2
  <1>4. row \in RunRows
    BY <1>3 DEF RunRows, RunStages
  <1>5. IsLogged(row)
    BY DEF IsLogged
  <1> QED BY <1>1, <1>4, <1>5

LEMMA RunIsAdded ==
    ASSUME RunTables, RunFacts, NEW d \in 0..Len(drafts), NEW m \in 0..Len(heard), AddRun(NewRun(d, m)),
           UNCHANGED <<session, drafts, heard, errors>>
    PROVE  /\ RunTables' /\ RunFacts' /\ RunsGrow
           /\ Len(wfRuns') = Len(wfRuns) + 1
           /\ wfRuns'[Len(wfRuns) + 1] = NewRun(d, m)
           /\ \A r \in DOMAIN wfRuns : wfRuns'[r] = wfRuns[r]
           /\ DOMAIN wfRuns' = DOMAIN wfRuns \cup {Len(wfRuns) + 1}
  <1> DEFINE n == Len(wfRuns) + 1
  <1>1. /\ Len(drafts) \in Nat /\ Len(wfRuns) \in Nat /\ Len(heard) \in 0..MaxHeard
        /\ DOMAIN wfRuns = 1..Len(wfRuns) /\ Len(drafts) <= MaxDrafts
        /\ wfRuns \in Seq(RunRows)
    BY RunsAssumption DEF RunTables
  <1>2. d \in 0..MaxDrafts /\ m \in 0..MaxHeard
    BY <1>1, RunsAssumption
  <1>3. NewRun(d, m) \in RunRows
    BY <1>2, NewRunIs
  <1>4. /\ wfRuns' \in Seq(RunRows) /\ Len(wfRuns') = n /\ n <= MaxRuns
        /\ DOMAIN wfRuns' = 1..n /\ wfRuns'[n] = NewRun(d, m)
        /\ \A r \in 1..Len(wfRuns) : wfRuns'[r] = wfRuns[r]
    BY <1>1, <1>3, RunsAssumption DEF AddRun
  <1>5. DOMAIN wfRuns' = DOMAIN wfRuns \cup {n}
    BY <1>1, <1>4
  <1>6. /\ recent' \in Seq(DOMAIN wfRuns') /\ Len(recent') = n
        /\ \A r \in DOMAIN wfRuns' : \E i \in DOMAIN recent' : recent'[i] = r
    <2>1. /\ recent \in Seq(DOMAIN wfRuns') /\ <<n>> \in Seq(DOMAIN wfRuns')
          /\ Len(recent) = Len(wfRuns)
      BY <1>1, <1>4, <1>5 DEF RunTables
    <2>2. recent' = <<n>> \o recent
      BY DEF AddRun
    <2>3. /\ recent' \in Seq(DOMAIN wfRuns') /\ Len(recent') = n /\ DOMAIN recent' = 1..n
          /\ recent'[1] = n /\ \A i \in 1..Len(recent) : recent'[i + 1] = recent[i]
      BY <1>1, <2>1, <2>2
    <2>4. ASSUME NEW r \in DOMAIN wfRuns' PROVE \E i \in DOMAIN recent' : recent'[i] = r
      <3>1. CASE r = n
        BY <1>1, <2>3, <3>1
      <3>2. CASE r \in DOMAIN wfRuns
        <4>1. PICK i \in DOMAIN recent : recent[i] = r
          BY <3>2 DEF RunTables
        <4>2. i \in 1..Len(recent) /\ i + 1 \in 1..n
          BY <1>1, <2>1, <4>1
        <4> QED BY <2>3, <4>1, <4>2
      <3> QED BY <1>5, <3>1, <3>2
    <2> QED BY <2>3, <2>4
  <1>7. NewRun(d, m).stage = "planning" /\ NewRun(d, m).draft = d /\ NewRun(d, m).message = m
    BY <1>2, NewRunIs
  <1> HIDE DEF n
  <1>8. RunTables'
    <2>1. \A r \in DOMAIN wfRuns' : wfRuns'[r].message <= Len(heard) /\ wfRuns'[r].draft <= Len(drafts)
      <3>1. m <= Len(heard) /\ d <= Len(drafts)
        BY <1>1, RunsAssumption
      <3>2. \A r \in DOMAIN wfRuns : wfRuns[r].message <= Len(heard) /\ wfRuns[r].draft <= Len(drafts)
        BY DEF RunTables
      <3>3. wfRuns'[n].message <= Len(heard) /\ wfRuns'[n].draft <= Len(drafts)
        BY <1>4, <1>7, <3>1
      <3> QED BY <1>1, <1>4, <1>5, <3>2, <3>3
    <2> QED BY <1>1, <1>4, <1>6, <2>1 DEF RunTables
  <1>9. RunsGrow
    BY <1>1, <1>4, <1>5, HeardStays DEF RunsGrow, n
  <1>10. RunFacts'
    <2>1. ExecutedRunsHavePlans'
      BY <1>1, <1>4, <1>5, <1>7 DEF RunFacts, ExecutedRunsHavePlans
    <2>2. RunningDraftsHaveRuns'
      BY <1>1, <1>4, <1>5 DEF RunFacts, RunningDraftsHaveRuns
    <2> QED BY <2>1, <2>2 DEF RunFacts
  <1> QED BY <1>4, <1>5, <1>1, <1>8, <1>9, <1>10 DEF n

-----------------------------------------------------------------------------
(* Drafts and runs: a row is written.                                        *)

LEMMA RowChanges ==
    ASSUME RunTables, RunFacts, NEW r \in DOMAIN wfRuns, NEW row \in RunRows,
           wfRuns' = [wfRuns EXCEPT ![r] = row],
           row.draft = wfRuns[r].draft, row.message = wfRuns[r].message,
           wfRuns[r].plan => row.plan, row.stage \notin {"pending", "planning"} => row.plan,
           recent' \in Seq(DOMAIN wfRuns), Len(recent') = Len(recent),
           \A q \in DOMAIN wfRuns : \E i \in DOMAIN recent' : recent'[i] = q,
           UNCHANGED <<session, drafts, heard>>, errors' \in 0..MaxErrors
    PROVE  /\ RunTables' /\ RunFacts' /\ RunsGrow
           /\ DOMAIN wfRuns' = DOMAIN wfRuns /\ wfRuns'[r] = row
           /\ \A q \in DOMAIN wfRuns : q # r => wfRuns'[q] = wfRuns[q]
  <1>1. /\ wfRuns \in Seq(RunRows) /\ wfRuns' \in Seq(RunRows) /\ Len(wfRuns') = Len(wfRuns)
        /\ Len(wfRuns) \in Nat /\ Len(drafts) \in Nat /\ Len(heard) \in Nat
        /\ DOMAIN wfRuns' = DOMAIN wfRuns /\ wfRuns'[r] = row
        /\ \A q \in DOMAIN wfRuns : q # r => wfRuns'[q] = wfRuns[q]
    <2>1. /\ wfRuns \in Seq(RunRows) /\ drafts \in Seq(DraftRows) /\ heard \in Seq(HeardRows)
      BY DEF RunTables
    <2>2. Len(wfRuns) \in Nat /\ Len(drafts) \in Nat /\ Len(heard) \in Nat
      BY <2>1
    <2>3. /\ wfRuns' \in Seq(RunRows) /\ Len(wfRuns') = Len(wfRuns)
          /\ DOMAIN wfRuns' = DOMAIN wfRuns /\ wfRuns'[r] = row
          /\ \A q \in DOMAIN wfRuns : q # r => wfRuns'[q] = wfRuns[q]
      BY <2>1
    <2> QED BY <2>1, <2>2, <2>3
  <1>2. \A q \in DOMAIN wfRuns : /\ wfRuns'[q].draft = wfRuns[q].draft
                                 /\ wfRuns'[q].message = wfRuns[q].message
                                 /\ wfRuns[q].plan => wfRuns'[q].plan
    BY <1>1
  <1>3. RunTables'
    <2>1. \A q \in DOMAIN wfRuns' : wfRuns'[q].message <= Len(heard) /\ wfRuns'[q].draft <= Len(drafts)
      BY <1>1, <1>2 DEF RunTables
    <2> QED BY <1>1, <2>1 DEF RunTables
  <1>4. RunsGrow
    BY <1>1, <1>2, HeardStays DEF RunsGrow
  <1>5. RunFacts'
    <2>1. ExecutedRunsHavePlans'
      BY <1>1 DEF RunFacts, ExecutedRunsHavePlans
    <2>2. RunningDraftsHaveRuns'
      BY <1>1, <1>2 DEF RunFacts, RunningDraftsHaveRuns
    <2> QED BY <2>1, <2>2 DEF RunFacts
  <1> QED BY <1>1, <1>3, <1>4, <1>5

LEMMA PlanIsWritten ==
    ASSUME RunTables, RunFacts, NEW r \in DOMAIN wfRuns, WritePlan(r),
           UNCHANGED <<session, drafts, recent, heard, errors>>
    PROVE  /\ RunTables' /\ RunFacts' /\ RunsGrow
           /\ DOMAIN wfRuns' = DOMAIN wfRuns /\ wfRuns'[r] = [wfRuns[r] EXCEPT !.plan = TRUE]
           /\ \A q \in DOMAIN wfRuns : q # r => wfRuns'[q] = wfRuns[q]
  <1> DEFINE row == [wfRuns[r] EXCEPT !.plan = TRUE]
  <1>1. wfRuns[r] \in RunRows
    BY RunFields
  <1>2. /\ row \in RunRows /\ row.draft = wfRuns[r].draft /\ row.message = wfRuns[r].message
        /\ row.plan
    BY <1>1 DEF RunRows
  <1>3. wfRuns' = [wfRuns EXCEPT ![r] = row]
    BY DEF WritePlan
  <1>4. /\ recent' \in Seq(DOMAIN wfRuns) /\ Len(recent') = Len(recent) /\ errors' \in 0..MaxErrors
        /\ \A q \in DOMAIN wfRuns : \E i \in DOMAIN recent' : recent'[i] = q
    BY DEF RunTables
  <1> HIDE DEF row
  <1>5. UNCHANGED <<session, drafts, heard>>
    OBVIOUS
  <1>6. /\ RunTables' /\ RunFacts' /\ RunsGrow
        /\ DOMAIN wfRuns' = DOMAIN wfRuns /\ wfRuns'[r] = row
        /\ \A q \in DOMAIN wfRuns : q # r => wfRuns'[q] = wfRuns[q]
    BY <1>2, <1>3, <1>4, <1>5, RowChanges
  <1> QED BY <1>6 DEF row

(* An element comes first, and the others stay. *)
LEMMA ComesFirst ==
    ASSUME NEW R, NEW t \in Seq(R), NEW k \in 1..Len(t)
    PROVE  /\ <<t[k]>> \o RemoveAt(t, k) \in Seq(R)
           /\ Len(<<t[k]>> \o RemoveAt(t, k)) = Len(t)
           /\ \A i \in 1..Len(t) : \E j \in 1..Len(t) : (<<t[k]>> \o RemoveAt(t, k))[j] = t[i]
  <1> DEFINE n == Len(t)
             a == SubSeq(t, 1, k - 1)
             b == SubSeq(t, k + 1, n)
             c == a \o b
             s == <<t[k]>> \o c
  <1>1. n \in Nat /\ k \in Nat /\ k <= n /\ k >= 1 /\ \A i \in 1..n : t[i] \in R
    OBVIOUS
  <1>2. a \in Seq(R) /\ Len(a) = k - 1 /\ \A i \in 1..(k - 1) : a[i] = t[i]
    <2>1. \A i \in 1..(k - 1) : t[i] \in R
      BY <1>1
    <2> QED BY <1>1, <2>1, SubSeqProperties
  <1>3. b \in Seq(R) /\ Len(b) = n - k /\ \A i \in 1..(n - k) : b[i] = t[k + i]
    <2>1. \A i \in (k + 1)..n : t[i] \in R
      BY <1>1
    <2>2. /\ b \in Seq(R) /\ Len(b) = IF k + 1 <= n THEN n - (k + 1) + 1 ELSE 0
          /\ \A i \in 1..(n - (k + 1) + 1) : b[i] = t[(k + 1) + i - 1]
      <3>1. k + 1 \in Int /\ n \in Int
        BY <1>1
      <3> HIDE DEF n
      <3> QED BY <2>1, <3>1, SubSeqProperties
    <2>3. n - (k + 1) + 1 = n - k /\ \A i \in 1..(n - k) : (k + 1) + i - 1 = k + i
      BY <1>1
    <2> HIDE DEF b, n
    <2> QED BY <1>1, <2>2, <2>3
  <1> HIDE DEF n, a, b
  <1>4. /\ c \in Seq(R) /\ Len(c) = n - 1
        /\ \A i \in 1..(k - 1) : c[i] = t[i]
        /\ \A i \in (k + 1)..n : c[i - 1] = t[i]
    <2>1. /\ c \in Seq(R) /\ Len(c) = Len(a) + Len(b)
          /\ \A i \in 1..(Len(a) + Len(b)) : c[i] = IF i <= Len(a) THEN a[i] ELSE b[i - Len(a)]
      BY <1>2, <1>3, ConcatProperties
    <2> HIDE DEF c
    <2>2. ASSUME NEW i \in (k + 1)..n PROVE c[i - 1] = t[i]
      <3>1. /\ i - 1 \in 1..(Len(a) + Len(b)) /\ ~(i - 1 <= Len(a)) /\ (i - 1) - Len(a) = i - k
            /\ i - k \in 1..(n - k) /\ k + (i - k) = i
        BY <1>1, <1>2, <1>3
      <3> QED BY <1>3, <2>1, <3>1
    <2>3. ASSUME NEW i \in 1..(k - 1) PROVE c[i] = t[i]
      <3>1. i \in 1..(Len(a) + Len(b)) /\ i <= Len(a)
        BY <1>1, <1>2, <1>3
      <3> QED BY <1>2, <2>1, <3>1
    <2> QED BY <1>1, <1>2, <1>3, <2>1, <2>2, <2>3
  <1> HIDE DEF c
  <1>5. s \in Seq(R) /\ Len(s) = n /\ s[1] = t[k] /\ \A i \in 2..n : s[i] = c[i - 1]
    <2>1. <<t[k]>> \in Seq(R) /\ Len(<<t[k]>>) = 1
      BY <1>1
    <2>2. /\ s \in Seq(R) /\ Len(s) = 1 + (n - 1)
          /\ \A i \in 1..(1 + (n - 1)) : s[i] = IF i <= 1 THEN <<t[k]>>[i] ELSE c[i - 1]
      BY <1>4, <2>1, ConcatProperties
    <2> HIDE DEF s
    <2>3. 1 + (n - 1) = n /\ 1 \in 1..n /\ <<t[k]>>[1] = t[k]
          /\ \A i \in 2..n : i \in 1..n /\ ~(i <= 1)
      BY <1>1
    <2> QED BY <2>2, <2>3
  <1>6. s = <<t[k]>> \o RemoveAt(t, k)
    BY DEF RemoveAt, a, b, c, n
  <1> HIDE DEF s
  <1>7. ASSUME NEW i \in 1..n PROVE \E j \in 1..n : s[j] = t[i]
    <2>1. CASE i = k
      <3>1. 1 \in 1..n
        BY <1>1
      <3> QED BY <1>5, <2>1, <3>1
    <2>2. CASE i < k
      <3>1. i \in 1..(k - 1) /\ i + 1 \in 2..n /\ i + 1 \in 1..n /\ (i + 1) - 1 = i
        BY <1>1, <2>2
      <3> QED BY <1>4, <1>5, <3>1
    <2>3. CASE i > k
      <3>1. i \in (k + 1)..n /\ i \in 2..n
        BY <1>1, <2>3
      <3> QED BY <1>4, <1>5, <3>1
    <2> QED BY <1>1, <2>1, <2>2, <2>3
  <1> QED BY <1>5, <1>6, <1>7 DEF n

(* The run that was updated comes first. *)
LEMMA MovedUp ==
    ASSUME RunTables, NEW r \in DOMAIN wfRuns,
           recent' = <<r>> \o RemoveAt(recent, CHOOSE i \in DOMAIN recent : recent[i] = r)
    PROVE  /\ recent' \in Seq(DOMAIN wfRuns) /\ Len(recent') = Len(recent)
           /\ \A q \in DOMAIN wfRuns : \E i \in DOMAIN recent' : recent'[i] = q
  <1> DEFINE R == DOMAIN wfRuns
  <1>1. recent \in Seq(R) /\ DOMAIN recent = 1..Len(recent)
    BY DEF RunTables
  <1>2. PICK k \in 1..Len(recent) :
           recent[k] = r /\ k = CHOOSE i \in DOMAIN recent : recent[i] = r
    <2>1. \E i \in DOMAIN recent : recent[i] = r
      BY DEF RunTables
    <2> DEFINE i == CHOOSE i \in DOMAIN recent : recent[i] = r
    <2>2. i \in DOMAIN recent /\ recent[i] = r
      BY <2>1
    <2> QED BY <1>1, <2>2
  <1> DEFINE s == <<recent[k]>> \o RemoveAt(recent, k)
  <1>3. recent' = s
    BY <1>2
  <1> HIDE DEF R
  <1>4. /\ s \in Seq(R) /\ Len(s) = Len(recent)
        /\ \A i \in 1..Len(recent) : \E j \in 1..Len(recent) : s[j] = recent[i]
    BY <1>1, ComesFirst
  <1> HIDE DEF s
  <1>5. DOMAIN s = 1..Len(recent)
    BY <1>4
  <1>6. ASSUME NEW q \in R PROVE \E i \in DOMAIN s : s[i] = q
    <2>1. PICK i \in 1..Len(recent) : recent[i] = q
      BY <1>1 DEF R, RunTables
    <2> QED BY <1>4, <1>5, <2>1
  <1> QED BY <1>3, <1>4, <1>6 DEF R

LEMMA StageIsWritten ==
    ASSUME RunTables, RunFacts, NEW r \in DOMAIN wfRuns, NEW stage \in RunStages, wfRuns[r].plan,
           WriteStage(r, stage), UNCHANGED <<session, drafts, heard, errors>>
    PROVE  /\ RunTables' /\ RunFacts' /\ RunsGrow
           /\ DOMAIN wfRuns' = DOMAIN wfRuns /\ wfRuns'[r] = [wfRuns[r] EXCEPT !.stage = stage]
           /\ \A q \in DOMAIN wfRuns : q # r => wfRuns'[q] = wfRuns[q]
  <1> DEFINE row == [wfRuns[r] EXCEPT !.stage = stage]
  <1>1. wfRuns[r] \in RunRows
    BY RunFields
  <1>2. /\ row \in RunRows /\ row.draft = wfRuns[r].draft /\ row.message = wfRuns[r].message
        /\ row.plan
    BY <1>1 DEF RunRows
  <1>3. wfRuns' = [wfRuns EXCEPT ![r] = row]
    BY DEF WriteStage
  <1>4. /\ recent' \in Seq(DOMAIN wfRuns) /\ Len(recent') = Len(recent)
        /\ \A q \in DOMAIN wfRuns : \E i \in DOMAIN recent' : recent'[i] = q
    <2>1. recent' = <<r>> \o RemoveAt(recent, CHOOSE i \in DOMAIN recent : recent[i] = r)
      BY DEF WriteStage
    <2> QED BY <2>1, MovedUp
  <1>5. UNCHANGED <<session, drafts, heard>> /\ errors' \in 0..MaxErrors
    BY DEF RunTables
  <1> HIDE DEF row
  <1>6. /\ RunTables' /\ RunFacts' /\ RunsGrow
        /\ DOMAIN wfRuns' = DOMAIN wfRuns /\ wfRuns'[r] = row
        /\ \A q \in DOMAIN wfRuns : q # r => wfRuns'[q] = wfRuns[q]
    BY <1>2, <1>3, <1>4, <1>5, RowChanges
  <1> QED BY <1>6 DEF row

LEMMA EventIsLogged ==
    ASSUME RunTables, RunFacts, NEW r \in DOMAIN wfRuns, NEW event \in Events,
           LogEvent(r, event), UNCHANGED <<session, drafts, recent, heard, errors>>
    PROVE  /\ RunTables' /\ RunFacts' /\ RunsGrow
           /\ DOMAIN wfRuns' = DOMAIN wfRuns /\ wfRuns'[r].unlogged = wfRuns[r].unlogged
           /\ wfRuns'[r].stage = wfRuns[r].stage
           /\ IsLogged(wfRuns[r]) \/ event.to = wfRuns[r].stage => IsLogged(wfRuns'[r])
           /\ \A q \in DOMAIN wfRuns : q # r => wfRuns'[q] = wfRuns[q]
  <1> DEFINE log == Append(wfRuns[r].events, event)
             row == [wfRuns[r] EXCEPT !.events = log]
  <1>1. wfRuns[r] \in RunRows /\ wfRuns[r].events \in Seq(Events)
    BY RunFields
  <1>2. /\ log \in Seq(Events) /\ log[Len(wfRuns[r].events) + 1] = event
        /\ Len(wfRuns[r].events) + 1 \in DOMAIN log
        /\ \A i \in DOMAIN wfRuns[r].events : i \in DOMAIN log /\ log[i] = wfRuns[r].events[i]
    BY <1>1
  <1> HIDE DEF log
  <1>3. /\ row \in RunRows /\ row.draft = wfRuns[r].draft /\ row.message = wfRuns[r].message
        /\ row.plan = wfRuns[r].plan /\ row.stage = wfRuns[r].stage /\ row.events = log
        /\ row.unlogged = wfRuns[r].unlogged
    BY <1>1, <1>2 DEF RunRows
  <1>4. row.stage \notin {"pending", "planning"} => row.plan
    BY <1>3 DEF RunFacts, ExecutedRunsHavePlans
  <1>5. wfRuns' = [wfRuns EXCEPT ![r] = row]
    BY DEF LogEvent, log
  <1>6. /\ recent' \in Seq(DOMAIN wfRuns) /\ Len(recent') = Len(recent) /\ errors' \in 0..MaxErrors
        /\ \A q \in DOMAIN wfRuns : \E i \in DOMAIN recent' : recent'[i] = q
    BY DEF RunTables
  <1>7. UNCHANGED <<session, drafts, heard>>
    OBVIOUS
  <1> HIDE DEF row
  <1>8. /\ RunTables' /\ RunFacts' /\ RunsGrow
        /\ DOMAIN wfRuns' = DOMAIN wfRuns /\ wfRuns'[r] = row
        /\ \A q \in DOMAIN wfRuns : q # r => wfRuns'[q] = wfRuns[q]
    BY <1>3, <1>4, <1>5, <1>6, <1>7, RowChanges
  <1>9. IsLogged(wfRuns[r]) \/ event.to = wfRuns[r].stage => IsLogged(row)
    BY <1>2, <1>3 DEF IsLogged
  <1> QED BY <1>3, <1>8, <1>9

LEMMA EventIsMissed ==
    ASSUME RunTables, RunFacts, NEW r \in DOMAIN wfRuns,
           wfRuns' = [wfRuns EXCEPT ![r].unlogged = TRUE],
           UNCHANGED <<session, drafts, recent, heard>>, errors' \in 0..MaxErrors
    PROVE  /\ RunTables' /\ RunFacts' /\ RunsGrow
           /\ DOMAIN wfRuns' = DOMAIN wfRuns /\ wfRuns'[r].unlogged
           /\ \A q \in DOMAIN wfRuns : q # r => wfRuns'[q] = wfRuns[q]
  <1> DEFINE row == [wfRuns[r] EXCEPT !.unlogged = TRUE]
  <1>1. wfRuns[r] \in RunRows
    BY RunFields
  <1>2. /\ row \in RunRows /\ row.draft = wfRuns[r].draft /\ row.message = wfRuns[r].message
        /\ row.plan = wfRuns[r].plan /\ row.stage = wfRuns[r].stage /\ row.unlogged
    BY <1>1 DEF RunRows
  <1>3. row.stage \notin {"pending", "planning"} => row.plan
    BY <1>2 DEF RunFacts, ExecutedRunsHavePlans
  <1>4. wfRuns' = [wfRuns EXCEPT ![r] = row]
    OBVIOUS
  <1>5. /\ recent' \in Seq(DOMAIN wfRuns) /\ Len(recent') = Len(recent)
        /\ \A q \in DOMAIN wfRuns : \E i \in DOMAIN recent' : recent'[i] = q
    BY DEF RunTables
  <1>6. UNCHANGED <<session, drafts, heard>>
    OBVIOUS
  <1> HIDE DEF row
  <1>7. /\ RunTables' /\ RunFacts' /\ RunsGrow
        /\ DOMAIN wfRuns' = DOMAIN wfRuns /\ wfRuns'[r] = row
        /\ \A q \in DOMAIN wfRuns : q # r => wfRuns'[q] = wfRuns[q]
    BY <1>2, <1>3, <1>4, <1>5, <1>6, RowChanges
  <1> QED BY <1>2, <1>7

(* A draft is written; one that is said to be running has a run.             *)
LEMMA DraftsChange ==
    ASSUME RunTables, RunFacts, UNCHANGED <<session, wfRuns, recent, heard>>,
           errors' \in 0..MaxErrors, drafts' \in Seq(DraftRows),
           Len(drafts) <= Len(drafts'), Len(drafts') <= MaxDrafts,
           \A d \in DOMAIN drafts' : drafts'[d].status = "running" =>
              \/ d \in DOMAIN drafts /\ drafts[d].status = "running"
              \/ \E r \in DOMAIN wfRuns : wfRuns[r].draft = d /\ wfRuns[r].plan
    PROVE  RunTables' /\ RunFacts' /\ RunsGrow
  <1>1. /\ Len(drafts) \in Nat /\ Len(drafts') \in Nat /\ Len(wfRuns) \in Nat
        /\ MaxDrafts \in Nat
    BY RunsAssumption DEF RunTables
  <1>2. session' \in 0..Len(drafts')
    BY <1>1 DEF RunTables
  <1>3. ASSUME NEW r \in DOMAIN wfRuns PROVE wfRuns[r].draft <= Len(drafts')
    <2>1. wfRuns[r].draft \in 0..MaxDrafts /\ wfRuns[r].draft <= Len(drafts)
      BY RunFields DEF RunTables
    <2> QED BY <1>1, <2>1
  <1>4. RunTables'
    BY <1>2, <1>3 DEF RunTables
  <1>5. RunsGrow
    BY <1>1, HeardStays DEF RunsGrow
  <1>6. RunFacts'
    BY DEF RunFacts, ExecutedRunsHavePlans, RunningDraftsHaveRuns
  <1> QED BY <1>4, <1>5, <1>6

-----------------------------------------------------------------------------
(* Drafts and runs: where a handler goes.                                    *)

(* A handler goes on by itself, in the tables as they are. *)
Lands(w) == \E p \in Handlers : Now(w, p) /\ Sound(p) /\ Follows(handlers[w], p)

LEMMA HandlerIs ==
    ASSUME RunsInv, NEW w \in RunWorkers
    PROVE  /\ handlers[w] \in Handlers /\ Sound(handlers[w])
           /\ RunTables /\ RunFacts
           /\ Len(drafts) \in Nat /\ Len(wfRuns) \in Nat /\ DOMAIN wfRuns = 1..Len(wfRuns)
           /\ Len(drafts) <= MaxDrafts /\ Len(wfRuns) <= MaxRuns
           /\ handlers[w].run # 0 => handlers[w].run \in DOMAIN wfRuns
           /\ handlers[w].step # "idle" => handlers[w].message \in DOMAIN heard
  <1>1. handlers[w] \in Handlers /\ Sound(handlers[w])
    BY DEF RunsInv, HandlersSound, Sound
  <1>2. Len(drafts) \in Nat /\ Len(wfRuns) \in Nat /\ DOMAIN wfRuns = 1..Len(wfRuns)
    BY DEF RunsInv, RunTables
  <1>3. handlers[w].run \in Nat /\ handlers[w].run <= Len(wfRuns)
    BY <1>1, HandlerFields, RunsAssumption DEF Sound, SoundHandler
  <1>4. handlers[w].run # 0 => handlers[w].run \in DOMAIN wfRuns
    BY <1>2, <1>3
  <1>5. handlers[w].step # "idle" => handlers[w].message \in DOMAIN heard
    <2>1. DOMAIN heard = 1..Len(heard)
      BY DEF RunsInv, RunTables
    <2> QED BY <1>1, <2>1 DEF Sound, SoundHandler
  <1> QED BY <1>1, <1>2, <1>4, <1>5 DEF RunsInv, RunTables, RunFacts

LEMMA RestIsSound ==
    ASSUME RunsInv
    PROVE  AtRestHandler \in Handlers /\ AtRestHandler.step = "idle" /\ Sound(AtRestHandler)
  <1>1. Len(drafts) \in Nat /\ wfRuns \in Seq(RunRows)
    BY DEF RunsInv, RunTables
  <1> QED BY <1>1, AtRest, AtRestIsSound DEF Sound

LEMMA RestLands ==
    ASSUME RunsInv, NEW w \in RunWorkers, Now(w, AtRestHandler)
    PROVE  Lands(w)
  BY RestIsSound DEF Lands, Follows, BeforeRun

LEMMA ComesLands ==
    ASSUME RunsInv, NEW w \in RunWorkers, NEW step \in {"tell", "mark"}, ComesTo(w, step),
           handlers[w].step # "idle"
    PROVE  Lands(w)
  <1> DEFINE q == handlers[w]
             p == [AtRestHandler EXCEPT !.step = step, !.kind = q.kind, !.message = q.message,
                                        !.managed = q.managed]
  <1>1. q \in Handlers /\ Sound(q) /\ Len(drafts) \in Nat /\ Len(wfRuns) \in Nat
    BY HandlerIs
  <1>2. /\ p \in Handlers
        /\ p.step = step /\ p.kind = q.kind /\ p.message = q.message
        /\ p.managed = q.managed /\ p.session = 0 /\ p.draft = 0 /\ p.run = 0
        /\ p.then = "idle"
    <2>1. /\ p.step = step /\ p.kind = q.kind /\ p.message = q.message
          /\ p.managed = q.managed /\ p.session = 0 /\ p.draft = 0 /\ p.run = 0
          /\ p.then = "idle"
      BY DEF AtRestHandler
    <2>2. step \in HandlerSteps
      BY DEF HandlerSteps
    <2>3. p \in Handlers
      BY <1>1, <2>2, HandlerFields, AtRest DEF Handlers
    <2> QED BY <2>1, <2>3
  <1>3. Now(w, p)
    BY DEF ComesTo
  <1> HIDE DEF p
  <1>4. Sound(p) /\ Follows(q, p)
    BY <1>1, <1>2 DEF Sound, SoundHandler, Follows, Executing, BeforeRun
  <1> QED BY <1>2, <1>3, <1>4 DEF Lands

LEMMA TellsLands ==
    ASSUME RunsInv, NEW w \in RunWorkers, Tells(w), handlers[w].step # "idle"
    PROVE  Lands(w)
  BY ComesLands DEF Tells

(* A stage that was reached, or where an access failed, is left. *)
LEMMA ThenLands ==
    ASSUME RunsInv, NEW w \in RunWorkers, NEW step \in {"tell", "mark", "prepare", "ask"},
           Then(w, step), handlers[w].step \in {"prepare", "save", "log", "ask"}
    PROVE  Lands(w)
  <1> DEFINE q == handlers[w]
             p == [q EXCEPT !.step = step, !.then = "idle", !.from = "pending", !.to = "pending"]
  <1>1. q \in Handlers /\ Sound(q)
    BY HandlerIs
  <1>2. CASE step \in {"tell", "mark"}
    BY <1>2, ComesLands DEF Then
  <1>4. CASE step \in {"prepare", "ask"}
    <2>1. /\ p \in Handlers /\ p.step = step /\ p.kind = q.kind /\ p.message = q.message
          /\ p.managed = q.managed /\ p.session = q.session /\ p.draft = q.draft /\ p.run = q.run
          /\ p.then = "idle"
      <3>1. step \in HandlerSteps /\ "idle" \in HandlerSteps /\ "pending" \in RunStages
        BY <1>4 DEF HandlerSteps, RunStages
      <3>2. p \in Handlers
        BY <1>1, <3>1 DEF Handlers
      <3>3. /\ p.step = step /\ p.kind = q.kind /\ p.message = q.message
            /\ p.managed = q.managed /\ p.session = q.session /\ p.draft = q.draft
            /\ p.run = q.run /\ p.then = "idle"
        BY <1>1 DEF Handlers
      <3> HIDE DEF p
      <3> QED BY <3>2, <3>3
    <2>2. Now(w, p)
      BY <1>4 DEF Then
    <2> HIDE DEF p
    <2>3. Sound(p) /\ Follows(q, p)
      BY <1>1, <1>4, <2>1 DEF Sound, SoundHandler, Follows, Executing, BeforeRun
    <2> QED BY <2>1, <2>2, <2>3 DEF Lands
  <1> QED BY <1>2, <1>4

LEMMA StumblesLands ==
    ASSUME RunsInv, NEW w \in RunWorkers, Stumbles(w), handlers[w].step \in {"save", "log"}
    PROVE  Lands(w)
  <1>1. CASE handlers[w].then = "mark"
    BY <1>1, ThenLands DEF Stumbles
  <1>2. CASE handlers[w].then # "mark"
    BY <1>2, ThenLands DEF Stumbles
  <1> QED BY <1>1, <1>2

LEMMA TransitionLands ==
    ASSUME RunsInv, NEW w \in RunWorkers, NEW to \in RunStages,
           NEW then \in {"tell", "mark", "prepare", "ask"}, Transition(w, to, then),
           handlers[w].step \in {"prepare", "ask"}
    PROVE  Lands(w)
  <1> DEFINE q == handlers[w]
             p == [q EXCEPT !.step = "save", !.from = wfRuns[q.run].stage, !.to = to, !.then = then]
  <1>1. q \in Handlers /\ Sound(q) /\ q.run # 0 /\ q.run \in DOMAIN wfRuns
    BY HandlerIs DEF Sound, SoundHandler, Executing
  <1>2. CASE wfRuns[q.run].stage = to
    BY <1>2, ThenLands DEF Transition
  <1>3. CASE wfRuns[q.run].stage # to
    <2>1. wfRuns[q.run].stage \in RunStages
      BY <1>1, RunFields DEF RunsInv
    <2>2. /\ p \in Handlers /\ p.step = "save" /\ p.kind = q.kind /\ p.message = q.message
          /\ p.managed = q.managed /\ p.session = q.session /\ p.draft = q.draft /\ p.run = q.run
          /\ p.then = then
      BY <1>1, <2>1, HandlerFields DEF Handlers, HandlerSteps
    <2>3. Now(w, p)
      BY <1>3 DEF Transition
    <2> HIDE DEF p
    <2>4. Sound(p) /\ Follows(q, p)
      BY <1>1, <2>2 DEF Sound, SoundHandler, Follows, Executing, BeforeRun
    <2> QED BY <2>2, <2>3, <2>4 DEF Lands
  <1> QED BY <1>2, <1>3

-----------------------------------------------------------------------------
(* Drafts and runs: steps that change no row.                                *)

(* A stage that was saved is in the log, or about to be: nobody leaves the   *)
(* point before the log unless the event is there, or was given up.          *)
LEMMA LogsStay ==
    ASSUME RunsInv, NEW w \in RunWorkers, NEW p \in Handlers, Now(w, p),
           \A r \in DOMAIN wfRuns' :
              \/ wfRuns'[r].unlogged \/ IsLogged(wfRuns'[r])
              \/ p.run = r /\ p.step = "log" /\ p.to = wfRuns'[r].stage
              \/ /\ r \in DOMAIN wfRuns
                 /\ wfRuns'[r].stage = wfRuns[r].stage /\ wfRuns'[r].unlogged = wfRuns[r].unlogged
                 /\ IsLogged(wfRuns[r]) => IsLogged(wfRuns'[r])
                 /\ ~(/\ handlers[w].run = r /\ handlers[w].step = "log"
                      /\ handlers[w].to = wfRuns[r].stage)
    PROVE  SavedStagesAreLogged'
  <1>1. handlers'[w] = p /\ \A v \in RunWorkers : v # w => handlers'[v] = handlers[v]
    BY DEF RunsInv, HandlersSound, Now
  <1>2. ASSUME NEW r \in DOMAIN wfRuns', ~IsLogged(wfRuns'[r]), ~wfRuns'[r].unlogged
        PROVE  \E v \in RunWorkers : /\ handlers'[v].run = r /\ handlers'[v].step = "log"
                                     /\ handlers'[v].to = wfRuns'[r].stage
    <2>1. CASE p.run = r /\ p.step = "log" /\ p.to = wfRuns'[r].stage
      BY <1>1, <2>1
    <2>2. CASE ~(p.run = r /\ p.step = "log" /\ p.to = wfRuns'[r].stage)
      <3>1. /\ r \in DOMAIN wfRuns /\ wfRuns'[r].stage = wfRuns[r].stage
            /\ wfRuns'[r].unlogged = wfRuns[r].unlogged /\ ~IsLogged(wfRuns[r])
            /\ ~(/\ handlers[w].run = r /\ handlers[w].step = "log"
                 /\ handlers[w].to = wfRuns[r].stage)
        BY <1>2, <2>2
      <3>2. PICK v \in RunWorkers : /\ handlers[v].run = r /\ handlers[v].step = "log"
                                    /\ handlers[v].to = wfRuns[r].stage
        BY <1>2, <3>1 DEF RunsInv, SavedStagesAreLogged
      <3> QED BY <1>1, <3>1, <3>2
    <2> QED BY <2>1, <2>2
  <1>3. SavedStagesAreLogged' =
          (\A r \in DOMAIN wfRuns' :
             \/ wfRuns'[r].unlogged \/ IsLogged(wfRuns'[r])
             \/ \E v \in RunWorkers : /\ handlers'[v].run = r /\ handlers'[v].step = "log"
                                      /\ handlers'[v].to = wfRuns'[r].stage)
    BY DEF SavedStagesAreLogged, IsLogged
  <1> QED BY <1>2, <1>3

LEMMA RunFactsAre == RunsInv => RunTables /\ RunFacts
  BY DEF RunsInv, RunFacts

LEMMA LandsKeeps ==
    ASSUME RunsInv, NEW w \in RunWorkers, Lands(w), handlers[w].step # "log",
           UNCHANGED <<drafts, wfRuns, recent>>, HeardGrows, Len(heard') = Len(heard),
           session' \in 0..Len(drafts), errors' \in 0..MaxErrors
    PROVE  RunsInv'
  <1>1. PICK p \in Handlers : Now(w, p) /\ Sound(p) /\ Follows(handlers[w], p)
    BY DEF Lands
  <1>2. RunTables' /\ RunFacts' /\ RunsGrow
    BY RunFactsAre, NoRowChanges
  <1>3. SoundThen(p)
    BY <1>1, <1>2, RunFactsAre, SoundStays
  <1>4. HandlersSound'
    BY <1>1, <1>2, <1>3, OneHandlerMoves
  <1>5. TakesAreSpentOnce'
    BY <1>1, <1>2, TakesAreSpent
  <1>6. SavedStagesAreLogged'
    BY <1>1, LogsStay
  <1> QED BY <1>2, <1>4, <1>5, <1>6 DEF RunsInv, RunFacts

LEMMA ErrorsCount ==
    ASSUME RunsInv, Errs
    PROVE  errors' \in 0..MaxErrors
  BY RunsAssumption DEF RunsInv, RunTables, Errs

LEMMA SameFates ==
    ASSUME RunsInv, UNCHANGED fates
    PROVE  errors' \in 0..MaxErrors /\ HeardGrows /\ Len(heard') = Len(heard)
  BY HeardStays DEF RunsInv, RunTables, fates

LEMMA StaysFates ==
    ASSUME RunsInv, Stays
    PROVE  errors' \in 0..MaxErrors /\ HeardGrows /\ Len(heard') = Len(heard)
  BY HeardStays, ErrorsCount DEF RunsInv, RunTables, Stays

(* A turn that failed goes to the default handler, or is over.               *)
LEMMA FailsKeeps ==
    ASSUME RunsInv, NEW w \in RunWorkers, Fails(w), handlers[w].step \notin {"idle", "log"},
           UNCHANGED <<session, drafts, wfRuns, recent>>
    PROVE  RunsInv'
  <1> DEFINE q == handlers[w]
             p == [AtRestHandler EXCEPT !.step = "again", !.kind = q.kind, !.message = q.message,
                                        !.managed = FALSE]
  <1>1. /\ q \in Handlers /\ Sound(q) /\ q.message \in DOMAIN heard /\ q.managed \in BOOLEAN
        /\ Len(drafts) \in Nat /\ Len(wfRuns) \in Nat /\ session \in 0..Len(drafts)
    BY HandlerIs, HandlerFields DEF RunTables
  <1>2. HeardGrows /\ Len(heard') = Len(heard) /\ errors' \in 0..MaxErrors
    BY <1>1, MarkGrows, ErrorsCount DEF Fails, RunsInv
  <1>3. Lands(w)
    <2>1. CASE ~q.managed
      BY <2>1, RestLands DEF Fails
    <2>2. CASE q.managed
      <3>1. /\ p.step = "again" /\ p.kind = q.kind /\ p.message = q.message
            /\ p.session = 0 /\ p.draft = 0 /\ p.run = 0 /\ p.then = "idle"
        BY DEF AtRestHandler
      <3>2. p \in Handlers
        BY <1>1, HandlerFields, AtRest DEF Handlers, HandlerSteps
      <3>3. Now(w, p)
        BY <2>2 DEF Fails
      <3> HIDE DEF p
      <3>4. Sound(p) /\ Follows(q, p)
        BY <1>1, <3>1 DEF Sound, SoundHandler, Follows, Executing, BeforeRun
      <3> QED BY <3>2, <3>3, <3>4 DEF Lands
    <2> QED BY <1>1, <2>1, <2>2
  <1> QED BY <1>1, <1>2, <1>3, LandsKeeps

(* A message is taken: the first time, or again.                             *)
LEMMA TakenUp ==
    ASSUME RunsInv, NEW w \in RunWorkers, NEW p \in Handlers, Now(w, p),
           handlers[w].step \in {"idle", "again"}, p.step = "session",
           p.session = 0, p.draft = 0, p.run = 0, HeardGrows,
           p.message \in DOMAIN heard', DOMAIN heard' = DOMAIN heard \cup {p.message},
           IF p.message \in DOMAIN heard THEN heard[p.message].taken + 1 <= heard'[p.message].taken
                                         ELSE heard'[p.message].taken = 1,
           UNCHANGED <<session, drafts, wfRuns, recent, errors>>
    PROVE  RunsInv'
  <1> DEFINE k == p.message
  <1>1. RunTables' /\ RunFacts' /\ RunsGrow
    <2>1. session' \in 0..Len(drafts) /\ errors' \in 0..MaxErrors
      BY DEF RunsInv, RunTables
    <2> QED BY <2>1, RunFactsAre, NoRowChanges
  <1>2. SoundThen(p)
    <2>1. drafts' \in Seq(DraftRows) /\ wfRuns' \in Seq(RunRows) /\ heard' \in Seq(HeardRows)
      BY <1>1 DEF RunTables
    <2>2. Len(drafts') \in Nat
      BY <2>1
    <2>3. Len(wfRuns') \in Nat
      BY <2>1
    <2>4. DOMAIN heard' = 1..Len(heard')
      BY <2>1
    <2> QED BY <2>2, <2>3, <2>4 DEF SoundThen, SoundHandler, Executing
  <1>3. HandlersSound'
    BY <1>1, <1>2, OneHandlerMoves
  <1>4. /\ handlers'[w] = p /\ \A v \in RunWorkers : v # w => handlers'[v] = handlers[v]
    BY DEF RunsInv, HandlersSound, Now
  <1>5. ASSUME NEW m \in DOMAIN heard'
        PROVE  /\ IsFiniteSet(Creating(m)')
               /\ Cardinality(RunsOf(m)') + Cardinality(Creating(m)') <= heard'[m].taken
    <2> DEFINE D == {v \in RunWorkers : handlers'[v].message = m /\ handlers'[v].step \in BeforeRun}
    <2>1. RunsOf(m)' = RunsOf(m) /\ Creating(m)' = D
      BY DEF RunsOf, Creating
    <2>2. D = IF m = k THEN Creating(m) \cup {w} ELSE Creating(m)
      BY <1>4 DEF Creating, BeforeRun
    <2>3. w \notin Creating(m)
      BY DEF Creating, BeforeRun
    <2>4. heard'[m].taken \in Nat
      <3>1. heard'[m] \in HeardRows
        BY DEF HeardGrows
      <3> QED BY <3>1 DEF HeardRows
    <2>5. IsFiniteSet(RunsOf(m)) /\ Cardinality(RunsOf(m)) \in Nat
      BY RunsOfAreFinite DEF RunsInv, RunTables
    <2>6. CASE m \in DOMAIN heard
      <3>1. /\ IsFiniteSet(Creating(m)) /\ Cardinality(Creating(m)) \in Nat
            /\ Cardinality(RunsOf(m)) + Cardinality(Creating(m)) <= heard[m].taken
            /\ heard[m].taken \in Nat /\ heard[m].taken <= heard'[m].taken
        BY <2>6, HeardFields, FS_CardinalityType DEF RunsInv, RunTables, TakesAreSpentOnce, HeardGrows
      <3>2. CASE m # k
        <4>1. D = Creating(m)
          BY <2>2, <3>2
        <4> HIDE DEF D
        <4> QED BY <2>1, <2>4, <2>5, <3>1, <4>1
      <3>3. CASE m = k
        <4>1. IsFiniteSet(D) /\ Cardinality(D) = Cardinality(Creating(m)) + 1
          BY <2>2, <2>3, <3>1, <3>3, FS_AddElement
        <4>2. heard[m].taken + 1 <= heard'[m].taken
          BY <2>6, <3>3
        <4> HIDE DEF D
        <4> QED BY <2>1, <2>4, <2>5, <3>1, <4>1, <4>2
      <3> QED BY <3>2, <3>3
    <2>7. CASE m \notin DOMAIN heard
      <3>1. m = k /\ heard'[m].taken = 1
        BY <2>7
      <3>2. Creating(m) = {}
        <4>1. ASSUME NEW v \in RunWorkers, handlers[v].step \in BeforeRun PROVE handlers[v].message # m
          BY <2>7, <4>1, HandlerIs DEF BeforeRun
        <4> QED BY <4>1 DEF Creating
      <3>3. RunsOf(m) = {}
        <4>1. ASSUME NEW r \in DOMAIN wfRuns, wfRuns[r].message = m PROVE FALSE
          <5>1. m <= Len(heard) /\ m \in DOMAIN heard' /\ DOMAIN heard' = 1..Len(heard')
            <6>1. heard' \in Seq(HeardRows)
              BY DEF HeardGrows
            <6>2. wfRuns[r].message <= Len(heard)
              BY DEF RunsInv, RunTables
            <6> QED BY <4>1, <6>1, <6>2
          <5>2. DOMAIN heard = 1..Len(heard) /\ Len(heard) \in Nat
            BY DEF RunsInv, RunTables
          <5> QED BY <2>7, <5>1, <5>2
        <4> QED BY <4>1 DEF RunsOf
      <3>4. D = {w}
        BY <2>2, <3>1, <3>2
      <3> HIDE DEF D
      <3>5. IsFiniteSet(D) /\ Cardinality(D) = 1 /\ Cardinality(RunsOf(m)) = 0
        BY <3>3, <3>4, FS_Singleton, FS_EmptySet
      <3> QED BY <2>1, <3>1, <3>5
    <2> QED BY <2>6, <2>7
  <1>6. TakesAreSpentOnce'
    BY <1>5 DEF TakesAreSpentOnce
  <1>7. SavedStagesAreLogged'
    <2>1. \A v \in RunWorkers : handlers[v].step = "log" => handlers'[v] = handlers[v]
      BY <1>4
    <2> QED BY <2>1 DEF RunsInv, SavedStagesAreLogged, IsLogged
  <1> QED BY <1>1, <1>3, <1>6, <1>7 DEF RunsInv, RunFacts

FirstOf(kind, m, managed) ==
    [AtRestHandler EXCEPT !.step = "session", !.kind = kind, !.message = m, !.managed = managed]

LEMMA FirstStep ==
    ASSUME NEW kind \in Demands, NEW m \in 0..MaxHeard, NEW managed \in BOOLEAN
    PROVE  /\ FirstOf(kind, m, managed) \in Handlers
           /\ FirstOf(kind, m, managed).step = "session" /\ FirstOf(kind, m, managed).message = m
           /\ FirstOf(kind, m, managed).session = 0 /\ FirstOf(kind, m, managed).draft = 0
           /\ FirstOf(kind, m, managed).run = 0
  <1> DEFINE p == FirstOf(kind, m, managed)
  <1>1. /\ p.step = "session" /\ p.message = m
        /\ p.session = 0 /\ p.draft = 0 /\ p.run = 0
    BY DEF AtRestHandler, FirstOf
  <1>2. p \in Handlers
    BY AtRest DEF Handlers, HandlerSteps, FirstOf
  <1> QED BY <1>1, <1>2

-----------------------------------------------------------------------------
(* Drafts and runs: one step per action.                                     *)

LEMMA HearKeeps ==
    ASSUME RunsInv, NEW w \in RunWorkers, Hear(w)
    PROVE  RunsInv'
  <1> DEFINE n == Len(heard) + 1
  <1>1. PICK kind \in Demands :
           heard' = Append(heard, [kind |-> kind, receipt |-> "running", taken |-> 1])
    BY DEF Hear
  <1> DEFINE row == [kind |-> kind, receipt |-> "running", taken |-> 1]
             p   == FirstOf(kind, n, TRUE)
  <1>2. /\ handlers[w].step = "idle" /\ Len(heard) < MaxHeard /\ Len(heard) \in Nat
        /\ heard \in Seq(HeardRows) /\ UNCHANGED <<session, drafts, wfRuns, recent, errors>>
    BY DEF Hear, RunsInv, RunTables
  <1>3. row \in HeardRows /\ row.taken = 1 /\ row.kind = kind
    BY DEF HeardRows
  <1>4. heard' = Append(heard, row)
    BY <1>1
  <1> HIDE DEF row
  <1>5. /\ heard' \in Seq(HeardRows) /\ Len(heard') = n /\ heard'[n] = row
        /\ DOMAIN heard' = DOMAIN heard \cup {n} /\ n \notin DOMAIN heard /\ n \in DOMAIN heard'
        /\ \A m \in DOMAIN heard : heard'[m] = heard[m]
    BY <1>2, <1>3, <1>4
  <1>6. HeardGrows
    <2>1. \A m \in DOMAIN heard : heard[m].taken \in Nat
      BY <1>2, HeardFields
    <2> QED BY <1>2, <1>5, <2>1, RunsAssumption DEF HeardGrows
  <1>7. Now(w, p)
    BY <1>3, <1>5 DEF Hear, TakesUp, FirstOf
  <1>8. n \in 0..MaxHeard
    BY <1>2, RunsAssumption
  <1> HIDE DEF n
  <1>9. /\ p \in Handlers /\ p.step = "session" /\ p.message = n
        /\ p.session = 0 /\ p.draft = 0 /\ p.run = 0
    BY <1>8, FirstStep
  <1> HIDE DEF p
  <1> QED BY <1>2, <1>3, <1>5, <1>6, <1>7, <1>9, TakenUp

LEMMA TakesAgainKeeps ==
    ASSUME RunsInv, NEW w \in RunWorkers, NEW m \in DOMAIN heard, TakesAgain(w, m),
           handlers[w].step \in {"idle", "again"},
           UNCHANGED <<session, drafts, wfRuns, recent, errors>>
    PROVE  RunsInv'
  <1> DEFINE row == [kind |-> heard[m].kind, receipt |-> "running", taken |-> heard[m].taken + 1]
             p   == FirstOf(heard'[m].kind, m, FALSE)
  <1>1. heard[m] \in HeardRows /\ heard[m].taken \in Nat /\ RunTables
    BY HeardFields DEF RunsInv, RunTables
  <1>2. /\ row \in HeardRows /\ row.taken = heard[m].taken + 1 /\ row.kind \in Demands
        /\ heard[m].taken <= row.taken
    BY <1>1 DEF HeardRows
  <1>3. heard' = [heard EXCEPT ![m] = row]
    BY DEF TakesAgain
  <1>4. Now(w, p)
    BY DEF TakesAgain, TakesUp, FirstOf
  <1> HIDE DEF row
  <1>5. /\ HeardGrows /\ DOMAIN heard' = DOMAIN heard /\ heard'[m] = row
        /\ heard[m].taken + 1 <= heard'[m].taken
    <2>1. HeardGrows /\ DOMAIN heard' = DOMAIN heard /\ heard'[m] = row
      BY <1>1, <1>2, <1>3, HeardChanges
    <2>2. heard[m].taken + 1 <= row.taken
      BY <1>1, <1>2
    <2> QED BY <2>1, <2>2
  <1>6. m \in 0..MaxHeard
    BY <1>1, RunsAssumption DEF RunTables
  <1>7. /\ p \in Handlers /\ p.step = "session" /\ p.message = m
        /\ p.session = 0 /\ p.draft = 0 /\ p.run = 0
    BY <1>2, <1>5, <1>6, FirstStep
  <1> HIDE DEF p
  <1> QED BY <1>2, <1>4, <1>5, <1>7, TakenUp

LEMMA HearAgainKeeps ==
    ASSUME RunsInv, NEW w \in RunWorkers, HearAgain(w)
    PROVE  RunsInv'
  <1>1. /\ handlers[w].step = "again" /\ handlers[w].message \in DOMAIN heard
        /\ UNCHANGED <<session, drafts, wfRuns, recent, errors>> /\ session \in 0..Len(drafts)
    BY HandlerIs DEF HearAgain, RunTables
  <1>2. CASE TakesAgain(w, handlers[w].message)
    BY <1>1, <1>2, TakesAgainKeeps
  <1>3. CASE Now(w, AtRestHandler) /\ UNCHANGED heard
    BY <1>1, <1>3, RestLands, LandsKeeps, SameFates DEF fates
  <1> QED BY <1>2, <1>3 DEF HearAgain

LEMMA RecoverMessageKeeps ==
    ASSUME RunsInv, NEW w \in RunWorkers, RecoverMessage(w)
    PROVE  RunsInv'
  BY TakesAgainKeeps DEF RecoverMessage

(* A handler with other fields lands. *)
LEMMA ChangesLand ==
    ASSUME RunsInv, NEW w \in RunWorkers, NEW p \in Handlers, Now(w, p), handlers[w].step # "idle",
           p.message = handlers[w].message, p.kind = handlers[w].kind,
           p.managed = handlers[w].managed, p.then = handlers[w].then,
           p.session <= Len(drafts), p.draft <= Len(drafts), p.run <= Len(wfRuns),
           p.step \in {"abandon", "create"} => p.session # 0 /\ handlers[w].step = "session",
           p.step = "abandon" => p.kind = "topic",
           p.step \in {"create", "plan", "close"} => p.kind = "confirm",
           p.step \notin {"session", "save", "log"},
           p.step \in {"plan", "close"} => p.run # 0 /\ p.draft # 0 /\ wfRuns[p.run].draft = p.draft,
           p.step \in Executing \/ (p.step = "clear" /\ p.kind # "topic") =>
              p.run # 0 /\ wfRuns[p.run].plan
    PROVE  Lands(w)
  <1>1. Sound(handlers[w])
    BY HandlerIs
  <1>2. Sound(p)
    BY <1>1 DEF Sound, SoundHandler
  <1>3. Follows(handlers[w], p)
    BY DEF Follows, BeforeRun
  <1> QED BY <1>2, <1>3 DEF Lands

LEMMA ReadSessionKeeps ==
    ASSUME RunsInv, NEW w \in RunWorkers, ReadSession(w)
    PROVE  RunsInv'
  <1> DEFINE q    == handlers[w]
             p(step) == [q EXCEPT !.session = session, !.step = step]
  <1>1. /\ q \in Handlers /\ Sound(q) /\ q.step = "session" /\ session \in 0..Len(drafts)
        /\ Len(drafts) \in Nat /\ Len(drafts) <= MaxDrafts /\ MaxDrafts \in Nat
        /\ UNCHANGED <<session, drafts, wfRuns, recent>>
    BY HandlerIs, RunsAssumption DEF ReadSession, RunTables
  <1>2. CASE Fails(w)
    BY <1>1, <1>2, FailsKeeps
  <1>3. CASE UNCHANGED fates /\ Now(w, AtRestHandler)
    BY <1>1, <1>3, RestLands, LandsKeeps, SameFates
  <1>4. ASSUME NEW step \in {"abandon", "create", "latest", "discuss"}, Now(w, p(step)), UNCHANGED fates,
               step \in {"abandon", "create"} => session # 0,
               step = "abandon" => q.kind = "topic", step = "create" => q.kind = "confirm"
        PROVE  RunsInv'
    <2>1. session \in 0..MaxDrafts /\ session <= Len(drafts) /\ step \in HandlerSteps
      BY <1>1 DEF HandlerSteps
    <2>2. p(step) \in Handlers
      BY <1>1, <2>1 DEF Handlers
    <2>3. /\ p(step).step = step /\ p(step).kind = q.kind /\ p(step).message = q.message
          /\ p(step).managed = q.managed /\ p(step).session = session /\ p(step).draft = q.draft
          /\ p(step).run = q.run /\ p(step).then = q.then
      BY <1>1 DEF Handlers
    <2>4. q.draft <= Len(drafts) /\ q.run <= Len(wfRuns)
      BY <1>1 DEF Sound, SoundHandler
    <2> HIDE DEF p
    <2>5. Lands(w)
      BY <1>1, <1>4, <2>1, <2>2, <2>3, <2>4, ChangesLand DEF Executing
    <2> QED BY <1>1, <1>4, <2>5, LandsKeeps, SameFates
  <1>5. CASE /\ UNCHANGED fates
             /\ Now(w, IF q.kind = "topic" /\ session # 0 THEN p("abandon")
                       ELSE IF q.kind = "confirm"
                       THEN p(IF session # 0 THEN "create" ELSE "latest")
                       ELSE IF q.managed THEN p("discuss") ELSE AtRestHandler)
    <2> HIDE DEF p
    <2>1. CASE q.kind = "topic" /\ session # 0
      BY <1>4, <1>5, <2>1
    <2>2. CASE q.kind = "confirm" /\ session # 0
      BY <1>4, <1>5, <2>2
    <2>3. CASE q.kind = "confirm" /\ session = 0
      BY <1>4, <1>5, <2>3
    <2>4. CASE ~(q.kind = "topic" /\ session # 0) /\ q.kind # "confirm" /\ q.managed
      BY <1>4, <1>5, <2>4
    <2>5. CASE ~(q.kind = "topic" /\ session # 0) /\ q.kind # "confirm" /\ ~q.managed
      BY <1>3, <1>5, <2>5
    <2> QED BY <2>1, <2>2, <2>3, <2>4, <2>5
  <1> QED BY <1>1, <1>2, <1>5 DEF ReadSession

LEMMA ClearSessionKeeps ==
    ASSUME RunsInv, NEW w \in RunWorkers, ClearSession(w)
    PROVE  RunsInv'
  <1> DEFINE q == handlers[w]
             p == [q EXCEPT !.session = 0, !.step = "discuss"]
             s == [q EXCEPT !.step = "prepare"]
  <1>1. /\ q \in Handlers /\ Sound(q) /\ q.step = "clear" /\ Len(drafts) \in Nat
        /\ 0 \in 0..MaxDrafts /\ 0 \in 0..Len(drafts) /\ Len(wfRuns) \in Nat
        /\ q.draft <= Len(drafts) /\ q.run <= Len(wfRuns) /\ q.session <= Len(drafts)
        /\ UNCHANGED <<drafts, wfRuns, recent>>
    BY HandlerIs, RunsAssumption DEF ClearSession, Sound, SoundHandler
  <1>2. CASE Fails(w) /\ UNCHANGED session
    BY <1>1, <1>2, FailsKeeps
  <1>5. CASE session' = 0 /\ UNCHANGED fates /\ Now(w, AtRestHandler)
    BY <1>1, <1>5, RestLands, LandsKeeps, SameFates
  <1>3. CASE session' = 0 /\ UNCHANGED fates /\ q.kind = "topic" /\ Now(w, p)
    <2>1. p \in Handlers
      BY <1>1 DEF Handlers, HandlerSteps
    <2>2. /\ p.step = "discuss" /\ p.kind = q.kind /\ p.message = q.message
          /\ p.managed = q.managed /\ p.session = 0 /\ p.draft = q.draft /\ p.run = q.run
          /\ p.then = q.then
      BY <1>1 DEF Handlers
    <2> HIDE DEF p
    <2>3. Lands(w)
      BY <1>1, <1>3, <2>1, <2>2, ChangesLand DEF Executing
    <2> QED BY <1>1, <1>3, <2>3, LandsKeeps, SameFates
  <1>4. CASE session' = 0 /\ UNCHANGED fates /\ q.kind # "topic" /\ Now(w, s)
    <2>1. s \in Handlers
      BY <1>1 DEF Handlers, HandlerSteps
    <2>2. /\ s.step = "prepare" /\ s.kind = q.kind /\ s.message = q.message
          /\ s.managed = q.managed /\ s.session = q.session /\ s.draft = q.draft /\ s.run = q.run
          /\ s.then = q.then
      BY <1>1 DEF Handlers
    <2>3. q.run # 0 /\ wfRuns[q.run].plan
      BY <1>1, <1>4 DEF Sound, SoundHandler
    <2> HIDE DEF s
    <2>4. Lands(w)
      BY <1>1, <1>4, <2>1, <2>2, <2>3, ChangesLand DEF Executing
    <2> QED BY <1>1, <1>4, <2>4, LandsKeeps, SameFates
  <1> QED BY <1>2, <1>3, <1>4, <1>5 DEF ClearSession, To

LEMMA PickLatestKeeps ==
    ASSUME RunsInv, NEW w \in RunWorkers, PickLatest(w)
    PROVE  RunsInv'
  <1> DEFINE q == handlers[w]
             runs == {i \in DOMAIN Listed : Resumable(q, Listed[i])}
  <1>1. /\ q \in Handlers /\ Sound(q) /\ q.step = "latest" /\ Len(drafts) \in Nat
        /\ Len(wfRuns) \in Nat /\ DOMAIN wfRuns = 1..Len(wfRuns) /\ Len(wfRuns) <= MaxRuns
        /\ q.draft <= Len(drafts) /\ q.session <= Len(drafts) /\ session' \in 0..Len(drafts)
        /\ UNCHANGED <<session, drafts, wfRuns, recent>>
    BY HandlerIs DEF PickLatest, Sound, SoundHandler, RunTables
  <1>2. CASE Fails(w)
    BY <1>1, <1>2, FailsKeeps
  <1>3. CASE Tells(w) /\ UNCHANGED fates
    BY <1>1, <1>3, TellsLands, LandsKeeps, SameFates
  <1>4. CASE \E i \in runs : /\ \A j \in runs : i <= j
                             /\ Now(w, [q EXCEPT !.run = Listed[i], !.step = "prepare"])
                             /\ UNCHANGED fates
    <2>1. PICK i \in runs : /\ Now(w, [q EXCEPT !.run = Listed[i], !.step = "prepare"])
                            /\ UNCHANGED fates
      BY <1>4
    <2>2. Listed[i] \in DOMAIN wfRuns /\ wfRuns[Listed[i]].plan
      <3>1. Listed \in Seq(DOMAIN wfRuns)
        <4> DEFINE n == IF Len(recent) < RecentLimit THEN Len(recent) ELSE RecentLimit
        <4>1. recent \in Seq(DOMAIN wfRuns) /\ Len(recent) \in Nat /\ RecentLimit \in Nat
          BY RunsAssumption DEF RunsInv, RunTables
        <4>2. n \in Nat /\ n <= Len(recent) /\ \A k \in 1..n : recent[k] \in DOMAIN wfRuns
          BY <4>1
        <4>3. Listed = SubSeq(recent, 1, n)
          BY DEF Listed
        <4> HIDE DEF n
        <4> QED BY <4>2, <4>3, SubSeqProperties
      <3>2. i \in DOMAIN Listed /\ Resumable(q, Listed[i])
        BY <2>1
      <3> QED BY <3>1, <3>2 DEF Resumable
    <2> DEFINE p == [q EXCEPT !.run = Listed[i], !.step = "prepare"]
    <2>3. Listed[i] \in 0..MaxRuns /\ Listed[i] # 0 /\ Listed[i] <= Len(wfRuns)
      BY <1>1, <2>2, RunsAssumption
    <2>4. p \in Handlers
      BY <1>1, <2>3 DEF Handlers, HandlerSteps
    <2>5. /\ p.step = "prepare" /\ p.kind = q.kind /\ p.message = q.message
          /\ p.managed = q.managed /\ p.session = q.session /\ p.draft = q.draft
          /\ p.run = Listed[i] /\ p.then = q.then
      BY <1>1 DEF Handlers
    <2> HIDE DEF p
    <2>6. Now(w, p)
      BY <2>1 DEF p
    <2>7. Lands(w)
      BY <1>1, <2>2, <2>3, <2>4, <2>5, <2>6, ChangesLand DEF Executing
    <2> QED BY <1>1, <2>1, <2>7, LandsKeeps, SameFates
  <1> QED BY <1>2, <1>3, <1>4 DEF PickLatest

LEMMA PrepareRunKeeps ==
    ASSUME RunsInv, NEW w \in RunWorkers, PrepareRun(w)
    PROVE  RunsInv'
  <1>1. /\ handlers[w].step = "prepare" /\ session' \in 0..Len(drafts)
        /\ UNCHANGED <<session, drafts, wfRuns, recent>>
    BY DEF PrepareRun, RunsInv, RunTables
  <1>2. CASE Tells(w) /\ Stays
    BY <1>1, <1>2, TellsLands, LandsKeeps, StaysFates
  <1>3. CASE (Transition(w, "dispatched", "prepare") \/ Transition(w, "running", "ask")) /\ UNCHANGED fates
    <2>1. "dispatched" \in RunStages /\ "running" \in RunStages
      BY DEF RunStages
    <2>2. Lands(w)
      BY <1>1, <1>3, <2>1, TransitionLands
    <2> QED BY <1>1, <1>3, <2>2, LandsKeeps, SameFates
  <1> QED BY <1>2, <1>3 DEF PrepareRun

LEMMA AskModelKeeps ==
    ASSUME RunsInv, NEW w \in RunWorkers, AskModel(w)
    PROVE  RunsInv'
  <1>1. /\ handlers[w].step = "ask" /\ session' \in 0..Len(drafts)
        /\ UNCHANGED <<session, drafts, wfRuns, recent, fates>>
    BY DEF AskModel, RunsInv, RunTables
  <1>2. "blocked" \in RunStages /\ "failed" \in RunStages
    BY DEF RunStages
  <1>3. Lands(w)
    <2>1. CASE ComesTo(w, "mark")
      BY <1>1, <2>1, ComesLands
    <2>2. CASE Transition(w, "blocked", "mark")
      BY <1>1, <1>2, <2>2, TransitionLands
    <2>3. CASE Transition(w, "failed", "tell")
      BY <1>1, <1>2, <2>3, TransitionLands
    <2> QED BY <2>1, <2>2, <2>3 DEF AskModel
  <1> QED BY <1>1, <1>3, LandsKeeps, SameFates

LEMMA TellKeeps ==
    ASSUME RunsInv, NEW w \in RunWorkers, Tell(w)
    PROVE  RunsInv'
  <1>1. /\ handlers[w].step = "tell" /\ session' \in 0..Len(drafts)
        /\ UNCHANGED <<session, drafts, wfRuns, recent>>
    BY DEF Tell, RunsInv, RunTables
  <1>2. CASE ComesTo(w, "mark") /\ UNCHANGED fates
    BY <1>1, <1>2, ComesLands, LandsKeeps, SameFates
  <1>3. CASE Fails(w)
    BY <1>1, <1>3, FailsKeeps
  <1> QED BY <1>2, <1>3 DEF Tell

LEMMA MarkDoneKeeps ==
    ASSUME RunsInv, NEW w \in RunWorkers, MarkDone(w)
    PROVE  RunsInv'
  <1>1. /\ handlers[w].step = "mark" /\ session' \in 0..Len(drafts) /\ Now(w, AtRestHandler)
        /\ UNCHANGED <<session, drafts, wfRuns, recent>> /\ handlers[w].message \in DOMAIN heard
    BY HandlerIs DEF MarkDone, RunTables
  <1>2. errors' \in 0..MaxErrors /\ HeardGrows /\ Len(heard') = Len(heard)
    <2>1. CASE Mark(w, "completed") /\ UNCHANGED errors
      BY <1>1, <2>1, MarkGrows DEF RunsInv, RunTables
    <2>2. CASE Stays
      BY <2>2, StaysFates
    <2> QED BY <2>1, <2>2 DEF MarkDone
  <1> QED BY <1>1, <1>2, RestLands, LandsKeeps

LEMMA MakePlanKeeps ==
    ASSUME RunsInv, NEW w \in RunWorkers, MakePlan(w)
    PROVE  RunsInv'
  <1> DEFINE q == handlers[w]
             n == IF q.session = 0 THEN 0 ELSE drafts[q.session].revision
             p == [q EXCEPT !.step = "upsert", !.draft = q.session, !.session = 0, !.revision = n]
  <1>1. /\ q \in Handlers /\ Sound(q) /\ q.step = "discuss" /\ Len(drafts) \in Nat
        /\ q.session \in 0..MaxDrafts /\ q.session <= Len(drafts) /\ q.run <= Len(wfRuns)
        /\ 0 \in 0..MaxDrafts /\ session' \in 0..Len(drafts) /\ 0 <= Len(drafts)
        /\ UNCHANGED <<session, drafts, wfRuns, recent>>
    <2>1. q \in Handlers /\ Sound(q) /\ Len(drafts) \in Nat /\ session \in 0..Len(drafts)
      BY HandlerIs DEF RunTables
    <2>2. q.session \in 0..MaxDrafts /\ q.session <= Len(drafts) /\ q.run <= Len(wfRuns)
      BY <2>1, HandlerFields DEF Sound, SoundHandler
    <2>3. /\ q.step = "discuss" /\ UNCHANGED <<session, drafts, wfRuns, recent>>
      BY DEF MakePlan
    <2> QED BY <2>1, <2>2, <2>3, RunsAssumption
  <1>2. CASE Tells(w) /\ Stays
    BY <1>1, <1>2, TellsLands, LandsKeeps, StaysFates
  <1>3. CASE Now(w, p) /\ UNCHANGED fates
    <2>1. n \in 0..MaxRevisions
      <3>1. CASE q.session = 0
        BY <3>1, RunsAssumption
      <3>2. CASE q.session # 0
        <4>1. q.session \in 1..Len(drafts) /\ drafts \in Seq(DraftRows)
          BY <1>1, <3>2 DEF RunsInv, RunTables
        <4>2. drafts[q.session] \in DraftRows
          BY <4>1
        <4>3. drafts[q.session].revision \in 1..MaxRevisions
          BY <4>2 DEF DraftRows
        <4> QED BY <3>2, <4>3, RunsAssumption
      <3> QED BY <3>1, <3>2
    <2> HIDE DEF n
    <2>2. p \in Handlers
      BY <1>1, <2>1 DEF Handlers, HandlerSteps
    <2>3. /\ p.step = "upsert" /\ p.kind = q.kind /\ p.message = q.message
          /\ p.managed = q.managed /\ p.session = 0 /\ p.draft = q.session
          /\ p.run = q.run /\ p.then = q.then
      BY <1>1 DEF Handlers
    <2> HIDE DEF p
    <2>4. Lands(w)
      BY <1>1, <1>3, <2>2, <2>3, ChangesLand DEF Executing
    <2> QED BY <1>1, <1>3, <2>4, LandsKeeps, SameFates
  <1> QED BY <1>2, <1>3 DEF MakePlan

LEMMA KeepSessionKeeps ==
    ASSUME RunsInv, NEW w \in RunWorkers, KeepSession(w)
    PROVE  RunsInv'
  <1>1. /\ handlers[w].step = "keep" /\ Tells(w)
        /\ UNCHANGED <<drafts, wfRuns, recent>>
    BY DEF KeepSession
  <1>2. Lands(w)
    BY <1>1, TellsLands
  <1>3. /\ session' \in 0..Len(drafts) /\ errors' \in 0..MaxErrors
        /\ HeardGrows /\ Len(heard') = Len(heard)
    <2>1. /\ handlers[w].draft \in Nat /\ handlers[w].draft <= Len(drafts) /\ Len(drafts) \in Nat
          /\ session \in 0..Len(drafts)
      BY HandlerIs, HandlerFields, RunsAssumption DEF Sound, SoundHandler, RunTables
    <2> QED BY <2>1, StaysFates, SameFates DEF KeepSession
  <1> QED BY <1>1, <1>2, <1>3, LandsKeeps

-----------------------------------------------------------------------------
(* Drafts and runs: steps that change a row.                                 *)

LEMMA WorkerMoves ==
    ASSUME RunsInv, RunTables', RunFacts', RunsGrow, NEW w \in RunWorkers, NEW p \in Handlers,
           Now(w, p), SoundThen(p), Follows(handlers[w], p), UNCHANGED heard,
           \A r \in DOMAIN wfRuns' :
              \/ r \in DOMAIN wfRuns
              \/ /\ r = Len(wfRuns) + 1 /\ wfRuns'[r].message = handlers[w].message
                 /\ handlers[w].step \in BeforeRun /\ p.step \notin BeforeRun,
           \A r \in DOMAIN wfRuns' :
              \/ wfRuns'[r].unlogged \/ IsLogged(wfRuns'[r])
              \/ p.run = r /\ p.step = "log" /\ p.to = wfRuns'[r].stage
              \/ /\ r \in DOMAIN wfRuns
                 /\ wfRuns'[r].stage = wfRuns[r].stage /\ wfRuns'[r].unlogged = wfRuns[r].unlogged
                 /\ IsLogged(wfRuns[r]) => IsLogged(wfRuns'[r])
                 /\ ~(/\ handlers[w].run = r /\ handlers[w].step = "log"
                      /\ handlers[w].to = wfRuns[r].stage)
    PROVE  RunsInv'
  <1>1. HandlersSound'
    BY OneHandlerMoves
  <1>2. TakesAreSpentOnce'
    BY TakesAreSpent
  <1>3. SavedStagesAreLogged'
    BY LogsStay
  <1> QED BY <1>1, <1>2, <1>3 DEF RunsInv, RunFacts

(* A handler with other fields is sound in the tables as they become. *)
LEMMA ChangesFollow ==
    ASSUME RunsInv, RunTables', RunsGrow, NEW w \in RunWorkers, NEW p \in Handlers,
           handlers[w].step # "idle", p.step \notin {"session", "abandon", "create", "save"},
           p.step = "log" => handlers[w].step = "save",
           p.message = handlers[w].message, p.kind = handlers[w].kind,
           p.managed = handlers[w].managed, p.then = handlers[w].then,
           p.session <= Len(drafts'), p.draft <= Len(drafts'), p.run <= Len(wfRuns'),
           p.step \in {"plan", "close"} =>
              p.kind = "confirm" /\ p.run # 0 /\ p.draft # 0 /\ wfRuns'[p.run].draft = p.draft,
           p.step \in Executing \/ (p.step = "clear" /\ p.kind # "topic") =>
              p.run # 0 /\ wfRuns'[p.run].plan
    PROVE  SoundThen(p) /\ Follows(handlers[w], p)
  <1>1. SoundThen(handlers[w])
    BY HandlerIs, SoundStays
  <1>2. SoundThen(p)
    BY <1>1 DEF SoundThen, SoundHandler
  <1>3. Follows(handlers[w], p)
    BY DEF Follows, BeforeRun
  <1> QED BY <1>2, <1>3

(* What may be written of a draft. *)
LEMMA DraftWritten ==
    ASSUME RunsInv, NEW d \in 1..Len(drafts), NEW row \in DraftRows,
           drafts' = [drafts EXCEPT ![d] = row]
    PROVE  /\ drafts' \in Seq(DraftRows) /\ Len(drafts') = Len(drafts) /\ Len(drafts') <= MaxDrafts
           /\ drafts'[d] = row /\ DOMAIN drafts' = DOMAIN drafts
           /\ \A e \in DOMAIN drafts : e # d => drafts'[e] = drafts[e]
  <1>1. drafts \in Seq(DraftRows) /\ Len(drafts) <= MaxDrafts
    BY DEF RunsInv, RunTables
  <1> QED BY <1>1

LEMMA AbandonDraftKeeps ==
    ASSUME RunsInv, NEW w \in RunWorkers, AbandonDraft(w)
    PROVE  RunsInv'
  <1> DEFINE q == handlers[w]
             p == [q EXCEPT !.step = "clear"]
  <1>1. /\ q \in Handlers /\ Sound(q) /\ q.step = "abandon" /\ Len(drafts) \in Nat
        /\ Len(wfRuns) \in Nat /\ UNCHANGED <<session, wfRuns, recent>> /\ Now(w, p)
        /\ q.session \in 0..MaxDrafts
    BY HandlerIs, HandlerFields DEF AbandonDraft, To
  <1>2. /\ q.kind = "topic" /\ q.session # 0 /\ q.session <= Len(drafts) /\ q.draft <= Len(drafts)
        /\ q.run <= Len(wfRuns)
    BY <1>1 DEF Sound, SoundHandler
  <1>3. /\ p \in Handlers /\ p.step = "clear" /\ p.kind = q.kind /\ p.message = q.message
        /\ p.managed = q.managed /\ p.session = q.session /\ p.draft = q.draft /\ p.run = q.run
        /\ p.then = q.then
    BY <1>1 DEF Handlers, HandlerSteps
  <1> HIDE DEF p
  <1>4. CASE Stays /\ UNCHANGED drafts
    <2>1. Lands(w)
      BY <1>1, <1>2, <1>3, ChangesLand DEF Executing
    <2>2. session' \in 0..Len(drafts)
      BY <1>1 DEF RunsInv, RunTables
    <2> QED BY <1>1, <1>4, <2>1, <2>2, LandsKeeps, StaysFates
  <1>5. CASE drafts' = [drafts EXCEPT ![q.session].status = "abandoned"] /\ UNCHANGED fates
    <2> DEFINE d   == q.session
               row == [drafts[d] EXCEPT !.status = "abandoned"]
    <2>1. d \in 1..Len(drafts) /\ drafts[d] \in DraftRows
      BY <1>1, <1>2 DEF RunsInv, RunTables
    <2>2. row \in DraftRows /\ row.status = "abandoned"
      BY <2>1 DEF DraftRows
    <2>3. drafts' = [drafts EXCEPT ![d] = row]
      BY <1>5
    <2> HIDE DEF row
    <2>4. /\ drafts' \in Seq(DraftRows) /\ Len(drafts') = Len(drafts) /\ Len(drafts') <= MaxDrafts
          /\ drafts'[d] = row /\ DOMAIN drafts' = DOMAIN drafts
          /\ \A e \in DOMAIN drafts : e # d => drafts'[e] = drafts[e]
      BY <2>1, <2>2, <2>3, DraftWritten
    <2>5. RunTables' /\ RunFacts' /\ RunsGrow
      <3>1. /\ UNCHANGED <<session, wfRuns, recent, heard>> /\ errors' \in 0..MaxErrors
            /\ Len(drafts) <= Len(drafts')
        BY <1>1, <1>5, <2>4, SameFates DEF fates
      <3>2. \A e \in DOMAIN drafts' : drafts'[e].status = "running" =>
                 e \in DOMAIN drafts /\ drafts[e].status = "running"
        BY <2>2, <2>4
      <3> QED BY <2>4, <3>1, <3>2, RunFactsAre, DraftsChange
    <2>6. SoundThen(p) /\ Follows(q, p)
      BY <1>1, <1>2, <1>3, <2>4, <2>5, ChangesFollow DEF Executing
    <2>7. UNCHANGED <<wfRuns, heard>>
      BY <1>1, <1>5 DEF fates
    <2> QED BY <1>1, <1>3, <2>5, <2>6, <2>7, WorkerMoves
  <1> QED BY <1>4, <1>5 DEF AbandonDraft

LEMMA CloseDiscussionKeeps ==
    ASSUME RunsInv, NEW w \in RunWorkers, CloseDiscussion(w)
    PROVE  RunsInv'
  <1> DEFINE q == handlers[w]
             p == [q EXCEPT !.draft = 0, !.step = "clear"]
  <1>1. /\ q \in Handlers /\ Sound(q) /\ q.step = "close" /\ Len(drafts) \in Nat
        /\ Len(wfRuns) \in Nat /\ UNCHANGED <<session, wfRuns, recent>> /\ Now(w, p)
        /\ q.draft \in 0..MaxDrafts /\ 0 \in 0..MaxDrafts
        /\ q.run # 0 => q.run \in DOMAIN wfRuns
    BY HandlerIs, HandlerFields, RunsAssumption DEF CloseDiscussion
  <1>2. /\ q.draft # 0 /\ q.session <= Len(drafts) /\ q.draft <= Len(drafts)
        /\ q.run <= Len(wfRuns) /\ q.run # 0 /\ wfRuns[q.run].draft = q.draft /\ wfRuns[q.run].plan
    BY <1>1 DEF Sound, SoundHandler, Executing
  <1>3. /\ p \in Handlers /\ p.step = "clear" /\ p.kind = q.kind /\ p.message = q.message
        /\ p.managed = q.managed /\ p.session = q.session /\ p.draft = 0 /\ p.run = q.run
        /\ p.then = q.then
    BY <1>1 DEF Handlers, HandlerSteps
  <1>4. 0 <= Len(drafts)
    BY <1>1
  <1> HIDE DEF p
  <1>5. CASE Stays /\ UNCHANGED drafts
    <2>1. Lands(w)
      BY <1>1, <1>2, <1>3, <1>4, ChangesLand DEF Executing
    <2>2. session' \in 0..Len(drafts)
      BY <1>1 DEF RunsInv, RunTables
    <2> QED BY <1>1, <1>5, <2>1, <2>2, LandsKeeps, StaysFates
  <1>6. CASE drafts' = [drafts EXCEPT ![q.draft].status = "running"] /\ UNCHANGED fates
    <2> DEFINE d   == q.draft
               row == [drafts[d] EXCEPT !.status = "running"]
    <2>1. d \in 1..Len(drafts) /\ drafts[d] \in DraftRows
      <3>1. drafts \in Seq(DraftRows)
        BY DEF RunsInv, RunTables
      <3>2. d \in 1..Len(drafts)
        BY <1>1, <1>2
      <3> QED BY <3>1, <3>2
    <2>2. row \in DraftRows
      BY <2>1 DEF DraftRows
    <2>3. drafts' = [drafts EXCEPT ![d] = row]
      BY <1>6
    <2> HIDE DEF row
    <2>4. /\ drafts' \in Seq(DraftRows) /\ Len(drafts') = Len(drafts) /\ Len(drafts') <= MaxDrafts
          /\ DOMAIN drafts' = DOMAIN drafts
          /\ \A e \in DOMAIN drafts : e # d => drafts'[e] = drafts[e]
      BY <2>1, <2>2, <2>3, DraftWritten
    <2>5. RunTables' /\ RunFacts' /\ RunsGrow
      <3>1. /\ UNCHANGED <<session, wfRuns, recent, heard>> /\ errors' \in 0..MaxErrors
            /\ Len(drafts) <= Len(drafts')
        BY <1>1, <1>6, <2>4, SameFates DEF fates
      <3>2. \A e \in DOMAIN drafts' : drafts'[e].status = "running" =>
                 \/ e \in DOMAIN drafts /\ drafts[e].status = "running"
                 \/ \E r \in DOMAIN wfRuns : wfRuns[r].draft = e /\ wfRuns[r].plan
        BY <1>1, <1>2, <2>4
      <3> QED BY <2>4, <3>1, <3>2, RunFactsAre, DraftsChange
    <2>6. SoundThen(p) /\ Follows(q, p)
      BY <1>1, <1>2, <1>3, <1>4, <2>4, <2>5, ChangesFollow DEF Executing
    <2>7. UNCHANGED <<wfRuns, heard>>
      BY <1>1, <1>6 DEF fates
    <2> QED BY <1>1, <1>3, <2>5, <2>6, <2>7, WorkerMoves
  <1> QED BY <1>5, <1>6 DEF CloseDiscussion

LEMMA UpsertDraftKeeps ==
    ASSUME RunsInv, NEW w \in RunWorkers, UpsertDraft(w)
    PROVE  RunsInv'
  <1> DEFINE q == handlers[w]
             n == IF q.draft = 0 THEN Len(drafts) + 1 ELSE q.draft
             p == [q EXCEPT !.draft = n, !.step = "keep", !.revision = 0]
  <1>1. /\ q \in Handlers /\ Sound(q) /\ q.step = "upsert" /\ Len(drafts) \in Nat
        /\ Len(wfRuns) \in Nat /\ UNCHANGED <<session, wfRuns, recent>>
        /\ q.draft \in 0..MaxDrafts /\ q.revision \in 0..MaxRevisions /\ q.revision < MaxRevisions
        /\ MaxRevisions \in Nat /\ MaxDrafts \in Nat /\ drafts \in Seq(DraftRows)
    BY HandlerIs, HandlerFields, RunsAssumption DEF UpsertDraft, RunTables
  <1>2. q.session <= Len(drafts) /\ q.draft <= Len(drafts) /\ q.run <= Len(wfRuns)
    BY <1>1 DEF Sound, SoundHandler
  <1>3. CASE Tells(w) /\ Stays /\ UNCHANGED drafts
    <2>1. session' \in 0..Len(drafts)
      BY <1>1 DEF RunsInv, RunTables
    <2> QED BY <1>1, <1>3, <2>1, TellsLands, LandsKeeps, StaysFates
  <1>4. CASE /\ IF q.draft = 0
                THEN /\ Len(drafts) < MaxDrafts
                     /\ drafts' = Append(drafts, [status |-> "ready", revision |-> 1])
                ELSE drafts' = [drafts EXCEPT ![q.draft].status = "ready",
                                              ![q.draft].revision = q.revision + 1]
             /\ Now(w, p) /\ UNCHANGED fates
    <2>1. /\ drafts' \in Seq(DraftRows) /\ Len(drafts) <= Len(drafts') /\ Len(drafts') <= MaxDrafts
          /\ n \in 0..MaxDrafts /\ n <= Len(drafts')
          /\ \A e \in DOMAIN drafts' : drafts'[e].status = "running" =>
                e \in DOMAIN drafts /\ drafts[e].status = "running"
      <3>1. CASE q.draft = 0
        <4> DEFINE row == [status |-> "ready", revision |-> 1]
        <4>1. row \in DraftRows /\ row.status = "ready"
          BY <1>1 DEF DraftRows
        <4>2. Len(drafts) < MaxDrafts /\ drafts' = Append(drafts, row)
          BY <1>4, <3>1
        <4> HIDE DEF row
        <4>3. /\ drafts' \in Seq(DraftRows) /\ Len(drafts') = Len(drafts) + 1
              /\ drafts'[Len(drafts) + 1] = row /\ DOMAIN drafts' = 1..(Len(drafts) + 1)
              /\ \A e \in 1..Len(drafts) : e \in DOMAIN drafts /\ drafts'[e] = drafts[e]
          BY <1>1, <4>1, <4>2
        <4>4. \A e \in DOMAIN drafts' : e = Len(drafts) + 1 \/ e \in 1..Len(drafts)
          BY <1>1, <4>3
        <4> QED BY <1>1, <3>1, <4>1, <4>2, <4>3, <4>4
      <3>2. CASE q.draft # 0
        <4> DEFINE d   == q.draft
                   row == [drafts[d] EXCEPT !.status = "ready", !.revision = q.revision + 1]
        <4>1. d \in 1..Len(drafts) /\ drafts[d] \in DraftRows
          BY <1>1, <1>2, <3>2
        <4>2. row \in DraftRows /\ row.status = "ready"
          <5>1. q.revision + 1 \in 1..MaxRevisions
            BY <1>1
          <5> QED BY <4>1, <5>1 DEF DraftRows
        <4>3. drafts' = [drafts EXCEPT ![d] = row]
          BY <1>4, <3>2
        <4> HIDE DEF row
        <4>4. /\ drafts' \in Seq(DraftRows) /\ Len(drafts') = Len(drafts)
              /\ Len(drafts') <= MaxDrafts /\ drafts'[d] = row /\ DOMAIN drafts' = DOMAIN drafts
              /\ \A e \in DOMAIN drafts : e # d => drafts'[e] = drafts[e]
          BY <4>1, <4>2, <4>3, DraftWritten
        <4> QED BY <1>1, <1>2, <3>2, <4>2, <4>4
      <3> QED BY <3>1, <3>2
    <2> HIDE DEF n
    <2>2. /\ p \in Handlers /\ p.step = "keep" /\ p.kind = q.kind /\ p.message = q.message
          /\ p.managed = q.managed /\ p.session = q.session /\ p.draft = n /\ p.run = q.run
          /\ p.then = q.then
      <3>1. 0 \in 0..MaxRevisions /\ "keep" \in HandlerSteps
        BY <1>1 DEF HandlerSteps
      <3>2. p \in Handlers
        BY <1>1, <2>1, <3>1 DEF Handlers
      <3>3. /\ p.step = "keep" /\ p.kind = q.kind /\ p.message = q.message
            /\ p.managed = q.managed /\ p.session = q.session /\ p.draft = n /\ p.run = q.run
            /\ p.then = q.then
        BY <1>1 DEF Handlers
      <3> QED BY <3>2, <3>3
    <2> HIDE DEF p
    <2>3. RunTables' /\ RunFacts' /\ RunsGrow
      <3>1. UNCHANGED <<session, wfRuns, recent, heard>> /\ errors' \in 0..MaxErrors
        BY <1>1, <1>4, SameFates DEF fates
      <3> QED BY <2>1, <3>1, RunFactsAre, DraftsChange
    <2>4. q.session <= Len(drafts') /\ q.run <= Len(wfRuns')
      <3>1. q.session \in 0..MaxDrafts /\ Len(drafts') \in Nat
        BY <1>1, <2>1, HandlerFields
      <3> QED BY <1>1, <1>2, <2>1, <3>1
    <2>5. SoundThen(p) /\ Follows(q, p)
      BY <1>1, <2>1, <2>2, <2>3, <2>4, ChangesFollow DEF Executing
    <2> QED BY <1>1, <1>4, <2>2, <2>3, <2>5, WorkerMoves DEF fates
  <1> QED BY <1>1, <1>3, <1>4 DEF UpsertDraft

LEMMA CreateRunKeeps ==
    ASSUME RunsInv, NEW w \in RunWorkers, CreateRun(w)
    PROVE  RunsInv'
  <1> DEFINE q == handlers[w]
             n == Len(wfRuns) + 1
             p == [q EXCEPT !.draft = q.session, !.session = 0, !.run = n, !.step = "plan"]
  <1>1. /\ q \in Handlers /\ Sound(q) /\ q.step = "create" /\ Len(drafts) \in Nat
        /\ Len(wfRuns) \in Nat /\ UNCHANGED <<session, drafts>>
        /\ q.session \in 0..MaxDrafts /\ 0 \in 0..MaxDrafts /\ RunTables /\ RunFacts
    BY HandlerIs, HandlerFields, RunsAssumption DEF CreateRun
  <1>2. /\ q.session # 0 /\ q.session <= Len(drafts) /\ q.kind = "confirm" /\ q.message \in 1..Len(heard)
    BY <1>1 DEF Sound, SoundHandler
  <1>3. CASE Fails(w) /\ UNCHANGED <<wfRuns, recent>>
    BY <1>1, <1>3, FailsKeeps
  <1>4. CASE AddRun(NewRun(q.session, q.message)) /\ Now(w, p) /\ UNCHANGED fates
    <2>1. q.session \in 0..Len(drafts) /\ q.message \in 0..Len(heard) /\ Len(heard) \in 0..MaxHeard
      BY <1>1, <1>2 DEF RunTables
    <2>3. /\ RunTables' /\ RunFacts' /\ RunsGrow
          /\ Len(wfRuns') = n /\ wfRuns'[n] = NewRun(q.session, q.message)
          /\ \A r \in DOMAIN wfRuns : wfRuns'[r] = wfRuns[r]
          /\ DOMAIN wfRuns' = DOMAIN wfRuns \cup {n}
      <3>1. UNCHANGED <<session, drafts, heard, errors>>
        BY <1>1, <1>4 DEF fates
      <3> QED BY <1>1, <1>4, <2>1, <3>1, RunIsAdded
    <2>4. /\ wfRuns'[n].draft = q.session /\ wfRuns'[n].message = q.message /\ IsLogged(wfRuns'[n])
      <3>1. q.message \in 0..MaxHeard
        BY <2>1, RunsAssumption
      <3> QED BY <1>1, <2>3, <3>1, NewRunIs
    <2>5. n \in 0..MaxRuns /\ n # 0
      BY <1>1, <2>3, RunsAssumption DEF RunTables
    <2> HIDE DEF n
    <2>6. /\ p \in Handlers /\ p.step = "plan" /\ p.kind = q.kind /\ p.message = q.message
          /\ p.managed = q.managed /\ p.session = 0 /\ p.draft = q.session /\ p.run = n
          /\ p.then = q.then
      <3>1. "plan" \in HandlerSteps
        BY DEF HandlerSteps
      <3>2. p \in Handlers
        BY <1>1, <2>5, <3>1 DEF Handlers
      <3>3. /\ p.step = "plan" /\ p.kind = q.kind /\ p.message = q.message
            /\ p.managed = q.managed /\ p.session = 0 /\ p.draft = q.session /\ p.run = n
            /\ p.then = q.then
        BY <1>1 DEF Handlers
      <3> QED BY <3>2, <3>3
    <2> HIDE DEF p
    <2>7. SoundThen(p) /\ Follows(q, p)
      <3>1. 0 <= Len(drafts') /\ q.session <= Len(drafts') /\ n <= Len(wfRuns')
        BY <1>1, <1>2, <2>3, <2>5, RunsAssumption
      <3> QED BY <1>1, <1>2, <2>3, <2>4, <2>5, <2>6, <3>1, ChangesFollow DEF Executing
    <2>8. \A r \in DOMAIN wfRuns' :
             \/ r \in DOMAIN wfRuns
             \/ r = n /\ wfRuns'[r].message = q.message /\ q.step \in BeforeRun /\ p.step \notin BeforeRun
      BY <1>1, <2>3, <2>4, <2>6 DEF BeforeRun
    <2>9. \A r \in DOMAIN wfRuns' :
             \/ IsLogged(wfRuns'[r])
             \/ /\ r \in DOMAIN wfRuns
                /\ wfRuns'[r].stage = wfRuns[r].stage /\ wfRuns'[r].unlogged = wfRuns[r].unlogged
                /\ IsLogged(wfRuns[r]) => IsLogged(wfRuns'[r])
                /\ q.step # "log"
      BY <1>1, <2>3, <2>4
    <2> HIDE DEF q
    <2> QED BY <1>4, <2>3, <2>6, <2>7, <2>8, <2>9, WorkerMoves DEF q, n, fates
  <1> QED BY <1>1, <1>3, <1>4 DEF CreateRun

(* A requested run has no message of its own, and no handler. *)
LEMMA RequestRunKeeps ==
    ASSUME RunsInv, RequestRun
    PROVE  RunsInv'
  <1> DEFINE n == Len(wfRuns) + 1
  <1>1. /\ RunTables /\ RunFacts /\ Len(drafts) \in Nat /\ Len(wfRuns) \in Nat
        /\ Len(heard) \in 0..MaxHeard /\ 0 \in 0..Len(heard) /\ 0 \in 0..Len(drafts)
        /\ 0 \in 0..MaxDrafts /\ 0 \in 0..MaxHeard
    <2>1. RunTables /\ RunFacts /\ Len(heard) \in 0..MaxHeard /\ Len(drafts) \in Nat /\ Len(wfRuns) \in Nat
      BY RunFactsAre DEF RunsInv, RunTables
    <2> QED BY <2>1, RunsAssumption
  <1>2. /\ RunTables' /\ RunFacts' /\ RunsGrow
        /\ Len(wfRuns') = n /\ wfRuns'[n] = NewRun(0, 0)
        /\ \A r \in DOMAIN wfRuns : wfRuns'[r] = wfRuns[r]
        /\ DOMAIN wfRuns' = DOMAIN wfRuns \cup {n}
    <2>1. AddRun(NewRun(0, 0)) /\ UNCHANGED <<session, drafts, heard, errors>>
      BY DEF RequestRun, fates
    <2> QED BY <1>1, <2>1, RunIsAdded
  <1>3. wfRuns'[n].message = 0 /\ IsLogged(wfRuns'[n])
    BY <1>1, <1>2, NewRunIs
  <1> HIDE DEF n
  <1>4. UNCHANGED handlers
    BY DEF RequestRun
  <1>5. HandlersSound'
    <2>1. ASSUME NEW v \in RunWorkers
          PROVE  SoundHandler(handlers[v], Len(drafts'), wfRuns', Len(heard'))
      BY <1>2, HandlerIs, SoundStays DEF SoundThen
    <2> QED BY <1>4, <2>1 DEF RunsInv, HandlersSound
  <1>6. TakesAreSpentOnce'
    <2>1. ASSUME NEW m \in DOMAIN heard PROVE RunsOf(m)' = RunsOf(m) /\ Creating(m)' = Creating(m)
      <3>1. m # 0
        BY DEF RunsInv, RunTables
      <3> QED BY <1>2, <1>3, <1>4, <3>1 DEF RunsOf, Creating
    <2>2. UNCHANGED heard
      BY DEF RequestRun, fates
    <2>3. ASSUME NEW m \in DOMAIN heard
          PROVE  /\ IsFiniteSet(Creating(m)')
                 /\ Cardinality(RunsOf(m)') + Cardinality(Creating(m)') <= heard[m].taken
      BY <2>1 DEF RunsInv, TakesAreSpentOnce
    <2> QED BY <2>2, <2>3 DEF TakesAreSpentOnce
  <1>7. SavedStagesAreLogged'
    BY <1>2, <1>3, <1>4 DEF RunsInv, SavedStagesAreLogged, IsLogged
  <1> QED BY <1>2, <1>5, <1>6, <1>7 DEF RunsInv, RunFacts

LEMMA SavePlanKeeps ==
    ASSUME RunsInv, NEW w \in RunWorkers, SavePlan(w)
    PROVE  RunsInv'
  <1> DEFINE q == handlers[w]
             p == [q EXCEPT !.step = "close"]
  <1>1. /\ q \in Handlers /\ Sound(q) /\ q.step = "plan" /\ Len(drafts) \in Nat
        /\ Len(wfRuns) \in Nat /\ UNCHANGED <<session, drafts, recent>>
        /\ q.run # 0 => q.run \in DOMAIN wfRuns
        /\ RunTables /\ RunFacts
    BY HandlerIs DEF SavePlan
  <1>2. /\ q.run # 0 /\ q.draft # 0 /\ q.kind = "confirm" /\ wfRuns[q.run].draft = q.draft
        /\ q.session <= Len(drafts) /\ q.draft <= Len(drafts) /\ q.run <= Len(wfRuns)
    BY <1>1 DEF Sound, SoundHandler
  <1>3. CASE Fails(w) /\ UNCHANGED wfRuns
    BY <1>1, <1>3, FailsKeeps
  <1>4. CASE WritePlan(q.run) /\ Now(w, p) /\ UNCHANGED fates
    <2> DEFINE r   == q.run
               row == [wfRuns[r] EXCEPT !.plan = TRUE]
    <2>1. r \in DOMAIN wfRuns /\ wfRuns[r] \in RunRows
      BY <1>1, <1>2, RunFields
    <2>2. /\ RunTables' /\ RunFacts' /\ RunsGrow
          /\ DOMAIN wfRuns' = DOMAIN wfRuns /\ wfRuns'[r] = row
          /\ \A s \in DOMAIN wfRuns : s # r => wfRuns'[s] = wfRuns[s]
      <3>1. UNCHANGED <<session, drafts, recent, heard, errors>>
        BY <1>1, <1>4 DEF fates
      <3> QED BY <1>1, <1>4, <2>1, <3>1, PlanIsWritten
    <2>3. /\ row.plan /\ row.draft = wfRuns[r].draft /\ row.stage = wfRuns[r].stage
          /\ row.unlogged = wfRuns[r].unlogged /\ row.events = wfRuns[r].events
      BY <2>1 DEF RunRows
    <2> HIDE DEF row
    <2>4. IsLogged(wfRuns[r]) => IsLogged(row)
      BY <2>3 DEF IsLogged
    <2>5. /\ p \in Handlers /\ p.step = "close" /\ p.kind = q.kind /\ p.message = q.message
          /\ p.managed = q.managed /\ p.session = q.session /\ p.draft = q.draft /\ p.run = q.run
          /\ p.then = q.then
      BY <1>1 DEF Handlers, HandlerSteps
    <2> HIDE DEF p
    <2>6. SoundThen(p) /\ Follows(q, p)
      <3>1. Len(wfRuns') = Len(wfRuns)
        BY <2>2 DEF RunTables
      <3> QED BY <1>1, <1>2, <2>2, <2>3, <2>5, <3>1, ChangesFollow DEF Executing
    <2>7. \A s \in DOMAIN wfRuns' :
             /\ s \in DOMAIN wfRuns
             /\ wfRuns'[s].stage = wfRuns[s].stage /\ wfRuns'[s].unlogged = wfRuns[s].unlogged
             /\ IsLogged(wfRuns[s]) => IsLogged(wfRuns'[s])
             /\ q.step # "log"
      BY <1>1, <2>2, <2>3, <2>4
    <2> QED BY <1>4, <2>2, <2>5, <2>6, <2>7, WorkerMoves DEF fates
  <1> QED BY <1>1, <1>3, <1>4 DEF SavePlan, To

LEMMA SaveStageKeeps ==
    ASSUME RunsInv, NEW w \in RunWorkers, SaveStage(w)
    PROVE  RunsInv'
  <1> DEFINE q == handlers[w]
             p == [q EXCEPT !.step = "log"]
  <1>1. /\ q \in Handlers /\ Sound(q) /\ q.step = "save" /\ Len(drafts) \in Nat
        /\ Len(wfRuns) \in Nat /\ UNCHANGED <<session, drafts>>
        /\ q.run # 0 => q.run \in DOMAIN wfRuns
        /\ RunTables /\ RunFacts /\ q.to \in RunStages
    BY HandlerIs, HandlerFields DEF SaveStage
  <1>2. /\ q.run # 0 /\ wfRuns[q.run].plan
        /\ q.session <= Len(drafts) /\ q.draft <= Len(drafts) /\ q.run <= Len(wfRuns)
    BY <1>1 DEF Sound, SoundHandler, Executing
  <1>3. CASE Stumbles(w) /\ Stays /\ UNCHANGED <<wfRuns, recent>>
    <2>1. session' \in 0..Len(drafts)
      BY <1>1 DEF RunTables
    <2> QED BY <1>1, <1>3, <2>1, StumblesLands, LandsKeeps, StaysFates
  <1>4. CASE WriteStage(q.run, q.to) /\ Now(w, p) /\ UNCHANGED fates
    <2> DEFINE r   == q.run
               row == [wfRuns[r] EXCEPT !.stage = q.to]
    <2>1. r \in DOMAIN wfRuns /\ wfRuns[r] \in RunRows
      BY <1>1, <1>2, RunFields
    <2>2. /\ RunTables' /\ RunFacts' /\ RunsGrow
          /\ DOMAIN wfRuns' = DOMAIN wfRuns /\ wfRuns'[r] = row
          /\ \A s \in DOMAIN wfRuns : s # r => wfRuns'[s] = wfRuns[s]
      <3>1. UNCHANGED <<session, drafts, heard, errors>>
        BY <1>1, <1>4 DEF fates
      <3> QED BY <1>1, <1>2, <1>4, <2>1, <3>1, StageIsWritten
    <2>3. row.plan /\ row.stage = q.to
      BY <1>2, <2>1 DEF RunRows
    <2> HIDE DEF row
    <2>4. /\ p \in Handlers /\ p.step = "log" /\ p.kind = q.kind /\ p.message = q.message
          /\ p.managed = q.managed /\ p.session = q.session /\ p.draft = q.draft /\ p.run = q.run
          /\ p.then = q.then /\ p.to = q.to
      BY <1>1 DEF Handlers, HandlerSteps
    <2> HIDE DEF p
    <2>5. SoundThen(p) /\ Follows(q, p)
      <3>1. Len(wfRuns') = Len(wfRuns)
        BY <2>2 DEF RunTables
      <3> QED BY <1>1, <1>2, <2>2, <2>3, <2>4, <3>1, ChangesFollow DEF Executing
    <2>6. \A s \in DOMAIN wfRuns' :
             \/ p.run = s /\ p.step = "log" /\ p.to = wfRuns'[s].stage
             \/ /\ s \in DOMAIN wfRuns
                /\ wfRuns'[s].stage = wfRuns[s].stage /\ wfRuns'[s].unlogged = wfRuns[s].unlogged
                /\ IsLogged(wfRuns[s]) => IsLogged(wfRuns'[s])
                /\ q.step # "log"
      BY <1>1, <2>2, <2>3, <2>4
    <2> QED BY <1>4, <2>2, <2>4, <2>5, <2>6, WorkerMoves DEF fates
  <1> QED BY <1>1, <1>3, <1>4 DEF SaveStage, To

LEMMA LogStageKeeps ==
    ASSUME RunsInv, NEW w \in RunWorkers, LogStage(w)
    PROVE  RunsInv'
  <1> DEFINE q == handlers[w]
             r == q.run
             event == [from |-> q.from, to |-> q.to]
  <1>1. /\ q \in Handlers /\ Sound(q) /\ q.step = "log"
        /\ UNCHANGED <<session, drafts, recent>>
        /\ q.run # 0 => q.run \in DOMAIN wfRuns
        /\ RunTables /\ RunFacts /\ q.to \in RunStages /\ q.from \in RunStages
    BY HandlerIs, HandlerFields DEF LogStage
  <1>2. r \in DOMAIN wfRuns /\ q.then \in {"tell", "mark", "prepare", "ask"}
    BY <1>1 DEF Sound, SoundHandler, Executing
  <1>3. event \in Events /\ event.to = q.to
    BY <1>1 DEF Events
  <1> HIDE DEF event
  <1>4. CASE LogEvent(r, event) /\ Then(w, q.then) /\ UNCHANGED fates
    <2>1. Lands(w)
      BY <1>1, <1>2, <1>4, ThenLands
    <2>2. /\ RunTables' /\ RunFacts' /\ RunsGrow
          /\ DOMAIN wfRuns' = DOMAIN wfRuns /\ wfRuns'[r].unlogged = wfRuns[r].unlogged
          /\ wfRuns'[r].stage = wfRuns[r].stage
          /\ IsLogged(wfRuns[r]) \/ event.to = wfRuns[r].stage => IsLogged(wfRuns'[r])
          /\ \A s \in DOMAIN wfRuns : s # r => wfRuns'[s] = wfRuns[s]
      <3>1. UNCHANGED <<session, drafts, recent, heard, errors>>
        BY <1>1, <1>4 DEF fates
      <3> HIDE DEF r
      <3> QED BY <1>1, <1>2, <1>3, <1>4, <3>1, EventIsLogged
    <2>3. PICK p \in Handlers : Now(w, p) /\ Sound(p) /\ Follows(q, p)
      BY <2>1 DEF Lands
    <2>4. SoundThen(p)
      BY <1>1, <2>2, <2>3, SoundStays
    <2>5. \A s \in DOMAIN wfRuns' :
             \/ IsLogged(wfRuns'[s])
             \/ /\ s \in DOMAIN wfRuns
                /\ wfRuns'[s].stage = wfRuns[s].stage /\ wfRuns'[s].unlogged = wfRuns[s].unlogged
                /\ IsLogged(wfRuns[s]) => IsLogged(wfRuns'[s])
                /\ ~(q.run = s /\ q.step = "log" /\ q.to = wfRuns[s].stage)
      BY <1>3, <2>2
    <2> QED BY <1>4, <2>2, <2>3, <2>4, <2>5, WorkerMoves DEF fates
  <1>5. CASE wfRuns' = [wfRuns EXCEPT ![r].unlogged = TRUE] /\ Stumbles(w) /\ Stays
    <2>1. Lands(w)
      BY <1>1, <1>5, StumblesLands
    <2>2. /\ RunTables' /\ RunFacts' /\ RunsGrow
          /\ DOMAIN wfRuns' = DOMAIN wfRuns /\ wfRuns'[r].unlogged
          /\ \A s \in DOMAIN wfRuns : s # r => wfRuns'[s] = wfRuns[s]
      <3>1. UNCHANGED <<session, drafts, recent, heard>> /\ errors' \in 0..MaxErrors
        BY <1>1, <1>5, ErrorsCount DEF Stays
      <3>2. wfRuns' = [wfRuns EXCEPT ![r].unlogged = TRUE]
        BY <1>5
      <3> HIDE DEF r
      <3> QED BY <1>1, <1>2, <3>1, <3>2, EventIsMissed
    <2>3. PICK p \in Handlers : Now(w, p) /\ Sound(p) /\ Follows(q, p)
      BY <2>1 DEF Lands
    <2>4. SoundThen(p)
      BY <1>1, <2>2, <2>3, SoundStays
    <2>5. \A s \in DOMAIN wfRuns' :
             \/ wfRuns'[s].unlogged
             \/ /\ s \in DOMAIN wfRuns
                /\ wfRuns'[s].stage = wfRuns[s].stage /\ wfRuns'[s].unlogged = wfRuns[s].unlogged
                /\ IsLogged(wfRuns[s]) => IsLogged(wfRuns'[s])
                /\ ~(q.run = s /\ q.step = "log" /\ q.to = wfRuns[s].stage)
      BY <2>2
    <2> QED BY <1>5, <2>2, <2>3, <2>4, <2>5, WorkerMoves DEF Stays
  <1> QED BY <1>4, <1>5 DEF LogStage, event

(* A worker dies: an event it was about to write is missed.                  *)
LEMMA HandlerDiesKeeps ==
    ASSUME RunsInv, NEW w \in RunWorkers, HandlerDies(w)
    PROVE  RunsInv'
  <1> DEFINE q == handlers[w]
             r == q.run
  <1>1. /\ q \in Handlers /\ Sound(q) /\ Stays /\ Now(w, AtRestHandler)
        /\ UNCHANGED <<session, drafts, recent>> /\ session \in 0..Len(drafts)
        /\ RunTables /\ RunFacts
        /\ q.run # 0 => q.run \in DOMAIN wfRuns
        /\ errors' \in 0..MaxErrors /\ HeardGrows /\ Len(heard') = Len(heard)
    BY HandlerIs, StaysFates DEF HandlerDies, RunTables
  <1>2. CASE q.step # "log"
    <2>1. UNCHANGED wfRuns
      BY <1>2 DEF HandlerDies
    <2> QED BY <1>1, <1>2, <2>1, RestLands, LandsKeeps
  <1>3. CASE q.step = "log"
    <2>1. r \in DOMAIN wfRuns
      <3>1. q.run # 0
        BY <1>1, <1>3 DEF Sound, SoundHandler, Executing
      <3>2. q.run # 0 => q.run \in DOMAIN wfRuns
        BY <1>1
      <3> QED BY <3>1, <3>2
    <2>2. /\ RunTables' /\ RunFacts' /\ RunsGrow
          /\ DOMAIN wfRuns' = DOMAIN wfRuns /\ wfRuns'[r].unlogged
          /\ \A s \in DOMAIN wfRuns : s # r => wfRuns'[s] = wfRuns[s]
      <3>1. UNCHANGED <<session, drafts, recent, heard>> /\ errors' \in 0..MaxErrors
        <4>1. UNCHANGED <<session, drafts, recent>>
          BY <1>1
        <4>2. errors' \in 0..MaxErrors
          BY <1>1
        <4>3. Stays
          BY <1>1
        <4> QED BY <4>1, <4>2, <4>3 DEF Stays
      <3>2. wfRuns' = [wfRuns EXCEPT ![r].unlogged = TRUE]
        BY <1>3 DEF HandlerDies
      <3>3. RunTables /\ RunFacts
        BY <1>1
      <3> HIDE DEF r
      <3> QED BY <2>1, <3>1, <3>2, <3>3, EventIsMissed
    <2>3. SoundThen(AtRestHandler)
      BY <2>2, RestIsSound, SoundStays DEF RunsInv
    <2>4. \A s \in DOMAIN wfRuns' :
             \/ wfRuns'[s].unlogged
             \/ /\ s \in DOMAIN wfRuns
                /\ wfRuns'[s].stage = wfRuns[s].stage /\ wfRuns'[s].unlogged = wfRuns[s].unlogged
                /\ IsLogged(wfRuns[s]) => IsLogged(wfRuns'[s])
                /\ ~(q.run = s /\ q.step = "log" /\ q.to = wfRuns[s].stage)
      BY <2>2
    <2>5. Follows(q, AtRestHandler)
      BY AtRest DEF Follows, BeforeRun
    <2> QED BY <1>1, <2>2, <2>3, <2>4, <2>5, AtRest, WorkerMoves DEF Stays
  <1> QED BY <1>2, <1>3

-----------------------------------------------------------------------------
(* Drafts and runs: every behaviour.                                         *)

LEMMA RunsStart == RunsInit => RunsInv
  <1> SUFFICES ASSUME RunsInit PROVE RunsInv
    OBVIOUS
  <1>1. /\ Len(drafts) = 0 /\ Len(wfRuns) = 0 /\ heard \in Seq(HeardRows) /\ Len(heard) = 0 /\ DOMAIN wfRuns = {} /\ DOMAIN drafts = {}
        /\ wfRuns \in Seq(RunRows) /\ drafts \in Seq(DraftRows)
        /\ recent \in Seq(DOMAIN wfRuns) /\ Len(recent) = 0
    BY DEF RunsInit
  <1>2. RunTables
    BY <1>1, RunsAssumption DEF RunsInit, RunTables
  <1>3. \A w \in RunWorkers : handlers[w] = AtRestHandler
    BY DEF RunsInit
  <1>4. HandlersSound
    <2>1. ASSUME NEW w \in RunWorkers
          PROVE  SoundHandler(handlers[w], Len(drafts), wfRuns, Len(heard))
      BY <1>1, <1>3, AtRestIsSound
    <2>2. handlers \in [RunWorkers -> Handlers]
      BY <1>3, AtRest DEF RunsInit
    <2> QED BY <2>1, <2>2 DEF HandlersSound
  <1>5. TakesAreSpentOnce
    BY DEF RunsInit, TakesAreSpentOnce
  <1>6. /\ SavedStagesAreLogged /\ ExecutedRunsHavePlans
        /\ RunningDraftsHaveRuns
    BY <1>1 DEF SavedStagesAreLogged, ExecutedRunsHavePlans, RunningDraftsHaveRuns
  <1> QED BY <1>2, <1>4, <1>5, <1>6 DEF RunsInv

LEMMA RunsStep == RunsInv /\ [RunsNext]_runVars => RunsInv'
  <1> SUFFICES ASSUME RunsInv, [RunsNext]_runVars PROVE RunsInv'
    OBVIOUS
  <1>1. CASE UNCHANGED runVars
    BY <1>1 DEF runVars, RunsInv, RunTables, HandlersSound, TakesAreSpentOnce, Creating,
                RunsOf, SavedStagesAreLogged, IsLogged, ExecutedRunsHavePlans,
                RunningDraftsHaveRuns
  <1>2. CASE RequestRun
    BY <1>2, RequestRunKeeps
  <1>3. ASSUME NEW w \in RunWorkers, HandlerStep(w) PROVE RunsInv'
    BY <1>3, HearKeeps, HearAgainKeeps, RecoverMessageKeeps, MarkDoneKeeps, HandlerDiesKeeps,
       ReadSessionKeeps, AbandonDraftKeeps, ClearSessionKeeps, CreateRunKeeps,
       SavePlanKeeps, CloseDiscussionKeeps, PickLatestKeeps, PrepareRunKeeps, SaveStageKeeps,
       LogStageKeeps, AskModelKeeps, TellKeeps, MakePlanKeeps, UpsertDraftKeeps, KeepSessionKeeps
    DEF HandlerStep
  <1> QED BY <1>1, <1>2, <1>3 DEF RunsNext

(* The tables of drafts, plans, runs and events agree in every state of the  *)
(* workers' handlers, and a message makes no more runs than the times it was *)
(* taken, for any workers and any bounds on messages, takes, runs, drafts,   *)
(* revisions and errors.                                                     *)
THEOREM RunsSettled == RunsSpec => [](RunsTypeOK /\ RunsKeepToTheirPlans)
  <1>1. RunsSpec => []RunsInv
    BY RunsStart, RunsStep, PTL DEF RunsSpec
  <1> QED BY <1>1, RunsInvKeeps, PTL

-----------------------------------------------------------------------------
(* The same in the run of all components: while one of them moves its steps  *)
(* are those above, and the others are still.                                *)

(* What a reader of a stream that is no part of the run is shown.             *)
NothingIsStreamed ==
    /\ messageCount = 0 /\ eventSeq = 0 /\ opRows = <<>> /\ opSeq = 0 /\ unheard = {}
    /\ approval = [state |-> "none", linked |-> FALSE]
    /\ stream = [at |-> "off", seen |-> Nothing] /\ view = Blank

(* Conversations and the state of extensions are there in every part. *)
MovingInv ==
    /\ part = "turns" => TurnInv
    /\ part = "runs" => RunsInv
    /\ part = "pipeline" => PipeInv
    /\ part = "plans" => PlanInv
    /\ part = "memory" => MemInv
    /\ part = "topics" => TopicInv /\ TopicKinds
    /\ part = "stream" => StreamInv /\ StreamKinds
    /\ part # "stream" => NothingIsStreamed
    /\ StoreInv

LEMMA ExtensionsBegin == ExtensionsInit => MovingInv
  <1> SUFFICES ASSUME ExtensionsInit PROVE MovingInv
    OBVIOUS
  <1>1. part = "pipeline" => PipeInv
    BY PipeInitially DEF ExtensionsInit
  <1>2. part = "plans" => PlanInv
    BY PlanBegins DEF ExtensionsInit
  <1>3. part = "topics" => TopicInv /\ TopicKinds
    BY TopicBegins, TopicKindsBegin DEF ExtensionsInit
  <1>4. StreamInv /\ StreamKinds
    BY StreamBegins, StreamKindsBegin DEF ExtensionsInit
  <1>5. part = "turns" => TurnInv
    BY TurnsStart DEF ExtensionsInit
  <1>6. part = "runs" => RunsInv
    BY RunsStart DEF ExtensionsInit
  <1>7. part = "memory" => MemInv
    BY MemStarts DEF ExtensionsInit
  <1>8. NothingIsStreamed /\ StoreInv
    BY <1>4 DEF ExtensionsInit, StreamInit, NothingIsStreamed, StreamInv
  <1> QED BY <1>1, <1>2, <1>3, <1>4, <1>5, <1>6, <1>7, <1>8 DEF MovingInv

LEMMA PartsStay ==
    ASSUME [ExtensionsNext]_extensionsVars
    PROVE  /\ part' = part
           /\ part = "turns" => [TurnsNext]_turnVars
           /\ part = "runs" => [RunsNext]_runVars
           /\ part = "pipeline" => [PipeNext]_pipeVars
           /\ part = "plans" => [PlanNext]_planVars
           /\ part = "memory" => [MemNext]_memVars
           /\ part = "topics" => [TopicNext]_topicVars
           /\ part = "stream" => [StreamNext]_streamVars
           /\ part # "stream" => [StoreNext]_storeVars /\ UNCHANGED <<newsVars, stream, view>>
           /\ [ConvNext]_convVars
  <1>1. CASE UNCHANGED extensionsVars
    BY <1>1 DEF extensionsVars, streamVars
  <1>2. CASE PipelinePart \/ PlansPart
    BY <1>2 DEF PipelinePart, PlansPart, streamVars
  <1>3. CASE TopicsPart \/ StreamPart
    BY <1>3 DEF TopicsPart, StreamPart, streamVars
  <1>4. CASE TurnsPart \/ RunsPart
    BY <1>4 DEF TurnsPart, RunsPart, streamVars
  <1>5. CASE ConversationsPart \/ MemoryPart
    BY <1>5 DEF ConversationsPart, MemoryPart, streamVars
  <1>6. CASE StorePart
    BY <1>6 DEF StorePart
  <1> QED BY <1>1, <1>2, <1>3, <1>4, <1>5, <1>6 DEF ExtensionsNext

(* A step of the stream writes records as a call does or leaves them. *)
LEMMA StreamedRecords ==
    ASSUME StreamInv, [StreamNext]_streamVars
    PROVE  StoreInv' /\ ClosedLasts
  <1>1. StoreInv'
    BY StreamStep DEF StreamInv
  <1>2. CASE RecordCalls
    BY <1>2, StoreStep DEF StreamInv, StoreNext
  <1>3. ASSUME records' = records PROVE ClosedLasts
    BY <1>3 DEF ClosedLasts
  <1>4. RecordCalls \/ records' = records
    BY DEF StreamNext, Changes, Connect, Poll, Snapshot, SnapshotFails, Disconnect,
           streamVars, storeVars
  <1> QED BY <1>1, <1>2, <1>3, <1>4

LEMMA RecordsInParts ==
    ASSUME MovingInv, [ExtensionsNext]_extensionsVars
    PROVE  StoreInv' /\ ClosedLasts
  <1>1. CASE part = "stream"
    BY <1>1, PartsStay, StreamedRecords DEF MovingInv
  <1>2. CASE part # "stream"
    BY <1>2, PartsStay, StoreStep, StoreStutter DEF MovingInv
  <1> QED BY <1>1, <1>2

LEMMA MovingStep ==
    ASSUME MovingInv, [ExtensionsNext]_extensionsVars
    PROVE  MovingInv'
  <1>1. /\ part' = part
        /\ part = "turns" => [TurnsNext]_turnVars
        /\ part = "runs" => [RunsNext]_runVars
        /\ part = "pipeline" => [PipeNext]_pipeVars
        /\ part = "plans" => [PlanNext]_planVars
        /\ part = "memory" => [MemNext]_memVars
        /\ part = "topics" => [TopicNext]_topicVars
        /\ part = "stream" => [StreamNext]_streamVars
        /\ part # "stream" => UNCHANGED <<newsVars, stream, view>>
    BY PartsStay
  <1>2. part = "pipeline" => PipeInv'
    BY <1>1, PipeStep DEF MovingInv
  <1>3. part = "plans" => PlanInv'
    BY <1>1, PlanStep DEF MovingInv
  <1>4. part = "topics" => TopicInv' /\ TopicKinds'
    BY <1>1, TopicStep, TopicKindsStep DEF MovingInv
  <1>5. part = "stream" => StreamInv' /\ StreamKinds'
    BY <1>1, StreamStep, StreamKindsStep DEF MovingInv
  <1>6. part = "turns" => TurnInv'
    BY <1>1, TurnsStep DEF MovingInv
  <1>7. part = "runs" => RunsInv'
    BY <1>1, RunsStep DEF MovingInv
  <1>8. part = "memory" => MemInv'
    BY <1>1, MemStep DEF MovingInv
  <1>9. part # "stream" => NothingIsStreamed'
    BY <1>1 DEF MovingInv, NothingIsStreamed, newsVars
  <1>10. StoreInv'
    BY RecordsInParts
  <1> QED BY <1>1, <1>2, <1>3, <1>4, <1>5, <1>6, <1>7, <1>8, <1>9, <1>10 DEF MovingInv

THEOREM MovingInvariant == ExtensionsSpec => []MovingInv
  BY ExtensionsBegin, MovingStep, PTL DEF ExtensionsSpec

(* A behavior of the components is one of conversations, so that what holds  *)
(* of those holds here.                                                      *)
THEOREM SuiteRunsConversations == ExtensionsSpec => ConvSpec
  <1>1. ExtensionsInit => ConvInit
    BY DEF ExtensionsInit
  <1>2. [ExtensionsNext]_extensionsVars => [ConvNext]_convVars
    BY PartsStay
  <1> QED BY <1>1, <1>2, PTL DEF ExtensionsSpec, ConvSpec

(* Messages are answered once (generate_conversation_agent_reply,            *)
(* handle_operation_updated, recover_stale_conversation_receipts).           *)
THEOREM MessagesAnswered == ExtensionsSpec => []MessagesAreAnsweredOnce
  <1>1. MovingInv => MessagesAreAnsweredOnce
    BY TurnInvSettles DEF MovingInv, MessagesAreAnsweredOnce
  <1> QED BY <1>1, MovingInvariant, PTL

(* Runs follow their plans (resume_pending_workflow_run,                     *)
(* execute_workflow_run, upsert_managed_discussion).                         *)
THEOREM RunsFollow == ExtensionsSpec => []RunsFollowTheirPlans
  <1>1. MovingInv => RunsFollowTheirPlans
    BY RunsInvKeeps DEF MovingInv, RunsFollowTheirPlans
  <1> QED BY <1>1, MovingInvariant, PTL

(* What was dispatched ran as it was allowed and in turn, and its event says *)
(* so (dispatch_action_pipeline, drive_operator_message_received).           *)
THEOREM DispatchedWork == ExtensionsSpec => []DispatchedWorkIsAccountedFor
  <1>1. MovingInv => DispatchedWorkIsAccountedFor
    BY PipeInvAccounts DEF MovingInv, DispatchedWorkIsAccountedFor
  <1> QED BY <1>1, MovingInvariant, PTL

(* Accepted plans are sound (validate_plan, derive_tasks_from_plan). *)
THEOREM PlansAreSound == ExtensionsSpec => []PlansStaySound
  <1>1. MovingInv => PlansStaySound
    BY PlanInvSound DEF MovingInv, PlansStaySound
  <1> QED BY <1>1, MovingInvariant, PTL

(* The streams miss no change (conversation_stream, topic streams). *)
THEOREM ReadersAreShown == ExtensionsSpec => []ReadersSeeWhatHappened
  <1>1. MovingInv => ReadersSeeWhatHappened
    BY TopicInvShows, StreamInvShows DEF MovingInv, ReadersSeeWhatHappened
  <1> QED BY <1>1, MovingInvariant, PTL

(* What is kept and recalled of memories follows the policy, the reviews and *)
(* the budget (remember, review, assemble_context).                          *)
THEOREM MemoryRecalls == ExtensionsSpec => []MemoryRecallsWhatCounts
  <1>1. MovingInv => MemoryRecallsWhatCounts
    BY MemInvTells DEF MovingInv, MemoryRecallsWhatCounts
  <1> QED BY <1>1, MovingInvariant, PTL

(* Versions, payloads and the list of open records tell what has become of a *)
(* state, and a closed record stays closed, also while a stream shows them   *)
(* (put_state, update_record, close_record).                                 *)
THEOREM StateTells == ExtensionsSpec => []RecordsTellTheirState
  <1>1. MovingInv => RecordsTellTheirState
    BY DEF MovingInv, StoreInv
  <1> QED BY <1>1, MovingInvariant, PTL

THEOREM ClosedStays == ExtensionsSpec => ClosedStaysClosed
  <1>1. MovingInv /\ [ExtensionsNext]_extensionsVars =>
           [\A i \in DOMAIN records : records[i].closed # 0 => records'[i].closed # 0]_storeVars
    BY RecordsInParts DEF ClosedLasts
  <1> QED BY <1>1, MovingInvariant, PTL DEF ExtensionsSpec, ClosedStaysClosed

(* Where nothing is streamed the stream has its types. *)
LEMMA UnstreamedTypes == StoreInv /\ NothingIsStreamed => StreamTypeOK
  <1> SUFFICES ASSUME StoreInv, NothingIsStreamed PROVE StreamTypeOK
    OBVIOUS
  <1>1. 0 \in Instants
    BY StoreAssumption DEF Instants
  <1>2. stream \in [at : {"off", "waiting", "snapshot"},
                   seen : [event : Instants, approval : 0..1, operation : Nat, record : Instants]]
    BY <1>1 DEF NothingIsStreamed, Nothing
  <1>3. view \in [good : BOOLEAN, said : Instants, approval : Approvals,
                 operations : Seq(OpRow), records : Seq(Row)]
    BY <1>1 DEF NothingIsStreamed, Blank, Approvals
  <1>4. /\ messageCount \in Instants /\ eventSeq \in Instants /\ eventSeq <= messageCount
        /\ approval \in [state : Approvals, linked : BOOLEAN]
        /\ opRows \in Seq(OpRow) /\ opSeq \in Nat /\ unheard \subseteq News
        /\ \A i, j \in DOMAIN opRows : opRows[i].id = opRows[j].id => i = j
    BY <1>1 DEF NothingIsStreamed, Approvals
  <1> QED BY <1>2, <1>3, <1>4 DEF StoreInv, StreamTypeOK

(* Every component keeps its types: no call that is cut, repeated or         *)
(* overtaken leaves a row its next reader has no case for.                   *)
THEOREM ExtensionTypes == ExtensionsSpec => []ExtensionTypesOK
  <1>1. ASSUME MovingInv, ConvInv PROVE ExtensionTypesOK
    <2>1. part = "turns" => TurnsTypeOK
      BY <1>1, TurnInvSettles DEF MovingInv, TurnInv
    <2>2. part = "runs" => RunsTypeOK
      BY <1>1, RunsInvKeeps DEF MovingInv
    <2>3. ConvTypeOK
      BY <1>1 DEF ConvInv
    <2>4. part = "memory" => MemTypeOK
      BY <1>1, MemInvTells DEF MovingInv
    <2>5. part = "pipeline" => PipelineTypeOK
      BY <1>1, PipeInvAccounts DEF MovingInv
    <2>6. part = "topics" => TopicTypeOK
      BY <1>1, TopicTypes DEF MovingInv
    <2>7. StreamTypeOK
      BY <1>1, StreamTypes, UnstreamedTypes DEF MovingInv
    <2> QED BY <2>1, <2>2, <2>3, <2>4, <2>5, <2>6, <2>7 DEF ExtensionTypesOK
  <1> QED BY <1>1, MovingInvariant, SuiteRunsConversations, ConversationInvariant, PTL
=============================================================================
