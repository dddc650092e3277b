------------------------- MODULE SpanTrackerProofs -------------------------
(***************************************************************************)
(* Proofs about SpanTracker for every number of goroutines and spans and   *)
(* for every limit: no goroutine is handed an ended span, a live span is   *)
(* cut off only by overload, and a full stack drops no span that had room. *)
(***************************************************************************)
EXTENDS SpanTracker, FiniteSetTheorems, SequenceTheorems, TLAPS

-----------------------------------------------------------------------------
(* The operators on sequences and the sets of their elements.              *)

\* A nonempty set of positions has a first one.
LEMMA LeastExists ==
  ASSUME NEW S \in SUBSET Nat, S # {}
  PROVE  \E i \in S : \A j \in S : i <= j
  <1>1. \E i \in S : \A j \in S : <<j, i>> \notin OpToRel(<, Nat)
    BY NatLessThanWellFounded, WFMin
  <1>2. PICK i \in S : \A j \in S : <<j, i>> \notin OpToRel(<, Nat)
    BY <1>1
  <1>3. \A j \in S : ~(j < i)
    BY <1>2 DEF OpToRel
  <1> QED BY <1>3

LEMMA RemoveAtPrefixes ==
  ASSUME NEW q \in Seq(Spans), NEW i \in 1..Len(q)
  PROVE  /\ RemoveAt(q, i) \in Seq(Spans)
         /\ Len(RemoveAt(q, i)) = Len(q) - 1
         /\ \A k \in 1..(Len(q) - 1) :
              RemoveAt(q, i)[k] = IF k < i THEN q[k] ELSE q[k + 1]
  <1> DEFINE left == SubSeq(q, 1, i - 1)
             right == SubSeq(q, i + 1, Len(q))
  <1>1. /\ left \in Seq(Spans) /\ Len(left) = i - 1
        /\ \A k \in 1..(i - 1) : left[k] = q[k]
    <2>1. \A k \in 1..(i - 1) : q[k] \in Spans
      BY ElementOfSeq
    <2> QED BY <2>1, SubSeqProperties
  <1>2. /\ right \in Seq(Spans) /\ Len(right) = Len(q) - i
        /\ \A k \in 1..(Len(q) - i) : right[k] = q[i + k]
    <2>1. \A k \in (i + 1)..Len(q) : q[k] \in Spans
      BY ElementOfSeq
    <2>2. Len(q) \in Nat /\ i + 1 \in Int
      OBVIOUS
    <2> QED BY <2>1, <2>2, SubSeqProperties
  <1>3. RemoveAt(q, i) = left \o right
    BY DEF RemoveAt
  <1> HIDE DEF left, right
  <1>4. /\ left \o right \in Seq(Spans)
        /\ Len(left \o right) = Len(left) + Len(right)
        /\ \A k \in 1..(Len(left) + Len(right)) :
             (left \o right)[k] = IF k <= Len(left) THEN left[k] ELSE right[k - Len(left)]
    BY <1>1, <1>2, ConcatProperties
  <1> QED BY <1>1, <1>2, <1>3, <1>4

LEMMA RemoveFirstIsRemoveAt ==
  ASSUME NEW q \in Seq(Spans), NEW e \in ToSet(q)
  PROVE  \E i \in 1..Len(q) : q[i] = e /\ RemoveFirst(q, e) = RemoveAt(q, i)
  <1> DEFINE places == {i \in 1..Len(q) : q[i] = e}
  <1>1. places \in SUBSET Nat /\ places # {}
    BY DEF ToSet
  <1>2. PICK i \in places : \A j \in places : i <= j
    BY <1>1, LeastExists
  <1>3. Min(places) \in places
    BY <1>2 DEF Min
  <1>4. RemoveFirst(q, e) = RemoveAt(q, Min(places))
    BY <1>1, <1>3 DEF RemoveFirst, SelectInSeq
  <1> QED BY <1>3, <1>4

\* Removing an element leaves the others, in their order.
LEMMA RemoveAtElements ==
  ASSUME NEW q \in Seq(Spans), NEW i \in 1..Len(q)
  PROVE  /\ ToSet(RemoveAt(q, i)) \subseteq ToSet(q)
         /\ IsInjective(q) => /\ ToSet(RemoveAt(q, i)) = ToSet(q) \ {q[i]}
                              /\ IsInjective(RemoveAt(q, i))
  <1> DEFINE r == RemoveAt(q, i)
  <1>0. /\ r \in Seq(Spans) /\ Len(r) = Len(q) - 1
        /\ \A k \in 1..(Len(q) - 1) : r[k] = IF k < i THEN q[k] ELSE q[k + 1]
    BY RemoveAtPrefixes, Zenon
  <1>1. /\ r \in Seq(Spans) /\ Len(r) = Len(q) - 1 /\ Len(q) \in Nat
        /\ \A k \in 1..(Len(q) - 1) : r[k] = IF k < i THEN q[k] ELSE q[k + 1]
    BY <1>0
  <1> HIDE DEF r
  <1>2. DOMAIN r = 1..(Len(q) - 1) /\ DOMAIN q = 1..Len(q)
    BY <1>1, LenProperties
  <1>3. ToSet(r) \subseteq ToSet(q)
    BY <1>1, <1>2, SMTT(20) DEF ToSet
  <1>4. ASSUME IsInjective(q)
        PROVE  ToSet(r) = ToSet(q) \ {q[i]} /\ IsInjective(r)
    <2>1. \A k \in 1..Len(q) : \A l \in 1..Len(q) : q[k] = q[l] => k = l
      BY <1>2, <1>4 DEF IsInjective
    <2>2. q[i] \notin ToSet(r)
      BY <1>1, <1>2, <2>1 DEF ToSet
    <2>3. ASSUME NEW k \in 1..Len(q), k # i
          PROVE  q[k] \in ToSet(r)
      <3>1. CASE k < i
        BY <1>1, <1>2, <3>1, SMTT(20) DEF ToSet
      <3>2. CASE k > i
        <4>1. k - 1 \in DOMAIN r /\ r[k - 1] = q[k]
          BY <1>1, <1>2, <3>2
        <4> QED BY <4>1 DEF ToSet
      <3> QED BY <2>3, <3>1, <3>2
    <2>4. IsInjective(r)
      BY <1>1, <1>2, <2>1 DEF IsInjective
    <2> QED BY <1>2, <1>3, <2>2, <2>3, <2>4 DEF ToSet
  <1> QED BY <1>3, <1>4 DEF r

LEMMA RemoveFirstElements ==
  ASSUME NEW q \in Seq(Spans), NEW e \in ToSet(q)
  PROVE  /\ RemoveFirst(q, e) \in Seq(Spans)
         /\ Len(RemoveFirst(q, e)) = Len(q) - 1
         /\ ToSet(RemoveFirst(q, e)) \subseteq ToSet(q)
         /\ IsInjective(q) => /\ ToSet(RemoveFirst(q, e)) = ToSet(q) \ {e}
                              /\ IsInjective(RemoveFirst(q, e))
  BY RemoveFirstIsRemoveAt, RemoveAtPrefixes, RemoveAtElements

LEMMA Elements ==
  ASSUME NEW q \in Seq(Spans)
  PROVE  /\ ToSet(q) = {q[i] : i \in 1..Len(q)}
         /\ \A i \in 1..Len(q) : q[i] \in ToSet(q)
         /\ ToSet(q) \subseteq Spans
  BY LenProperties, ElementOfSeq DEF ToSet

\* A sequence without repetitions is as long as the set of its elements is big.
LEMMA CountElements ==
  ASSUME NEW q \in Seq(Spans), IsInjective(q)
  PROVE  IsFiniteSet(ToSet(q)) /\ Cardinality(ToSet(q)) = Len(q)
  <1>1. Len(q) \in Nat /\ DOMAIN q = 1..Len(q) /\ q \in [1..Len(q) -> ToSet(q)]
    BY LenProperties DEF ToSet
  <1>2. q \in Surjection(1..Len(q), ToSet(q))
    BY <1>1 DEF Surjection, ToSet
  <1>3. q \in Injection(1..Len(q), ToSet(q))
    BY <1>1 DEF Injection, IsInjective
  <1>4. IsFiniteSet(1..Len(q)) /\ Cardinality(1..Len(q)) = Len(q)
    BY <1>1, FS_Interval
  <1> QED BY <1>2, <1>3, <1>4, FS_Surjection

\* A stack with a new span on top.
LEMMA Pushed ==
  ASSUME NEW q \in Seq(Spans), NEW s \in Spans
  PROVE  /\ <<s>> \o q \in Seq(Spans) /\ Len(<<s>> \o q) = Len(q) + 1
         /\ \A k \in 1..(Len(q) + 1) : (<<s>> \o q)[k] = IF k = 1 THEN s ELSE q[k - 1]
         /\ Last(<<s>> \o q) = IF Len(q) = 0 THEN s ELSE Last(q)
  <1>1. <<s>> \in Seq(Spans) /\ Len(<<s>>) = 1 /\ <<s>>[1] = s
    OBVIOUS
  <1>2. /\ <<s>> \o q \in Seq(Spans) /\ Len(<<s>> \o q) = Len(q) + 1
        /\ \A k \in 1..(Len(q) + 1) : (<<s>> \o q)[k] = IF k <= 1 THEN <<s>>[k] ELSE q[k - 1]
    BY <1>1, ConcatProperties
  <1>3. Len(q) \in Nat
    OBVIOUS
  <1> QED BY <1>1, <1>2, <1>3 DEF Last

LEMMA BottomOf ==
  ASSUME NEW q \in Seq(Spans)
  PROVE  /\ Bottom(q) = IF Len(q) = 0 THEN NoSpan ELSE Last(q)
         /\ Bottom(q) \in Spans \cup {NoSpan}
  <1>1. (q = <<>>) <=> (Len(q) = 0)
    BY EmptySeq
  <1>2. Len(q) \in Nat /\ (Len(q) # 0 => q[Len(q)] \in Spans)
    BY ElementOfSeq
  <1> QED BY <1>1, <1>2 DEF Bottom, Last

-----------------------------------------------------------------------------
(* The inductive invariant.  That the flags can be trusted rests on        *)
(* TrackedInv: what is on a stack is in the map or flagged.  That eviction *)
(* spares live spans rests on RoomInv, which counts the spans in flight;   *)
(* that a drop was due, on CompactInv, which follows compact's cursor.     *)

\* A flagged span was started and has left the map; a span on a stack that has
\* left the map is flagged.
TrackedInv ==
  /\ \A s \in Spans : ended[s] => life[s] # "unborn" /\ s \notin states
  /\ \A g \in Goroutines : \A i \in 1..Len(stack[g]) :
       stack[g][i] \in states \/ ended[stack[g][i]]

\* A span that is being added is live and nobody else's yet.
AddingInv ==
  \A g \in Goroutines : adding[g] # NoSpan =>
    /\ g \in running
    /\ life[adding[g]] = "live" /\ adding[g] \notin states /\ ~ended[adding[g]]
    /\ \A h \in Goroutines : adding[h] = adding[g] => h = g

\* Behind compact's cursor nothing is left that had ended when it began.
CompactInv ==
  \A g \in Goroutines :
    /\ before[g] \subseteq Over
    /\ adding[g] # NoSpan =>
         /\ scan[g] >= 1
         /\ \A i \in 1..Len(stack[g]) : i < scan[g] => stack[g][i] \notin before[g]

\* Without an overflow all the spans in flight fit the map.
RoomInv == IsFiniteSet(Live) /\ (overflow \/ Cardinality(Live) <= MaxStates)

SpanTrackerInv ==
  /\ TypeOK /\ TrackedInv /\ AddingInv /\ CompactInv /\ RoomInv
  /\ StatesAgree /\ StackAgrees /\ LiveSpansKept

LEMMA SpanTrackerStarts == Init => SpanTrackerInv
  <1> SUFFICES ASSUME Init PROVE SpanTrackerInv
    OBVIOUS
  <1> USE DEF Init
  <1>1. <<>> \in Seq(Spans) /\ Len(<<>>) = 0
    BY EmptySeq
  <1>2. TypeOK
    <2>1. 0 \in 0..MaxSpans
      BY SpanTrackerAssumption
    <2>2. running \subseteq Goroutines /\ held \in [Goroutines -> 0..MaxSpans]
      BY <2>1
    <2>3. stack \in [Goroutines -> Seq(Spans)] /\ order \in Seq(Spans)
      BY <1>1
    <2> QED BY <2>2, <2>3 DEF TypeOK
  <1>3. TrackedInv /\ AddingInv
    BY <1>1 DEF TrackedInv, AddingInv
  <1>4. CompactInv
    BY <1>1 DEF CompactInv
  <1>5. RoomInv
    <2>1. Live = {}
      BY DEF Live
    <2> QED BY <2>1, FS_EmptySet, SpanTrackerAssumption DEF RoomInv
  <1>6. StatesAgree
    <2>1. ToSet(<<>>) = {} /\ IsInjective(<<>>)
      BY DEF ToSet, IsInjective
    <2> QED BY <1>1, <2>1, SpanTrackerAssumption DEF StatesAgree
  <1>7. StackAgrees
    BY <1>1 DEF StackAgrees
  <1>8. LiveSpansKept
    BY DEF LiveSpansKept
  <1> QED BY <1>2, <1>3, <1>4, <1>5, <1>6, <1>7, <1>8 DEF SpanTrackerInv

-----------------------------------------------------------------------------
(* The map of flags.                                                       *)

\* stateForSpan for a span the map does not hold: only the oldest span of a
\* full map loses its place, and is flagged.
LEMMA Registered ==
  ASSUME TypeOK, StatesAgree, TrackedInv, NEW s \in Spans, s \notin states, ~ended[s],
         Register(s)
  PROVE  /\ order' \in Seq(Spans) /\ ended' \in [Spans -> BOOLEAN]
         /\ states' = ToSet(order') /\ IsInjective(order') /\ Len(order') <= MaxStates
         /\ states' \subseteq states \cup {s} /\ s \in states' /\ ~ended'[s]
         /\ \A u \in states : u \in states' \/ ended'[u]
         /\ \A u \in Spans : ended[u] => ended'[u]
         /\ \A u \in Spans : ended'[u] /\ ~ended[u] =>
              u \in states /\ u \notin states' /\ Cardinality(states) >= MaxStates
  <1> DEFINE kept == IF EvictOldest THEN Tail(order) ELSE order
  <1>1. /\ order' = Append(kept, s) /\ states' = ToSet(kept) \cup {s}
        /\ ended' = IF EvictOldest THEN [ended EXCEPT ![Head(order)] = TRUE] ELSE ended
    BY DEF Register
  <1>2. Cardinality(states) = Len(order) /\ Len(order) \in Nat /\ DOMAIN order = 1..Len(order)
    BY CountElements, LenProperties DEF TypeOK, StatesAgree
  <1>3. \A k \in 1..Len(order) : \A l \in 1..Len(order) : order[k] = order[l] => k = l
    BY <1>2 DEF StatesAgree, IsInjective
  <1>4. ToSet(order) = {order[i] : i \in 1..Len(order)}
    BY Elements DEF TypeOK
  <1>5. EvictOldest =>
          /\ Len(order) >= 1 /\ Len(order) = MaxStates /\ Head(order) = order[1]
          /\ Tail(order) \in Seq(Spans) /\ Len(Tail(order)) = Len(order) - 1
          /\ \A i \in 1..Len(Tail(order)) : Tail(order)[i] = order[i + 1]
    <2> SUFFICES ASSUME EvictOldest
                 PROVE  /\ Len(order) >= 1 /\ Len(order) = MaxStates /\ Head(order) = order[1]
                        /\ Tail(order) \in Seq(Spans) /\ Len(Tail(order)) = Len(order) - 1
                        /\ \A i \in 1..Len(Tail(order)) : Tail(order)[i] = order[i + 1]
      OBVIOUS
    <2>1. order \in Seq(Spans) /\ order # <<>>
      BY DEF EvictOldest, TypeOK
    <2>2. Len(order) >= 1 /\ Head(order) = order[1]
      BY <2>1, EmptySeq
    <2>3. Len(order) = MaxStates
      BY <1>2, SpanTrackerAssumption DEF EvictOldest, StatesAgree
    <2> QED BY <2>1, <2>2, <2>3, HeadTailProperties
  <1>6. ~EvictOldest => Len(order) < MaxStates
    BY <1>2, EmptySeq, SpanTrackerAssumption DEF EvictOldest, StatesAgree, TypeOK
  <1>7. /\ kept \in Seq(Spans) /\ Len(kept) \in Nat /\ Len(kept) < MaxStates
        /\ ToSet(kept) = IF EvictOldest THEN states \ {order[1]} ELSE states
        /\ \A k \in 1..Len(kept) : \A l \in 1..Len(kept) : kept[k] = kept[l] => k = l
    <2>1. CASE EvictOldest
      <3>1. kept = Tail(order)
        BY <2>1
      <3> HIDE DEF kept
      <3>2. /\ kept \in Seq(Spans) /\ Len(kept) = Len(order) - 1
            /\ \A i \in 1..Len(kept) : kept[i] = order[i + 1]
        BY <1>5, <2>1, <3>1
      <3>3. ToSet(kept) = {kept[i] : i \in 1..Len(kept)}
        BY <3>2, Elements
      <3>4. \A k \in 1..Len(kept) : \A l \in 1..Len(kept) : kept[k] = kept[l] => k = l
        BY <1>2, <1>3, <3>2
      <3>5. ToSet(kept) \subseteq states \ {order[1]}
        <4>1. ASSUME NEW i \in 1..Len(kept)
              PROVE  kept[i] \in states /\ kept[i] # order[1]
          <5>1. i + 1 \in 1..Len(order) /\ 1 \in 1..Len(order) /\ i + 1 # 1
            BY <1>2, <3>2
          <5>2. order[i + 1] \in ToSet(order) /\ order[i + 1] # order[1]
            BY <1>3, <1>4, <5>1
          <5> QED BY <3>2, <5>2 DEF StatesAgree
        <4> QED BY <3>3, <4>1
      <3>6. ASSUME NEW i \in 2..Len(order)
            PROVE  order[i] \in ToSet(kept)
        <4>1. i - 1 \in 1..Len(kept) /\ kept[i - 1] = order[i]
          BY <1>2, <3>2
        <4> QED BY <3>3, <4>1
      <3>7. ToSet(kept) = states \ {order[1]}
        <4>1. ASSUME NEW i \in 1..Len(order), order[i] # order[1]
              PROVE  order[i] \in ToSet(kept)
          BY <1>2, <3>6, <4>1
        <4> QED BY <1>4, <3>5, <4>1 DEF StatesAgree
      <3>8. Len(kept) \in Nat /\ Len(kept) < MaxStates
        BY <1>2, <1>5, <2>1, <3>2
      <3> QED BY <2>1, <3>2, <3>4, <3>7, <3>8, Zenon
    <2>2. CASE ~EvictOldest
      BY <1>2, <1>3, <1>6, <2>2 DEF TypeOK, StatesAgree
    <2> QED BY <2>1, <2>2
  <1> HIDE DEF kept
  <1>8. /\ order' \in Seq(Spans) /\ Len(order') = Len(kept) + 1
        /\ \A i \in 1..Len(kept) : order'[i] = kept[i]
        /\ order'[Len(kept) + 1] = s
    BY <1>1, <1>7, AppendProperties
  <1>9. /\ ToSet(order') = {order'[i] : i \in 1..Len(order')} /\ DOMAIN order' = 1..Len(order')
        /\ ToSet(kept) = {kept[i] : i \in 1..Len(kept)}
    BY <1>7, <1>8, Elements, LenProperties
  <1>10. states' = ToSet(order')
    BY <1>1, <1>7, <1>8, <1>9
  <1>11. IsInjective(order')
    <2>1. s \notin ToSet(kept)
      BY <1>7
    <2> QED BY <1>7, <1>8, <1>9, <2>1 DEF IsInjective
  <1>12. Len(order') <= MaxStates
    BY <1>7, <1>8, SpanTrackerAssumption
  <1>13. EvictOldest => order[1] \in states /\ order[1] \in Spans
    <2>1. order \in Seq(Spans) /\ states = ToSet(order)
      BY DEF StatesAgree, TypeOK
    <2>2. EvictOldest => 1 \in 1..Len(order)
      BY <1>2, <1>5
    <2> QED BY <2>1, <2>2, Elements
  <1>14. ended' \in [Spans -> BOOLEAN]
    BY <1>1, <1>5, <1>13 DEF TypeOK
  <1>15. \A u \in Spans : ended'[u] <=> ended[u] \/ (EvictOldest /\ u = order[1])
    BY <1>1, <1>5, <1>13 DEF TypeOK
  <1>16. states' = (IF EvictOldest THEN states \ {order[1]} ELSE states) \cup {s}
    BY <1>1, <1>7
  <1>17. states' \subseteq states \cup {s} /\ s \in states' /\ ~ended'[s]
    BY <1>13, <1>15, <1>16
  <1>18. \A u \in states : u \in states' \/ ended'[u]
    BY <1>13, <1>15, <1>16
  <1>19. \A u \in Spans : ended'[u] /\ ~ended[u] =>
           u \in states /\ u \notin states' /\ Cardinality(states) >= MaxStates
    BY <1>13, <1>15, <1>16 DEF EvictOldest
  <1> QED BY <1>8, <1>10, <1>11, <1>12, <1>14, <1>15, <1>17, <1>18, <1>19

\* A live span that has been registered: all the others keep their flags, and
\* an eviction means that more spans are in flight than the map holds.
LEMMA RegisteredAgree ==
  ASSUME SpanTrackerInv, NEW s \in Spans, s \notin states, ~ended[s], Register(s),
         \A u \in Spans : life'[u] = IF u = s THEN "live" ELSE life[u],
         RoomInv', overflow => overflow'
  PROVE  /\ StatesAgree' /\ LiveSpansKept'
         /\ \A u \in Spans : ended'[u] => life'[u] # "unborn" /\ u \notin states'
  <1>1. TypeOK /\ StatesAgree /\ TrackedInv /\ LiveSpansKept
    BY DEF SpanTrackerInv
  <1>2. /\ order' \in Seq(Spans) /\ ended' \in [Spans -> BOOLEAN]
        /\ states' = ToSet(order') /\ IsInjective(order') /\ Len(order') <= MaxStates
        /\ states' \subseteq states \cup {s} /\ s \in states' /\ ~ended'[s]
        /\ \A u \in Spans : ended'[u] /\ ~ended[u] =>
             u \in states /\ u \notin states' /\ Cardinality(states) >= MaxStates
    BY <1>1, Registered
  <1>3. Live' = Live \cup {s} /\ states \subseteq Live
    BY <1>1 DEF Live, StatesAgree
  <1>4. StatesAgree'
    BY <1>2, <1>3 DEF StatesAgree
  <1>5. \A u \in Spans : ended'[u] => life'[u] # "unborn" /\ u \notin states'
    <2>1. \A u \in states : life[u] = "live" /\ u \in Spans
      BY <1>3 DEF Live
    <2> QED BY <1>1, <1>2, <2>1 DEF TrackedInv
  <1>6. Cardinality(states) >= MaxStates => overflow'
    <2>1. IsFiniteSet(states) /\ Cardinality(states) \in Nat
      BY <1>1, CountElements DEF StatesAgree, TypeOK
    <2>2. Cardinality(states \cup {s}) = Cardinality(states) + 1
      BY <2>1, FS_AddElement
    <2>3. states \cup {s} \subseteq Live' /\ IsFiniteSet(Live')
      BY <1>3 DEF RoomInv
    <2>4. Cardinality(states \cup {s}) <= Cardinality(Live')
      BY <2>3, FS_Subset
    <2>5. Cardinality(Live') \in Nat
      BY <2>3, FS_CardinalityType
    <2> QED BY <2>1, <2>2, <2>4, <2>5, SpanTrackerAssumption DEF RoomInv
  <1>7. LiveSpansKept'
    BY <1>1, <1>2, <1>6 DEF LiveSpansKept
  <1> QED BY <1>4, <1>5, <1>7

\* A span is born: one more is in flight.
LEMMA BornFits ==
  ASSUME SpanTrackerInv, NEW s \in Spans, Born(s)
  PROVE  /\ RoomInv' /\ (overflow => overflow')
         /\ life' \in [Spans -> {"unborn", "live", "over"}] /\ overflow' \in BOOLEAN
         /\ \A u \in Spans : life'[u] = IF u = s THEN "live" ELSE life[u]
         /\ Live' = Live \cup {s} /\ Over' = Over
         /\ life[s] = "unborn" /\ s \notin states /\ ~ended[s]
         /\ \A h \in Goroutines : adding[h] # s
  <1>1. TypeOK /\ StatesAgree /\ TrackedInv /\ AddingInv /\ RoomInv
    BY DEF SpanTrackerInv
  <1>2. /\ life' \in [Spans -> {"unborn", "live", "over"}] /\ overflow' \in BOOLEAN
        /\ \A u \in Spans : life'[u] = IF u = s THEN "live" ELSE life[u]
        /\ life[s] = "unborn" /\ overflow \in BOOLEAN
        /\ overflow' = (overflow \/ Cardinality(Live \cup {s}) > MaxStates)
    BY <1>1 DEF Born, TypeOK
  <1>3. Live' = Live \cup {s} /\ Over' = Over
    BY <1>2 DEF Live, Over
  <1>4. s \notin states /\ ~ended[s] /\ \A h \in Goroutines : adding[h] # s
    <2>1. s # NoSpan
      BY SpanTrackerAssumption
    <2> QED BY <1>1, <1>2, <2>1 DEF StatesAgree, TrackedInv, AddingInv, Live
  <1>5. RoomInv'
    <2>1. IsFiniteSet(Live \cup {s}) /\ Cardinality(Live \cup {s}) \in Nat
      BY <1>1, FS_AddElement, FS_CardinalityType DEF RoomInv
    <2>2. Cardinality(Live \cup {s}) > MaxStates => overflow'
      BY <1>2, Zenon
    <2>3. Cardinality(Live \cup {s}) > MaxStates \/ Cardinality(Live \cup {s}) <= MaxStates
      BY <2>1, SpanTrackerAssumption
    <2> QED BY <1>3, <2>1, <2>2, <2>3, Zenon DEF RoomInv
  <1> QED BY <1>2, <1>3, <1>4, <1>5

-----------------------------------------------------------------------------
(* The first goroutine's span, the newest of those that are not flagged.   *)

LEMMA NewestFound ==
  ASSUME TypeOK, NEW g \in Goroutines
  PROVE  /\ Newest(g) \in 0..Len(stack[g])
         /\ Newest(g) = 0 => \A i \in 1..Len(stack[g]) : ended[stack[g][i]]
         /\ Newest(g) # 0 => /\ stack[g][Newest(g)] \in Spans
                             /\ ~ended[stack[g][Newest(g)]]
  <1> DEFINE q == stack[g]
             fresh == {i \in 1..Len(q) : ~ended[q[i]]}
  <1>1. q \in Seq(Spans) /\ Len(q) \in Nat
    BY DEF TypeOK
  <1>2. CASE fresh = {}
    BY <1>1, <1>2 DEF Newest
  <1>3. CASE fresh # {}
    <2>0. fresh \in SUBSET Nat
      BY <1>1
    <2> HIDE DEF fresh
    <2>1. PICK i \in fresh : \A j \in fresh : i <= j
      BY <1>3, <2>0, LeastExists
    <2> USE DEF fresh
    <2>2. \A j \in 1..(i - 1) : ended[q[j]]
      BY <1>1, <2>1
    <2>3. /\ Newest(g) \in 1..Len(q) /\ ~ended[q[Newest(g)]]
      BY <2>1, <2>2 DEF Newest
    <2>4. q[Newest(g)] \in Spans
      BY <1>1, <2>3, ElementOfSeq
    <2> QED BY <1>1, <2>3, <2>4
  <1> QED BY <1>2, <1>3

\* tail cuts the flagged spans off the top of the stack.
LEMMA PopEndedCuts ==
  ASSUME TypeOK, NEW g \in Goroutines
  PROVE  /\ PopEnded(g) \in Seq(Spans) /\ Len(PopEnded(g)) <= Len(stack[g])
         /\ (Newest(g) = 0) <=> (Len(PopEnded(g)) = 0)
         /\ \A i \in 1..Len(PopEnded(g)) :
              PopEnded(g)[i] = stack[g][i + Len(stack[g]) - Len(PopEnded(g))]
  <1> DEFINE q == stack[g]
             i == Newest(g)
  <1>1. q \in Seq(Spans) /\ Len(q) \in Nat
    BY DEF TypeOK
  <1>2. i \in 0..Len(q)
    BY NewestFound
  <1>3. CASE i = 0
    BY <1>1, <1>3, EmptySeq DEF PopEnded
  <1>4. CASE i # 0
    <2>1. PopEnded(g) = SubSeq(q, i, Len(q))
      BY <1>4 DEF PopEnded
    <2>2. i \in 1..Len(q)
      BY <1>1, <1>2, <1>4
    <2> HIDE DEF q, i
    <2>3. \A k \in i..Len(q) : q[k] \in Spans
      BY <1>1, <2>2, ElementOfSeq
    <2>4. /\ SubSeq(q, i, Len(q)) \in Seq(Spans)
          /\ Len(SubSeq(q, i, Len(q))) = Len(q) - i + 1
          /\ \A k \in 1..(Len(q) - i + 1) : SubSeq(q, i, Len(q))[k] = q[i + k - 1]
      <3>1. i \in Int /\ Len(q) \in Int /\ i <= Len(q)
        BY <1>1, <2>2
      <3> QED BY <2>3, <3>1, SubSeqProperties
    <2>5. /\ PopEnded(g) \in Seq(Spans) /\ Len(PopEnded(g)) <= Len(q)
          /\ Len(PopEnded(g)) # 0
          /\ \A k \in 1..Len(PopEnded(g)) :
               PopEnded(g)[k] = q[k + Len(q) - Len(PopEnded(g))]
      BY <1>1, <2>1, <2>2, <2>4
    <2> QED BY <1>4, <2>5 DEF q, i
  <1> QED BY <1>3, <1>4

-----------------------------------------------------------------------------
(* One lemma per action.                                                   *)

LEMMA StartKeeps ==
  ASSUME SpanTrackerInv, NEW g \in Goroutines, NEW s \in Spans, Start(g, s)
  PROVE  SpanTrackerInv'
  <1> DEFINE q == stack[g]
             r == <<s>> \o q
  <1>1. /\ TypeOK /\ StatesAgree /\ TrackedInv /\ AddingInv /\ CompactInv /\ StackAgrees
        /\ Born(s) /\ Register(s) /\ g \in running /\ adding[g] = NoSpan /\ held[g] < MaxSpans
        /\ stack' = [stack EXCEPT ![g] = r] /\ held' = [held EXCEPT ![g] = @ + 1]
        /\ lcs' = [lcs EXCEPT ![g] = IF held[g] = 0 THEN s ELSE @]
        /\ UNCHANGED <<running, adding, scan, before>>
    BY DEF SpanTrackerInv, Start, Ready, Push
  <1>2. /\ RoomInv' /\ (overflow => overflow')
        /\ life' \in [Spans -> {"unborn", "live", "over"}] /\ overflow' \in BOOLEAN
        /\ \A u \in Spans : life'[u] = IF u = s THEN "live" ELSE life[u]
        /\ Live' = Live \cup {s} /\ Over' = Over
        /\ life[s] = "unborn" /\ s \notin states /\ ~ended[s]
        /\ \A h \in Goroutines : adding[h] # s
    BY <1>1, BornFits
  <1>3. /\ order' \in Seq(Spans) /\ ended' \in [Spans -> BOOLEAN]
        /\ states' \subseteq states \cup {s} /\ s \in states' /\ ~ended'[s]
        /\ \A u \in states : u \in states' \/ ended'[u]
        /\ \A u \in Spans : ended[u] => ended'[u]
        /\ \A u \in Spans : ended'[u] /\ ~ended[u] => u \in states
    BY <1>1, <1>2, Registered
  <1>4. /\ StatesAgree' /\ LiveSpansKept'
        /\ \A u \in Spans : ended'[u] => life'[u] # "unborn" /\ u \notin states'
    BY <1>1, <1>2, RegisteredAgree
  <1>5. /\ q \in Seq(Spans) /\ Len(q) \in Nat /\ r \in Seq(Spans) /\ Len(r) = Len(q) + 1
        /\ \A k \in 1..(Len(q) + 1) : r[k] = IF k = 1 THEN s ELSE q[k - 1]
        /\ Last(r) = IF Len(q) = 0 THEN s ELSE Last(q)
    BY <1>1, Pushed DEF TypeOK
  <1> HIDE DEF r
  <1>6. /\ Bottom(r) = Last(r)
        /\ Bottom(q) = IF Len(q) = 0 THEN NoSpan ELSE Last(q)
    BY <1>5, BottomOf
  <1>7. \A k \in 1..Len(r) : r[k] \in states' \/ ended'[r[k]]
    <2>1. \A k \in 1..Len(q) : q[k] \in Spans /\ (q[k] \in states \/ ended[q[k]])
      BY <1>1, <1>5, ElementOfSeq DEF TrackedInv
    <2>2. \A k \in 1..Len(q) : q[k] \in states' \/ ended'[q[k]]
      BY <1>3, <2>1
    <2> QED BY <1>3, <1>5, <2>2
  <1>8. TypeOK'
    <2>1. held[g] + 1 \in 0..MaxSpans
      BY <1>1, SpanTrackerAssumption DEF TypeOK
    <2>2. /\ held' \in [Goroutines -> 0..MaxSpans] /\ stack' \in [Goroutines -> Seq(Spans)]
          /\ lcs' \in [Goroutines -> Spans \cup {NoSpan}]
      BY <1>1, <1>5, <2>1 DEF TypeOK
    <2>3. states' \subseteq Spans
      BY <1>1, <1>3 DEF TypeOK
    <2> QED BY <1>1, <1>2, <1>3, <2>2, <2>3 DEF TypeOK
  <1>9. TrackedInv'
    <2>1. ASSUME NEW h \in Goroutines, NEW k \in 1..Len(stack'[h])
          PROVE  stack'[h][k] \in states' \/ ended'[stack'[h][k]]
      <3>1. CASE h = g
        BY <1>1, <1>7, <2>1, <3>1 DEF TypeOK
      <3>2. CASE h # g
        <4>1. stack'[h] = stack[h] /\ stack[h] \in Seq(Spans) /\ k \in 1..Len(stack[h])
          BY <1>1, <2>1, <3>2 DEF TypeOK
        <4>2. stack[h][k] \in Spans /\ (stack[h][k] \in states \/ ended[stack[h][k]])
          BY <1>1, <4>1, ElementOfSeq DEF TrackedInv
        <4> QED BY <1>3, <4>1, <4>2
      <3> QED BY <3>1, <3>2
    <2> QED BY <1>4, <2>1 DEF TrackedInv
  <1>10. AddingInv'
    <2> SUFFICES ASSUME NEW h \in Goroutines, adding[h] # NoSpan
                 PROVE  /\ h \in running
                        /\ life'[adding[h]] = "live" /\ adding[h] \notin states'
                        /\ ~ended'[adding[h]]
                        /\ \A k \in Goroutines : adding[k] = adding[h] => k = h
      BY <1>1 DEF AddingInv
    <2>1. adding[h] \in Spans
      BY <1>1 DEF TypeOK
    <2> QED BY <1>1, <1>2, <1>3, <2>1 DEF AddingInv
  <1>11. CompactInv'
    <2>1. \A h \in Goroutines : h # g => stack'[h] = stack[h]
      BY <1>1 DEF TypeOK
    <2> QED BY <1>1, <1>2, <2>1 DEF CompactInv
  <1>12. StackAgrees'
    <2>1. \A h \in Goroutines : h # g =>
            stack'[h] = stack[h] /\ held'[h] = held[h] /\ lcs'[h] = lcs[h]
      BY <1>1 DEF TypeOK
    <2>2. stack'[g] = r /\ held'[g] = Len(r)
      BY <1>1, <1>5 DEF TypeOK, StackAgrees
    <2>3. lcs'[g] \in {NoSpan, Bottom(r)}
      BY <1>1, <1>5, <1>6 DEF TypeOK, StackAgrees
    <2> QED BY <1>1, <2>1, <2>2, <2>3 DEF StackAgrees
  <1> QED BY <1>2, <1>4, <1>8, <1>9, <1>10, <1>11, <1>12 DEF SpanTrackerInv

LEMMA StartFullKeeps ==
  ASSUME SpanTrackerInv, NEW g \in Goroutines, NEW s \in Spans, StartFull(g, s)
  PROVE  SpanTrackerInv'
  <1>1. /\ TypeOK /\ StatesAgree /\ TrackedInv /\ AddingInv /\ CompactInv /\ StackAgrees
        /\ LiveSpansKept
        /\ Born(s) /\ g \in running /\ adding[g] = NoSpan
        /\ adding' = [adding EXCEPT ![g] = s] /\ scan' = [scan EXCEPT ![g] = 1]
        /\ before' = [before EXCEPT ![g] = Over]
        /\ UNCHANGED <<running, stack, held, lcs, states, order, ended>>
    BY DEF SpanTrackerInv, StartFull, Ready, shared
  <1>2. /\ RoomInv' /\ (overflow => overflow')
        /\ life' \in [Spans -> {"unborn", "live", "over"}] /\ overflow' \in BOOLEAN
        /\ \A u \in Spans : life'[u] = IF u = s THEN "live" ELSE life[u]
        /\ Live' = Live \cup {s} /\ Over' = Over
        /\ life[s] = "unborn" /\ s \notin states /\ ~ended[s]
        /\ \A h \in Goroutines : adding[h] # s
    BY <1>1, BornFits
  <1>3. TypeOK'
    <2>1. Over \subseteq Spans
      BY DEF Over
    <2>2. /\ adding' \in [Goroutines -> Spans \cup {NoSpan}] /\ scan' \in [Goroutines -> Nat]
          /\ before' \in [Goroutines -> SUBSET Spans]
      BY <1>1, <2>1 DEF TypeOK
    <2> QED BY <1>1, <1>2, <2>2 DEF TypeOK
  <1>4. TrackedInv'
    BY <1>1, <1>2 DEF TrackedInv
  <1>5. AddingInv'
    <2>1. \A h \in Goroutines : adding'[h] = IF h = g THEN s ELSE adding[h]
      BY <1>1 DEF TypeOK
    <2>2. \A h \in Goroutines : adding[h] # NoSpan => adding[h] \in Spans
      BY <1>1 DEF TypeOK
    <2> QED BY <1>1, <1>2, <2>1, <2>2 DEF AddingInv
  <1>6. CompactInv'
    <2>1. \A h \in Goroutines : /\ before'[h] = IF h = g THEN Over ELSE before[h]
                                /\ scan'[h] = IF h = g THEN 1 ELSE scan[h]
                                /\ adding'[h] = IF h = g THEN s ELSE adding[h]
      BY <1>1 DEF TypeOK
    <2> QED BY <1>1, <1>2, <2>1 DEF CompactInv
  <1>7. StatesAgree'
    BY <1>1, <1>2 DEF StatesAgree
  <1>8. StackAgrees'
    <2>1. \A h \in Goroutines : adding'[h] = NoSpan => adding[h] = NoSpan
      BY <1>1 DEF TypeOK
    <2> QED BY <1>1, <2>1 DEF StackAgrees
  <1>9. LiveSpansKept'
    BY <1>1, <1>2 DEF LiveSpansKept
  <1> QED BY <1>2, <1>3, <1>4, <1>5, <1>6, <1>7, <1>8, <1>9 DEF SpanTrackerInv

LEMMA CompactKeeps ==
  ASSUME SpanTrackerInv, NEW g \in Goroutines, Compact(g)
  PROVE  SpanTrackerInv'
  <1> DEFINE q == stack[g]
             c == scan[g]
  <1>1. /\ TypeOK /\ StatesAgree /\ TrackedInv /\ AddingInv /\ CompactInv /\ StackAgrees
        /\ RoomInv /\ LiveSpansKept
        /\ adding[g] # NoSpan /\ c <= Len(q)
        /\ UNCHANGED <<running, lcs, adding, states, order, ended, life, before, overflow>>
    BY DEF SpanTrackerInv, Compact, shared
  <1>2. q \in Seq(Spans) /\ Len(q) \in Nat /\ c \in 1..Len(q) /\ q[c] \in Spans
    <2>1. q \in Seq(Spans) /\ c \in 1..Len(q)
      BY <1>1 DEF TypeOK, CompactInv
    <2> QED BY <2>1, ElementOfSeq
  <1>3. RoomInv' /\ StatesAgree' /\ AddingInv' /\ LiveSpansKept'
    <2>1. Live' = Live
      BY <1>1 DEF Live
    <2> QED BY <1>1, <2>1 DEF RoomInv, StatesAgree, AddingInv, LiveSpansKept
  <1>4. Over' = Over
    BY <1>1 DEF Over
  <1>5. CASE ended[q[c]]
    <2> DEFINE r == RemoveAt(q, c)
    <2>1. stack' = [stack EXCEPT ![g] = r] /\ held' = [held EXCEPT ![g] = @ - 1] /\ scan' = scan
      BY <1>5 DEF Compact
    <2>2. /\ r \in Seq(Spans) /\ Len(r) = Len(q) - 1
          /\ \A k \in 1..(Len(q) - 1) : r[k] = IF k < c THEN q[k] ELSE q[k + 1]
      BY <1>2, RemoveAtPrefixes, Zenon
    <2> HIDE DEF r
    <2>3. \A h \in Goroutines : h # g => stack'[h] = stack[h] /\ held'[h] = held[h]
      BY <1>1, <2>1 DEF TypeOK
    <2>4. stack'[g] = r /\ held'[g] = held[g] - 1 /\ held[g] = Len(q)
      BY <1>1, <2>1 DEF TypeOK, StackAgrees
    <2>5. TypeOK'
      <3>1. held[g] - 1 \in 0..MaxSpans
        BY <1>1, <1>2, <2>4, SpanTrackerAssumption DEF TypeOK
      <3>2. held' \in [Goroutines -> 0..MaxSpans] /\ stack' \in [Goroutines -> Seq(Spans)]
        BY <1>1, <2>1, <2>2, <3>1 DEF TypeOK
      <3> QED BY <1>1, <2>1, <3>2 DEF TypeOK
    <2>6. TrackedInv'
      <3>1. ASSUME NEW k \in 1..Len(r)
            PROVE  r[k] \in states \/ ended[r[k]]
        <4>1. k \in 1..(Len(q) - 1)
          BY <2>2
        <4>2. k \in 1..Len(q) /\ k + 1 \in 1..Len(q)
          BY <1>2, <4>1
        <4>3. r[k] = IF k < c THEN q[k] ELSE q[k + 1]
          BY <2>2, <4>1
        <4> QED BY <1>1, <4>2, <4>3 DEF TrackedInv
      <3> QED BY <1>1, <2>3, <2>4, <3>1 DEF TrackedInv
    <2>7. CompactInv'
      <3>1. \A k \in 1..Len(r) : k < c => r[k] \notin before[g]
        BY <1>1, <1>2, <2>2 DEF CompactInv
      <3> QED BY <1>1, <1>4, <2>1, <2>3, <2>4, <3>1 DEF CompactInv
    <2>8. StackAgrees'
      BY <1>1, <1>2, <2>2, <2>3, <2>4 DEF StackAgrees
    <2> QED BY <1>3, <2>5, <2>6, <2>7, <2>8 DEF SpanTrackerInv
  <1>6. CASE ~ended[q[c]]
    <2>1. scan' = [scan EXCEPT ![g] = @ + 1] /\ UNCHANGED <<stack, held>>
      BY <1>6 DEF Compact
    <2>2. TypeOK'
      BY <1>1, <2>1 DEF TypeOK
    <2>3. TrackedInv' /\ StackAgrees'
      BY <1>1, <2>1 DEF TrackedInv, StackAgrees
    <2>4. CompactInv'
      <3>1. q[c] \notin before[g]
        <4>1. q[c] \in states
          BY <1>1, <1>2, <1>6 DEF TrackedInv
        <4>2. life[q[c]] = "live"
          BY <1>1, <4>1 DEF StatesAgree, Live
        <4> QED BY <1>1, <4>2 DEF CompactInv, Over
      <3>2. \A k \in 1..Len(q) : k < c + 1 => q[k] \notin before[g]
        <4>1. \A k \in 1..Len(q) : k < c + 1 => k < c \/ k = c
          BY <1>2
        <4> QED BY <1>1, <3>1, <4>1 DEF CompactInv
      <3>3. \A h \in Goroutines : scan'[h] = IF h = g THEN c + 1 ELSE scan[h]
        BY <1>1, <2>1 DEF TypeOK
      <3> QED BY <1>1, <1>2, <1>4, <2>1, <3>2, <3>3 DEF CompactInv
    <2> QED BY <1>3, <2>2, <2>3, <2>4 DEF SpanTrackerInv
  <1> QED BY <1>5, <1>6

\* What add does after compact, whether the span found room or not.
LEMMA CompactedDone ==
  ASSUME TypeOK, NEW g \in Goroutines, Compacted(g)
  PROVE  /\ adding[g] \in Spans /\ g \in Goroutines
         /\ adding' \in [Goroutines -> Spans \cup {NoSpan}]
         /\ scan' \in [Goroutines -> Nat] /\ before' \in [Goroutines -> SUBSET Spans]
         /\ \A h \in Goroutines : /\ adding'[h] = IF h = g THEN NoSpan ELSE adding[h]
                                  /\ scan'[h] = IF h = g THEN 0 ELSE scan[h]
                                  /\ before'[h] = IF h = g THEN {} ELSE before[h]
         /\ UNCHANGED <<running, life, overflow>>
         /\ Live' = Live /\ Over' = Over
  BY DEF TypeOK, Compacted, Live, Over

LEMMA StartCompactedKeeps ==
  ASSUME SpanTrackerInv, NEW g \in Goroutines, StartCompacted(g)
  PROVE  SpanTrackerInv'
  <1> DEFINE q == stack[g]
             s == adding[g]
             r == <<s>> \o q
  <1>1. /\ TypeOK /\ StatesAgree /\ TrackedInv /\ AddingInv /\ CompactInv /\ StackAgrees
        /\ RoomInv /\ Compacted(g) /\ Register(s) /\ held[g] < MaxSpans /\ s # NoSpan
        /\ stack' = [stack EXCEPT ![g] = r] /\ held' = [held EXCEPT ![g] = @ + 1]
        /\ lcs' = [lcs EXCEPT ![g] = Bottom(stack'[g])]
    BY DEF SpanTrackerInv, StartCompacted, Compacted
  <1>2. /\ s \in Spans
        /\ adding' \in [Goroutines -> Spans \cup {NoSpan}]
        /\ scan' \in [Goroutines -> Nat] /\ before' \in [Goroutines -> SUBSET Spans]
        /\ \A h \in Goroutines : /\ adding'[h] = IF h = g THEN NoSpan ELSE adding[h]
                                 /\ scan'[h] = IF h = g THEN 0 ELSE scan[h]
                                 /\ before'[h] = IF h = g THEN {} ELSE before[h]
        /\ UNCHANGED <<running, life, overflow>>
        /\ Live' = Live /\ Over' = Over
    BY <1>1, CompactedDone
  <1>3. /\ s \notin states /\ ~ended[s] /\ life[s] = "live"
        /\ \A h \in Goroutines : adding[h] = s => h = g
    BY <1>1 DEF AddingInv
  <1> HIDE DEF s
  <1>4. /\ order' \in Seq(Spans) /\ ended' \in [Spans -> BOOLEAN]
        /\ states' \subseteq states \cup {s} /\ s \in states' /\ ~ended'[s]
        /\ \A u \in states : u \in states' \/ ended'[u]
        /\ \A u \in Spans : ended[u] => ended'[u]
        /\ \A u \in Spans : ended'[u] /\ ~ended[u] => u \in states
    BY <1>1, <1>2, <1>3, Registered
  <1>5. RoomInv'
    BY <1>1, <1>2 DEF RoomInv
  <1>6. /\ StatesAgree' /\ LiveSpansKept'
        /\ \A u \in Spans : ended'[u] => life'[u] # "unborn" /\ u \notin states'
    <2>1. \A u \in Spans : life'[u] = IF u = s THEN "live" ELSE life[u]
      BY <1>2, <1>3
    <2> QED BY <1>1, <1>2, <1>3, <1>5, <2>1, RegisteredAgree
  <1>7. /\ q \in Seq(Spans) /\ Len(q) \in Nat /\ r \in Seq(Spans) /\ Len(r) = Len(q) + 1
        /\ \A k \in 1..(Len(q) + 1) : r[k] = IF k = 1 THEN s ELSE q[k - 1]
    BY <1>1, <1>2, Pushed DEF TypeOK
  <1> HIDE DEF r
  <1>8. \A k \in 1..Len(r) : r[k] \in states' \/ ended'[r[k]]
    <2>1. \A k \in 1..Len(q) : q[k] \in Spans /\ (q[k] \in states \/ ended[q[k]])
      BY <1>1, <1>7, ElementOfSeq DEF TrackedInv
    <2>2. \A k \in 1..Len(q) : q[k] \in states' \/ ended'[q[k]]
      BY <1>4, <2>1
    <2>3. ASSUME NEW k \in 1..Len(r)
          PROVE  r[k] = s \/ (k - 1 \in 1..Len(q) /\ r[k] = q[k - 1])
      BY <1>7
    <2> QED BY <1>4, <2>2, <2>3
  <1>9. /\ stack'[g] = r /\ held'[g] = Len(r) /\ lcs'[g] = Bottom(r)
        /\ Bottom(r) \in Spans \cup {NoSpan}
        /\ \A h \in Goroutines : h # g =>
             stack'[h] = stack[h] /\ held'[h] = held[h] /\ lcs'[h] = lcs[h]
    BY <1>1, <1>7, BottomOf DEF TypeOK, StackAgrees
  <1>10. TypeOK'
    <2>1. held[g] + 1 \in 0..MaxSpans
      BY <1>1, SpanTrackerAssumption DEF TypeOK
    <2>2. /\ held' \in [Goroutines -> 0..MaxSpans] /\ stack' \in [Goroutines -> Seq(Spans)]
      BY <1>1, <1>7, <2>1 DEF TypeOK
    <2>3. lcs' \in [Goroutines -> Spans \cup {NoSpan}]
      BY <1>1, <1>9 DEF TypeOK
    <2>4. states' \subseteq Spans
      BY <1>1, <1>2, <1>4 DEF TypeOK
    <2> QED BY <1>1, <1>2, <1>4, <2>2, <2>3, <2>4 DEF TypeOK
  <1>11. TrackedInv'
    <2>1. ASSUME NEW h \in Goroutines, NEW k \in 1..Len(stack'[h])
          PROVE  stack'[h][k] \in states' \/ ended'[stack'[h][k]]
      <3>1. CASE h = g
        BY <1>8, <1>9, <2>1, <3>1
      <3>2. CASE h # g
        <4>1. stack'[h] = stack[h] /\ stack[h] \in Seq(Spans) /\ k \in 1..Len(stack[h])
          BY <1>1, <1>9, <2>1, <3>2 DEF TypeOK
        <4>2. stack[h][k] \in Spans /\ (stack[h][k] \in states \/ ended[stack[h][k]])
          BY <1>1, <4>1, ElementOfSeq DEF TrackedInv
        <4> QED BY <1>4, <4>1, <4>2
      <3> QED BY <3>1, <3>2
    <2> QED BY <1>6, <2>1 DEF TrackedInv
  <1>12. AddingInv'
    <2> SUFFICES ASSUME NEW h \in Goroutines, h # g, adding[h] # NoSpan
                 PROVE  /\ h \in running
                        /\ life[adding[h]] = "live" /\ adding[h] \notin states'
                        /\ ~ended'[adding[h]]
                        /\ \A k \in Goroutines : adding'[k] = adding[h] => k = h
      BY <1>2 DEF AddingInv
    <2>1. adding[h] \in Spans /\ adding[h] # s
      BY <1>1, <1>3 DEF TypeOK
    <2> QED BY <1>1, <1>2, <1>4, <2>1 DEF AddingInv
  <1>13. CompactInv'
    BY <1>1, <1>2, <1>9 DEF CompactInv
  <1>14. StackAgrees'
    BY <1>1, <1>2, <1>9 DEF StackAgrees
  <1> QED BY <1>5, <1>6, <1>10, <1>11, <1>12, <1>13, <1>14 DEF SpanTrackerInv

LEMMA DropKeeps ==
  ASSUME SpanTrackerInv, NEW g \in Goroutines, Drop(g)
  PROVE  SpanTrackerInv'
  <1>1. /\ TypeOK /\ StatesAgree /\ TrackedInv /\ AddingInv /\ CompactInv /\ StackAgrees
        /\ RoomInv /\ LiveSpansKept /\ Compacted(g)
        /\ lcs' = [lcs EXCEPT ![g] = Bottom(stack[g])]
        /\ UNCHANGED <<stack, held, states, order, ended>>
    BY DEF SpanTrackerInv, Drop, shared
  <1>2. /\ adding' \in [Goroutines -> Spans \cup {NoSpan}]
        /\ scan' \in [Goroutines -> Nat] /\ before' \in [Goroutines -> SUBSET Spans]
        /\ \A h \in Goroutines : /\ adding'[h] = IF h = g THEN NoSpan ELSE adding[h]
                                 /\ scan'[h] = IF h = g THEN 0 ELSE scan[h]
                                 /\ before'[h] = IF h = g THEN {} ELSE before[h]
        /\ UNCHANGED <<running, life, overflow>>
        /\ Live' = Live /\ Over' = Over
    BY <1>1, CompactedDone
  <1>3. Bottom(stack[g]) \in Spans \cup {NoSpan}
    BY <1>1, BottomOf DEF TypeOK
  <1>4. TypeOK'
    <2>1. lcs' \in [Goroutines -> Spans \cup {NoSpan}]
      BY <1>1, <1>3 DEF TypeOK
    <2> QED BY <1>1, <1>2, <2>1 DEF TypeOK
  <1>5. TrackedInv' /\ StatesAgree' /\ LiveSpansKept' /\ RoomInv'
    BY <1>1, <1>2 DEF TrackedInv, StatesAgree, LiveSpansKept, RoomInv
  <1>6. AddingInv' /\ CompactInv'
    BY <1>1, <1>2 DEF AddingInv, CompactInv
  <1>7. StackAgrees'
    BY <1>1, <1>2 DEF TypeOK, StackAgrees
  <1> QED BY <1>4, <1>5, <1>6, <1>7 DEF SpanTrackerInv

\* The spans on the stacks are among those that were there; nothing else has
\* changed.  (tail, Clone, a returning goroutine, clear.)
LEMMA StacksShrink ==
  ASSUME SpanTrackerInv, TypeOK', StackAgrees',
         UNCHANGED <<adding, scan, states, order, ended, life, before, overflow>>,
         \A h \in Goroutines : \A k \in 1..Len(stack'[h]) :
           stack'[h][k] \in states \/ ended[stack'[h][k]],
         \A h \in Goroutines : adding[h] # NoSpan => h \in running' /\ stack'[h] = stack[h]
  PROVE  SpanTrackerInv'
  <1>1. /\ TypeOK /\ StatesAgree /\ TrackedInv /\ AddingInv /\ CompactInv
        /\ RoomInv /\ LiveSpansKept
    BY DEF SpanTrackerInv
  <1>2. Live' = Live /\ Over' = Over
    BY DEF Live, Over
  <1>3. StatesAgree' /\ LiveSpansKept' /\ RoomInv'
    BY <1>1, <1>2 DEF StatesAgree, LiveSpansKept, RoomInv
  <1>4. TrackedInv'
    BY <1>1 DEF TrackedInv
  <1>5. AddingInv'
    BY <1>1 DEF AddingInv
  <1>6. CompactInv'
    BY <1>1, <1>2 DEF CompactInv
  <1> QED BY <1>3, <1>4, <1>5, <1>6 DEF SpanTrackerInv

\* The current span is live, and in the map.
LEMMA CurrentIsTracked ==
  ASSUME SpanTrackerInv, NEW g \in Goroutines
  PROVE  Current(g) = NoSpan \/ (Current(g) \in Spans /\ Current(g) \in states)
  <1>1. TypeOK /\ TrackedInv
    BY DEF SpanTrackerInv
  <1>2. CASE Newest(g) = 0
    BY <1>2 DEF Current
  <1>3. CASE Newest(g) # 0
    <2>1. /\ Newest(g) \in 0..Len(stack[g]) /\ stack[g][Newest(g)] \in Spans
          /\ ~ended[stack[g][Newest(g)]]
      BY <1>1, <1>3, NewestFound
    <2>2. Newest(g) \in 1..Len(stack[g])
      BY <1>1, <1>3, <2>1 DEF TypeOK
    <2> QED BY <1>1, <1>3, <2>1, <2>2 DEF Current, TrackedInv
  <1> QED BY <1>2, <1>3

LEMMA LastOfPopEnded ==
  ASSUME TypeOK, NEW g \in Goroutines
  PROVE  Len(PopEnded(g)) # 0 => Bottom(PopEnded(g)) = Bottom(stack[g])
  <1> DEFINE q == stack[g]
             r == PopEnded(g)
  <1>1. /\ q \in Seq(Spans) /\ Len(q) \in Nat /\ r \in Seq(Spans) /\ Len(r) \in Nat
        /\ Len(r) <= Len(q) /\ \A k \in 1..Len(r) : r[k] = q[k + Len(q) - Len(r)]
    BY PopEndedCuts DEF TypeOK
  <1> HIDE DEF q, r
  <1>2. ASSUME Len(r) # 0
        PROVE  Bottom(r) = r[Len(r)] /\ Bottom(q) = q[Len(q)] /\ r[Len(r)] = q[Len(q)]
    <2>1. Len(r) \in 1..Len(r) /\ Len(r) + Len(q) - Len(r) = Len(q) /\ Len(q) # 0
      BY <1>1, <1>2
    <2> QED BY <1>1, <1>2, <2>1, BottomOf DEF Last
  <1> QED BY <1>2 DEF q, r

LEMMA LookupKeeps ==
  ASSUME SpanTrackerInv, NEW g \in Goroutines, Lookup(g)
  PROVE  SpanTrackerInv'
  <1> DEFINE q == stack[g]
             r == PopEnded(g)
  <1>1. /\ TypeOK /\ TrackedInv /\ AddingInv /\ StackAgrees
        /\ g \in running /\ adding[g] = NoSpan
        /\ stack' = [stack EXCEPT ![g] = r]
        /\ held' = [held EXCEPT ![g] = @ - (Len(q) - Len(r))]
        /\ lcs' = [lcs EXCEPT ![g] = IF r = <<>> THEN NoSpan ELSE @]
        /\ UNCHANGED <<running, adding, scan, states, order, ended, life, before, overflow>>
    BY DEF SpanTrackerInv, Lookup, Ready, shared
  <1>2. /\ q \in Seq(Spans) /\ Len(q) \in Nat /\ r \in Seq(Spans) /\ Len(r) \in Nat
        /\ Len(r) <= Len(q) /\ \A k \in 1..Len(r) : r[k] = q[k + Len(q) - Len(r)]
        /\ (r = <<>>) <=> (Len(r) = 0)
    <2>1. /\ q \in Seq(Spans) /\ Len(q) \in Nat /\ r \in Seq(Spans) /\ Len(r) \in Nat
          /\ Len(r) <= Len(q) /\ \A k \in 1..Len(r) : r[k] = q[k + Len(q) - Len(r)]
      BY <1>1, PopEndedCuts, SMTT(20) DEF TypeOK
    <2> HIDE DEF r
    <2>2. (r = <<>>) <=> (Len(r) = 0)
      BY <2>1, EmptySeq
    <2> QED BY <2>1, <2>2
  <1>3. Len(r) # 0 => Bottom(r) = Bottom(q)
    BY <1>1, LastOfPopEnded
  <1>4. \A k \in 1..Len(r) : r[k] \in states \/ ended[r[k]]
    <2>1. ASSUME NEW k \in 1..Len(r)
          PROVE  k + Len(q) - Len(r) \in 1..Len(q)
      BY <1>2
    <2> QED BY <1>1, <1>2, <2>1 DEF TrackedInv
  <1> HIDE DEF r
  <1>5. /\ stack'[g] = r /\ held'[g] = Len(r)
        /\ lcs'[g] = IF r = <<>> THEN NoSpan ELSE lcs[g]
        /\ \A h \in Goroutines : h # g =>
             stack'[h] = stack[h] /\ held'[h] = held[h] /\ lcs'[h] = lcs[h]
    BY <1>1, <1>2 DEF TypeOK, StackAgrees
  <1>6. TypeOK'
    <2>1. held[g] - (Len(q) - Len(r)) \in 0..MaxSpans
      BY <1>1, <1>2, SpanTrackerAssumption DEF TypeOK, StackAgrees
    <2>2. held' \in [Goroutines -> 0..MaxSpans] /\ stack' \in [Goroutines -> Seq(Spans)]
      BY <1>1, <1>2, <2>1 DEF TypeOK
    <2>3. lcs' \in [Goroutines -> Spans \cup {NoSpan}]
      BY <1>1 DEF TypeOK
    <2> QED BY <1>1, <2>2, <2>3 DEF TypeOK
  <1>7. StackAgrees'
    BY <1>1, <1>2, <1>3, <1>5 DEF StackAgrees
  <1>8. \A h \in Goroutines : \A k \in 1..Len(stack'[h]) :
          stack'[h][k] \in states \/ ended[stack'[h][k]]
    BY <1>1, <1>4, <1>5 DEF TrackedInv
  <1>9. \A h \in Goroutines : adding[h] # NoSpan => h \in running' /\ stack'[h] = stack[h]
    BY <1>1, <1>5 DEF AddingInv
  <1> QED BY <1>1, <1>6, <1>7, <1>8, <1>9, StacksShrink

\* A goroutine's stack is emptied.
LEMMA ClearKeeps ==
  ASSUME SpanTrackerInv, NEW g \in Goroutines, ClearTraceContext(g) \/ Exit(g)
  PROVE  SpanTrackerInv'
  <1>1. /\ TypeOK /\ TrackedInv /\ AddingInv /\ StackAgrees /\ adding[g] = NoSpan
        /\ stack' = [stack EXCEPT ![g] = <<>>] /\ held' = [held EXCEPT ![g] = 0]
        /\ lcs' = [lcs EXCEPT ![g] = NoSpan]
        /\ running' \subseteq running /\ running \subseteq running' \cup {g}
        /\ UNCHANGED <<adding, scan, states, order, ended, life, before, overflow>>
    BY DEF SpanTrackerInv, ClearTraceContext, Exit, Ready, shared
  <1>2. <<>> \in Seq(Spans) /\ Len(<<>>) = 0
    BY EmptySeq
  <1>3. /\ stack'[g] = <<>> /\ held'[g] = 0 /\ lcs'[g] = NoSpan
        /\ \A h \in Goroutines : h # g =>
             stack'[h] = stack[h] /\ held'[h] = held[h] /\ lcs'[h] = lcs[h]
    BY <1>1 DEF TypeOK
  <1>4. TypeOK'
    <2>1. 0 \in 0..MaxSpans /\ running' \subseteq Goroutines
      BY <1>1, SpanTrackerAssumption DEF TypeOK
    <2>2. held' \in [Goroutines -> 0..MaxSpans] /\ lcs' \in [Goroutines -> Spans \cup {NoSpan}]
      BY <1>1, <2>1 DEF TypeOK
    <2>3. stack' \in [Goroutines -> Seq(Spans)]
      BY <1>1, <1>2 DEF TypeOK
    <2> QED BY <1>1, <2>1, <2>2, <2>3 DEF TypeOK
  <1>5. StackAgrees'
    BY <1>1, <1>2, <1>3 DEF StackAgrees
  <1>6. \A h \in Goroutines : \A k \in 1..Len(stack'[h]) :
          stack'[h][k] \in states \/ ended[stack'[h][k]]
    BY <1>1, <1>2, <1>3 DEF TrackedInv
  <1>7. \A h \in Goroutines : adding[h] # NoSpan => h \in running' /\ stack'[h] = stack[h]
    BY <1>1, <1>3 DEF AddingInv
  <1> QED BY <1>1, <1>4, <1>5, <1>6, <1>7, StacksShrink

LEMMA GoKeeps ==
  ASSUME SpanTrackerInv, NEW g \in Goroutines, NEW h \in Goroutines, Go(g, h)
  PROVE  SpanTrackerInv'
  <1> DEFINE q == stack[g]
             r == PopEnded(g)
             top == Current(g)
             clone == IF top = NoSpan THEN <<>> ELSE <<top>>
  <1>1. /\ TypeOK /\ TrackedInv /\ AddingInv /\ StackAgrees
        /\ g \in running /\ adding[g] = NoSpan /\ h \notin running /\ h # g
        /\ running' = running \cup {h}
        /\ stack' = [stack EXCEPT ![g] = r, ![h] = clone]
        /\ held' = [held EXCEPT ![g] = @ - (Len(q) - Len(r)), ![h] = Len(clone)]
        /\ lcs' = [lcs EXCEPT ![g] = IF top = NoSpan THEN NoSpan ELSE @, ![h] = NoSpan]
        /\ UNCHANGED <<adding, scan, states, order, ended, life, before, overflow>>
    BY DEF SpanTrackerInv, Go, Ready, shared
  <1>2. /\ q \in Seq(Spans) /\ Len(q) \in Nat /\ r \in Seq(Spans) /\ Len(r) \in Nat
        /\ Len(r) <= Len(q) /\ \A k \in 1..Len(r) : r[k] = q[k + Len(q) - Len(r)]
        /\ (Newest(g) = 0) <=> (Len(r) = 0)
    <2>1. /\ q \in Seq(Spans) /\ Len(q) \in Nat
      BY <1>1 DEF TypeOK
    <2>2. /\ r \in Seq(Spans) /\ Len(r) <= Len(q)
          /\ (Newest(g) = 0) <=> (Len(r) = 0)
          /\ \A k \in 1..Len(r) : r[k] = q[k + Len(q) - Len(r)]
      BY <1>1, PopEndedCuts
    <2> HIDE DEF r, q
    <2>3. Len(r) \in Nat
      BY <2>2
    <2> QED BY <2>1, <2>2, <2>3
  <1>3. /\ top = NoSpan \/ (top \in Spans /\ top \in states)
        /\ Len(r) # 0 => top # NoSpan
        /\ Len(r) = 0 => top = NoSpan
    <2>1. top = NoSpan \/ (top \in Spans /\ top \in states)
      BY CurrentIsTracked
    <2>2. (Newest(g) # 0) => top # NoSpan
      BY <1>1, NewestFound, SpanTrackerAssumption DEF Current
    <2>3. (Newest(g) = 0) => top = NoSpan
      BY DEF Current
    <2> QED BY <1>2, <2>1, <2>2, <2>3
  <1>4. Len(r) # 0 => Bottom(r) = Bottom(q)
    BY <1>1, LastOfPopEnded
  <1>5. \A k \in 1..Len(r) : r[k] \in states \/ ended[r[k]]
    <2>1. ASSUME NEW k \in 1..Len(r)
          PROVE  k + Len(q) - Len(r) \in 1..Len(q)
      BY <1>2
    <2> QED BY <1>1, <1>2, <2>1 DEF TrackedInv
  <1> HIDE DEF r, top
  <1>6. /\ clone \in Seq(Spans) /\ Len(clone) \in 0..1
        /\ \A k \in 1..Len(clone) : clone[k] \in states \/ ended[clone[k]]
    BY <1>3, EmptySeq
  <1> HIDE DEF clone
  <1>7. /\ stack'[g] = r /\ held'[g] = Len(r)
        /\ lcs'[g] = IF top = NoSpan THEN NoSpan ELSE lcs[g]
        /\ stack'[h] = clone /\ held'[h] = Len(clone) /\ lcs'[h] = NoSpan
        /\ \A k \in Goroutines : k # g /\ k # h =>
             stack'[k] = stack[k] /\ held'[k] = held[k] /\ lcs'[k] = lcs[k]
    BY <1>1, <1>2 DEF TypeOK, StackAgrees
  <1>8. TypeOK'
    <2>1. /\ held[g] - (Len(q) - Len(r)) \in 0..MaxSpans /\ Len(clone) \in 0..MaxSpans
      BY <1>1, <1>2, <1>6, SpanTrackerAssumption, SMTT(20) DEF TypeOK, StackAgrees
    <2>2. held' \in [Goroutines -> 0..MaxSpans] /\ stack' \in [Goroutines -> Seq(Spans)]
      BY <1>1, <1>2, <1>6, <2>1 DEF TypeOK
    <2>3. lcs' \in [Goroutines -> Spans \cup {NoSpan}]
      BY <1>1 DEF TypeOK
    <2>4. running' \subseteq Goroutines
      BY <1>1 DEF TypeOK
    <2> QED BY <1>1, <2>2, <2>3, <2>4 DEF TypeOK
  <1>9. StackAgrees'
    <2>1. held'[g] = Len(stack'[g]) /\ lcs'[g] \in {NoSpan, Bottom(stack'[g])}
      BY <1>1, <1>3, <1>4, <1>7 DEF StackAgrees
    <2> QED BY <1>1, <1>7, <2>1 DEF StackAgrees
  <1>10. \A l \in Goroutines : \A k \in 1..Len(stack'[l]) :
          stack'[l][k] \in states \/ ended[stack'[l][k]]
    BY <1>1, <1>5, <1>6, <1>7, ZenonT(40) DEF TrackedInv
  <1>11. \A k \in Goroutines : adding[k] # NoSpan => k \in running' /\ stack'[k] = stack[k]
    BY <1>1, <1>7 DEF AddingInv
  <1> QED BY <1>1, <1>8, <1>9, <1>10, <1>11, StacksShrink

\* markSpanEnded: a span that leaves the map leaves it flagged.
LEMMA EndMarks ==
  ASSUME SpanTrackerInv, NEW s \in Spans, MarkEnded(s), life[s] # "unborn",
         life' = [life EXCEPT ![s] = "over"], overflow' = overflow
  PROVE  /\ order' \in Seq(Spans) /\ ended' \in [Spans -> BOOLEAN] /\ states' \subseteq states
         /\ life' \in [Spans -> {"unborn", "live", "over"}]
         /\ StatesAgree' /\ RoomInv' /\ LiveSpansKept' /\ Over \subseteq Over'
         /\ \A u \in Spans : ended'[u] => life'[u] # "unborn" /\ u \notin states'
         /\ \A u \in Spans : u # s => (ended'[u] <=> ended[u]) /\ life'[u] = life[u]
         /\ \A u \in Spans : u \in states \/ ended[u] => u \in states' \/ ended'[u]
  <1>1. TypeOK /\ StatesAgree /\ TrackedInv /\ RoomInv /\ LiveSpansKept
    BY DEF SpanTrackerInv
  <1>2. /\ life' \in [Spans -> {"unborn", "live", "over"}]
        /\ \A u \in Spans : life'[u] = IF u = s THEN "over" ELSE life[u]
        /\ Live' = Live \ {s} /\ Over' = Over \cup {s}
    BY <1>1 DEF TypeOK, Live, Over
  <1>3. RoomInv'
    <2>1. IsFiniteSet(Live') /\ Cardinality(Live') <= Cardinality(Live)
      BY <1>1, <1>2, FS_Subset DEF RoomInv
    <2>2. Cardinality(Live') \in Nat /\ Cardinality(Live) \in Nat
      BY <1>1, <2>1, FS_CardinalityType DEF RoomInv
    <2> QED BY <1>1, <2>1, <2>2, SpanTrackerAssumption DEF RoomInv
  <1>4. CASE s \in states
    <2>1. /\ states' = states \ {s} /\ order' = RemoveFirst(order, s)
          /\ ended' = [ended EXCEPT ![s] = TRUE]
      BY <1>4 DEF MarkEnded
    <2>2. order \in Seq(Spans) /\ s \in ToSet(order) /\ Len(order) \in Nat
      BY <1>1, <1>4 DEF StatesAgree, TypeOK
    <2>3. /\ order' \in Seq(Spans) /\ Len(order') = Len(order) - 1
          /\ ToSet(order') = ToSet(order) \ {s} /\ IsInjective(order')
      BY <1>1, <2>1, <2>2, RemoveFirstElements DEF StatesAgree
    <2>4. StatesAgree'
      BY <1>1, <1>2, <2>1, <2>2, <2>3, SpanTrackerAssumption DEF StatesAgree
    <2>5. ended' \in [Spans -> BOOLEAN] /\ \A u \in Spans : ended'[u] <=> (ended[u] \/ u = s)
      BY <1>1, <2>1 DEF TypeOK
    <2>6. LiveSpansKept'
      BY <1>1, <1>2, <2>5 DEF LiveSpansKept
    <2>7. \A u \in Spans : ended'[u] => life'[u] # "unborn" /\ u \notin states'
      BY <1>1, <1>2, <2>1, <2>5 DEF TrackedInv
    <2> QED BY <1>2, <1>3, <2>1, <2>3, <2>4, <2>5, <2>6, <2>7
  <1>5. CASE s \notin states
    <2>1. UNCHANGED <<states, order, ended>>
      BY <1>5 DEF MarkEnded, shared
    <2>2. StatesAgree'
      BY <1>1, <1>2, <1>5, <2>1 DEF StatesAgree
    <2>3. LiveSpansKept'
      BY <1>1, <1>2, <2>1 DEF LiveSpansKept
    <2>4. \A u \in Spans : ended'[u] => life'[u] # "unborn" /\ u \notin states'
      BY <1>1, <1>2, <2>1 DEF TrackedInv
    <2> QED BY <1>1, <1>2, <1>3, <2>1, <2>2, <2>3, <2>4 DEF TypeOK
  <1> QED BY <1>4, <1>5

\* del: the bottom of the stack stays what it was unless it is what goes.
LEMMA DeletedBottom ==
  ASSUME NEW q \in Seq(Spans), NEW s \in ToSet(q), Last(q) # s
  PROVE  Bottom(RemoveFirst(q, s)) = Bottom(q)
  <1>1. PICK i \in 1..Len(q) : q[i] = s /\ RemoveFirst(q, s) = RemoveAt(q, i)
    BY RemoveFirstIsRemoveAt
  <1> DEFINE r == RemoveAt(q, i)
  <1>2. /\ r \in Seq(Spans) /\ Len(r) = Len(q) - 1
        /\ \A k \in 1..(Len(q) - 1) : r[k] = IF k < i THEN q[k] ELSE q[k + 1]
    BY RemoveAtPrefixes, Zenon
  <1> HIDE DEF r
  <1>3. i # Len(q) /\ Len(q) \in Nat
    BY <1>1 DEF Last
  <1>4. Len(q) - 1 \in 1..(Len(q) - 1) /\ ~(Len(q) - 1 < i) /\ Len(q) - 1 + 1 = Len(q)
    BY <1>3
  <1>5. r[Len(q) - 1] = q[Len(q)] /\ Len(r) # 0 /\ Len(q) # 0
    BY <1>2, <1>3, <1>4
  <1>6. Bottom(r) = r[Len(r)] /\ Bottom(q) = q[Len(q)]
    BY <1>2, <1>5, BottomOf DEF Last
  <1> QED BY <1>1, <1>2, <1>5, <1>6 DEF r

LEMMA EndKeeps ==
  ASSUME SpanTrackerInv, NEW g \in Goroutines, NEW s \in Spans, End(g, s)
  PROVE  SpanTrackerInv'
  <1> DEFINE q == stack[g]
             r == IF s \in ToSet(q) THEN RemoveFirst(q, s) ELSE q
  <1>1. /\ TypeOK /\ TrackedInv /\ AddingInv /\ CompactInv /\ StackAgrees
        /\ g \in running /\ adding[g] = NoSpan /\ life[s] # "unborn"
        /\ \A h \in Goroutines : adding[h] # s
        /\ life' = [life EXCEPT ![s] = "over"] /\ MarkEnded(s) /\ Del(g, s)
        /\ UNCHANGED <<running, adding, scan, before, overflow>>
    BY DEF SpanTrackerInv, End, Ready, Live, Over
  <1>2. /\ order' \in Seq(Spans) /\ ended' \in [Spans -> BOOLEAN] /\ states' \subseteq states
        /\ life' \in [Spans -> {"unborn", "live", "over"}]
        /\ StatesAgree' /\ RoomInv' /\ LiveSpansKept' /\ Over \subseteq Over'
        /\ \A u \in Spans : ended'[u] => life'[u] # "unborn" /\ u \notin states'
        /\ \A u \in Spans : u # s => (ended'[u] <=> ended[u]) /\ life'[u] = life[u]
        /\ \A u \in Spans : u \in states \/ ended[u] => u \in states' \/ ended'[u]
    BY <1>1, EndMarks
  <1>3. q \in Seq(Spans) /\ Len(q) \in Nat /\ held[g] = Len(q) /\ lcs[g] \in {NoSpan, Bottom(q)}
    BY <1>1 DEF TypeOK, StackAgrees
  <1>4. /\ r \in Seq(Spans) /\ Len(r) \in Nat /\ Len(r) <= Len(q) /\ ToSet(r) \subseteq ToSet(q)
        /\ s \in ToSet(q) => Len(r) = Len(q) - 1
        /\ s \in ToSet(q) /\ Last(q) # s => Bottom(r) = Bottom(q)
    <2>1. CASE s \in ToSet(q)
      BY <1>3, <2>1, RemoveFirstElements, DeletedBottom
    <2>2. CASE s \notin ToSet(q)
      BY <1>3, <2>2
    <2> QED BY <2>1, <2>2
  <1>5. /\ stack' = [stack EXCEPT ![g] = r] /\ held' = [held EXCEPT ![g] = Len(r)]
        /\ \/ lcs' = lcs /\ (s \in ToSet(q) => Last(q) # s)
           \/ lcs' = [lcs EXCEPT ![g] = Bottom(r)]
    <2>1. CASE s \in ToSet(q)
      <3>1. /\ stack' = [stack EXCEPT ![g] = r] /\ held' = [held EXCEPT ![g] = @ - 1]
            /\ lcs' = [lcs EXCEPT ![g] = IF Last(q) = s THEN Bottom(stack'[g]) ELSE @]
        BY <1>1, <2>1 DEF Del
      <3> HIDE DEF r
      <3>2. stack'[g] = r /\ held[g] - 1 = Len(r)
        BY <1>1, <1>3, <1>4, <2>1, <3>1 DEF TypeOK
      <3>3. Last(q) # s => lcs' = lcs
        BY <1>1, <3>1 DEF TypeOK
      <3> QED BY <3>1, <3>2, <3>3
    <2>2. CASE s \notin ToSet(q)
      BY <1>1, <1>3, <2>2 DEF Del, TypeOK
    <2> QED BY <2>1, <2>2
  <1>6. s \notin ToSet(q) => r = q
    OBVIOUS
  <1> HIDE DEF r
  <1>7. /\ stack'[g] = r /\ held'[g] = Len(r)
        /\ \A h \in Goroutines : h # g =>
             stack'[h] = stack[h] /\ held'[h] = held[h] /\ lcs'[h] = lcs[h]
    BY <1>1, <1>5 DEF TypeOK
  <1>8. TypeOK'
    <2>1. Len(r) \in 0..MaxSpans
      BY <1>1, <1>3, <1>4, SpanTrackerAssumption DEF TypeOK
    <2>2. held' \in [Goroutines -> 0..MaxSpans] /\ stack' \in [Goroutines -> Seq(Spans)]
      BY <1>1, <1>4, <1>5, <2>1 DEF TypeOK
    <2>3. lcs' \in [Goroutines -> Spans \cup {NoSpan}]
      BY <1>1, <1>4, <1>5, BottomOf DEF TypeOK
    <2>4. states' \subseteq Spans
      BY <1>1, <1>2 DEF TypeOK
    <2> QED BY <1>1, <1>2, <2>2, <2>3, <2>4 DEF TypeOK
  <1>9. TrackedInv'
    <2>1. ASSUME NEW h \in Goroutines, NEW k \in 1..Len(stack'[h])
          PROVE  stack'[h][k] \in states' \/ ended'[stack'[h][k]]
      <3>1. PICK j \in 1..Len(stack[h]) : stack'[h][k] = stack[h][j]
        <4>1. CASE h = g
          <5>1. r[k] \in ToSet(q)
            BY <1>4, <1>7, <2>1, <4>1, Elements
          <5> QED BY <1>3, <1>7, <4>1, <5>1, Elements, SMTT(20)
        <4>2. CASE h # g
          BY <1>7, <2>1, <4>2
        <4> QED BY <4>1, <4>2
      <3>2. stack[h][j] \in Spans /\ (stack[h][j] \in states \/ ended[stack[h][j]])
        BY <1>1, ElementOfSeq DEF TypeOK, TrackedInv
      <3> QED BY <1>2, <3>1, <3>2
    <2> QED BY <1>2, <2>1 DEF TrackedInv
  <1>10. AddingInv'
    <2>1. \A h \in Goroutines : adding[h] # NoSpan => adding[h] \in Spans /\ adding[h] # s
      BY <1>1 DEF TypeOK
    <2> QED BY <1>1, <1>2, <2>1 DEF AddingInv
  <1>11. CompactInv'
    BY <1>1, <1>2, <1>7 DEF CompactInv
  <1>12. StackAgrees'
    <2>1. lcs'[g] \in {NoSpan, Bottom(r)}
      <3>1. CASE lcs' = lcs /\ (s \in ToSet(q) => Last(q) # s)
        BY <1>3, <1>4, <1>6, <3>1
      <3>2. CASE lcs' = [lcs EXCEPT ![g] = Bottom(r)]
        BY <1>1, <3>2 DEF TypeOK
      <3> QED BY <1>5, <3>1, <3>2
    <2> QED BY <1>1, <1>7, <2>1 DEF StackAgrees
  <1> QED BY <1>2, <1>8, <1>9, <1>10, <1>11, <1>12 DEF SpanTrackerInv

-----------------------------------------------------------------------------
(* The theorems.                                                           *)

\* Stacks, map, flags and cursors agree in every reachable state, for any mix
\* of spans started, ended and looked up by any number of goroutines.
THEOREM SpanTrackerInvariant == Spec => []SpanTrackerInv
  <1>1. SpanTrackerInv /\ [Next]_vars => SpanTrackerInv'
    <2> SUFFICES ASSUME SpanTrackerInv, [Next]_vars PROVE SpanTrackerInv'
      OBVIOUS
    <2>1. ASSUME NEW g \in Goroutines, NEW s \in Spans,
                 Start(g, s) \/ StartFull(g, s) \/ End(g, s)
          PROVE  SpanTrackerInv'
      BY <2>1, StartKeeps, StartFullKeeps, EndKeeps
    <2>2. ASSUME NEW g \in Goroutines, NEW h \in Goroutines, Go(g, h)
          PROVE  SpanTrackerInv'
      BY <2>2, GoKeeps
    <2>3. ASSUME NEW g \in Goroutines, Compact(g) \/ StartCompacted(g) \/ Drop(g)
          PROVE  SpanTrackerInv'
      BY <2>3, CompactKeeps, StartCompactedKeeps, DropKeeps
    <2>4. ASSUME NEW g \in Goroutines, Lookup(g) \/ Exit(g) \/ ClearTraceContext(g)
          PROVE  SpanTrackerInv'
      BY <2>4, LookupKeeps, ClearKeeps
    <2>5. CASE UNCHANGED vars
      BY <2>5 DEF vars, SpanTrackerInv, TypeOK, TrackedInv, AddingInv, CompactInv, RoomInv,
                  StatesAgree, StackAgrees, LiveSpansKept, Live, Over
    <2> QED BY <2>1, <2>2, <2>3, <2>4, <2>5 DEF Next
  <1> QED BY SpanTrackerStarts, <1>1, PTL DEF Spec

\* tail hands out live spans only, however many goroutines hold a clone of an
\* ended one.
THEOREM NoStaleParentHolds == Spec => []NoStaleParent
  <1>1. SpanTrackerInv => NoStaleParent
    BY CurrentIsTracked DEF NoStaleParent, SpanTrackerInv, StatesAgree
  <1> QED BY SpanTrackerInvariant, <1>1, PTL

\* The eviction list and the map are the same set of live spans, within the limit.
THEOREM StatesAgreeHolds == Spec => []StatesAgree
  <1>1. SpanTrackerInv => StatesAgree
    BY DEF SpanTrackerInv
  <1> QED BY SpanTrackerInvariant, <1>1, PTL

\* evictOldestLocked flags a live span only when more than MaxStates are in flight.
THEOREM LiveSpansKeptHolds == Spec => []LiveSpansKept
  <1>1. SpanTrackerInv => LiveSpansKept
    BY DEF SpanTrackerInv
  <1> QED BY SpanTrackerInvariant, <1>1, PTL

\* traceContext's counter and its bottom follow its stack.
THEOREM StackAgreesHolds == Spec => []StackAgrees
  <1>1. SpanTrackerInv => StackAgrees
    BY DEF SpanTrackerInv
  <1> QED BY SpanTrackerInvariant, <1>1, PTL

\* add drops a span only from a stack of spans that were live when it began.
THEOREM DropsOnlyLiveStackHolds == Spec => DropsOnlyLiveStack
  <1>1. SpanTrackerInv =>
          [\A g \in Goroutines : Drop(g) => ToSet(stack[g]) \cap before[g] = {}]_vars
    <2> SUFFICES ASSUME SpanTrackerInv, NEW g \in Goroutines, Drop(g)
                 PROVE  ToSet(stack[g]) \cap before[g] = {}
      OBVIOUS
    <2>1. TypeOK /\ CompactInv /\ adding[g] # NoSpan /\ scan[g] > Len(stack[g])
      BY DEF SpanTrackerInv, Drop, Compacted
    <2>2. stack[g] \in Seq(Spans) /\ scan[g] \in Nat
      BY <2>1 DEF TypeOK
    <2>3. \A i \in 1..Len(stack[g]) : stack[g][i] \notin before[g]
      BY <2>1, <2>2 DEF CompactInv
    <2> QED BY <2>2, <2>3, Elements
  <1> QED BY SpanTrackerInvariant, <1>1, PTL DEF DropsOnlyLiveStack

=============================================================================
