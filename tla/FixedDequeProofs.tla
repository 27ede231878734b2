--------------------------- MODULE FixedDequeProofs ---------------------------
(***************************************************************************)
(* Proofs about inplace_fixed_deque for every capacity, every set of       *)
(* values and every range that is assigned.                                *)
(***************************************************************************)
EXTENDS FixedDeque, SequenceTheorems, TLAPS

\* What operator[]'s modulo amounts to: an index below twice the capacity is
\* reduced at most once.
LEMMA ModuloOnce ==
  \A c \in Nat \ {0} : \A x \in 0 .. (2*c - 1) :
    /\ x < c => x % c = x
    /\ ~(x < c) => x % c = x - c
<1> TAKE c \in Nat \ {0}
<1> TAKE x \in 0 .. (2*c - 1)
<1>1. /\ x % c \in 0 .. c - 1
      /\ x = (c * (x \div c)) + (x % c)
      /\ x \div c \in Int
  OBVIOUS
<1>2. x \div c \in 0 .. 1
  BY <1>1
<1>3. QED
  BY <1>1, <1>2

\* The indices and the slots keep their types: Spec => []TypeOK.
THEOREM TypeInvariant == Spec => []TypeOK
<1> USE DequeAssumption DEF TypeOK, Slots
<1>1. Init => TypeOK
  BY DEF Init
<1>2. TypeOK /\ [Next]_vars => TypeOK'
  <2> SUFFICES ASSUME TypeOK, [Next]_vars
               PROVE  TypeOK'
    OBVIOUS
  <2>0. /\ size_internal \in 0 .. Capacity
        /\ NextEnd \in 0 .. Capacity
        /\ PrevEnd \in 0 .. Capacity
    BY DEF size_internal, NextEnd, PrevEnd
  <2>1. ASSUME NEW v \in Value, push_back(v) PROVE TypeOK'
    BY <2>0, <2>1 DEF push_back
  <2>2. ASSUME NEW v \in Value, push_front(v) PROVE TypeOK'
    BY <2>0, <2>2 DEF push_front
  <2>3. CASE Refused
    BY <2>3 DEF Refused, vars
  <2>4. CASE pop_back
    BY <2>0, <2>4 DEF pop_back
  <2>5. CASE pop_front
    BY <2>0, <2>5 DEF pop_front
  <2>6. CASE clear
    BY <2>6 DEF clear, Destroyed
  <2>7. ASSUME NEW s \in Sources, assign_internal(s) PROVE TypeOK'
    <3>1. s \in Seq(Value) /\ Len(s) \in Nat
      OBVIOUS
    <3>2. Copied(s) \in 0 .. Capacity /\ Copied(s) <= Len(s)
      BY <3>1 DEF Copied
    <3>3. \A i \in Slots : i < Copied(s) => s[i + 1] \in Value
      BY <3>1, <3>2
    <3>4. QED
      BY <2>7, <3>2, <3>3 DEF assign_internal, Destroyed
  <2>8. ASSUME NEW s \in Sources, AssignThrows(s) PROVE TypeOK'
    BY <2>8 DEF AssignThrows, Destroyed
  <2>9. CASE Traverse
    <3>1. \A n \in Offsets : n \in Int
      OBVIOUS
    <3>2. QED
      BY <2>0, <2>9, <3>1
         DEF Traverse, begin, end, increment, decrement, advance, container
  <2>10. CASE UNCHANGED vars
    BY <2>10 DEF vars
  <2>11. QED
    BY <2>1, <2>2, <2>3, <2>4, <2>5, <2>6, <2>7, <2>8, <2>9, <2>10
       DEF Next, Change
<1>3. QED
  BY <1>1, <1>2, PTL DEF Spec

\* size_internal, empty and full agree in every state of the right types; the
\* two forms of a full deque and every empty one are told apart by the order
\* of the indices alone.
LEMMA ObserversLemma == TypeOK => ObserversAgree
BY DequeAssumption
   DEF TypeOK, Slots, ObserversAgree, size_internal, empty, full

\* ObserversAgree is an invariant: the ASSERTs of empty(), full() and size()
\* never fire.
THEOREM ObserversInvariant == Spec => []ObserversAgree
BY TypeInvariant, ObserversLemma, PTL

\* Objects live exactly where the indices say, for every capacity: nothing is
\* leaked, constructed over or destroyed twice by any sequence of operations.
THEOREM SlotsInvariant == Spec => []SlotsMatchRange
<1> USE DequeAssumption DEF TypeOK, Slots, SlotsMatchRange
<1>1. Init => SlotsMatchRange
  BY DEF Init, Occupied
<1>2. TypeOK /\ SlotsMatchRange /\ [Next]_vars => SlotsMatchRange'
  <2> SUFFICES ASSUME TypeOK, SlotsMatchRange, [Next]_vars
               PROVE  SlotsMatchRange'
    OBVIOUS
  <2>0. \A i \in Slots : Destroyed[i] = Raw
    BY DEF Destroyed
  <2>1. ASSUME NEW v \in Value, push_back(v) PROVE SlotsMatchRange'
    BY <2>1 DEF push_back, NextEnd, full, Occupied
  <2>2. ASSUME NEW v \in Value, push_front(v) PROVE SlotsMatchRange'
    BY <2>2 DEF push_front, PrevEnd, full, Occupied
  <2>3. CASE UNCHANGED container
    BY <2>3 DEF container, Occupied
  <2>4. CASE pop_back
    BY <2>4 DEF pop_back, PrevEnd, empty, Occupied
  <2>5. CASE pop_front
    BY <2>5 DEF pop_front, NextEnd, empty, Occupied
  <2>6. CASE clear
    BY <2>0, <2>6 DEF clear, Occupied
  <2>7. ASSUME NEW s \in Sources, assign_internal(s) PROVE SlotsMatchRange'
    <3>1. s \in Seq(Value) /\ Len(s) \in Nat
      OBVIOUS
    <3>2. Copied(s) \in 0 .. Capacity /\ Copied(s) <= Len(s)
      BY <3>1 DEF Copied
    <3>3. \A i \in Slots : i < Copied(s) => s[i + 1] \in Value
      BY <3>1, <3>2
    <3>4. QED
      BY <2>0, <2>7, <3>2, <3>3 DEF assign_internal, Occupied
  <2>8. ASSUME NEW s \in Sources, AssignThrows(s) PROVE SlotsMatchRange'
    BY <2>0, <2>8 DEF AssignThrows, Occupied
  <2>9. QED
    BY <2>1, <2>2, <2>3, <2>4, <2>5, <2>6, <2>7, <2>8
       DEF Next, Change, Traverse, Refused, begin, end, increment, decrement,
           advance, vars, container
<1>3. QED
  BY <1>1, <1>2, TypeInvariant, PTL DEF Spec

\* A moved iterator stays between begin() and end(), or approaches it.
THEOREM IteratorTheorem == Spec => IteratorStaysInRange
<1>1. ASSUME TypeOK, [Next]_vars
      PROVE  [m_index' <= size_internal \/ m_index' < m_index]_m_index
  <2> USE DequeAssumption DEF TypeOK, Slots
  <2>1. size_internal \in 0 .. Capacity
    BY <1>1 DEF size_internal
  <2>2. CASE Change \/ UNCHANGED vars
    BY <2>2 DEF Change, push_back, push_front, Refused, pop_back, pop_front,
                clear, assign_internal, AssignThrows, vars
  <2>3. CASE Traverse
    <3>1. \A n \in Offsets : n \in Int
      OBVIOUS
    <3>2. QED
      BY <1>1, <2>1, <2>3, <3>1
         DEF Traverse, begin, end, increment, decrement, advance
  <2>4. QED
    BY <1>1, <2>2, <2>3 DEF Next
<1>2. QED
  BY <1>1, TypeInvariant, PTL DEF Spec, IteratorStaysInRange

\* Where operator[] looks, without the modulo.
LEMMA SlotOfLemma ==
  TypeOK => \A i \in 0 .. size_internal - 1 :
              SlotOf(i) = IF i + m_begin < Capacity THEN i + m_begin
                                                    ELSE i + m_begin - Capacity
<1> SUFFICES ASSUME TypeOK, NEW i \in 0 .. size_internal - 1
             PROVE  SlotOf(i) = IF i + m_begin < Capacity
                                THEN i + m_begin
                                ELSE i + m_begin - Capacity
  OBVIOUS
<1>1. /\ i \in 0 .. Capacity - 1
      /\ m_begin \in Int
      /\ i + m_begin \in 0 .. (2*Capacity - 1)
  BY DequeAssumption DEF TypeOK, Slots, size_internal
<1>2. /\ i + m_begin < Capacity => (i + m_begin) % Capacity = i + m_begin
      /\ ~(i + m_begin < Capacity) =>
           (i + m_begin) % Capacity = i + m_begin - Capacity
  <2>1. Capacity \in Nat \ {0}
    BY DequeAssumption
  <2>2. \A x \in 0 .. (2*Capacity - 1) :
          /\ x < Capacity => x % Capacity = x
          /\ ~(x < Capacity) => x % Capacity = x - Capacity
    BY <2>1, ModuloOnce
  <2>3. QED
    BY <1>1, <2>1, <2>2
<1>3. QED
  BY <1>1, <1>2, DequeAssumption DEF SlotOf, TypeOK, Slots, size_internal

\* What a state must satisfy for its contents to be read off the slots: Items
\* is a sequence of values, and operator[] finds position i where SlotOf says.
ItemsShape ==
  /\ Items \in Seq(Value)
  /\ Len(Items) = size_internal
  /\ \A i \in 1 .. size_internal :
       Items[i] = slot[IF i - 1 + m_begin < Capacity THEN i - 1 + m_begin
                                                     ELSE i - 1 + m_begin - Capacity]

\* Items, as the indices and the slots define it, has that shape.
LEMMA ItemsLemma == TypeOK /\ SlotsMatchRange => ItemsShape
<1> SUFFICES ASSUME TypeOK, SlotsMatchRange
             PROVE  ItemsShape
  OBVIOUS
<1> USE DequeAssumption
<1>1. size_internal \in Nat
  BY DEF TypeOK, Slots, size_internal
<1>2. ASSUME NEW i \in 1 .. size_internal
      PROVE  /\ slot[SlotOf(i - 1)] \in Value
             /\ SlotOf(i - 1) = IF i - 1 + m_begin < Capacity
                                THEN i - 1 + m_begin
                                ELSE i - 1 + m_begin - Capacity
  <2>1. i - 1 \in 0 .. size_internal - 1
    BY <1>1
  <2>2. SlotOf(i - 1) = IF i - 1 + m_begin < Capacity
                        THEN i - 1 + m_begin
                        ELSE i - 1 + m_begin - Capacity
    BY <2>1, SlotOfLemma
  <2>3. SlotOf(i - 1) \in Occupied /\ SlotOf(i - 1) \in Slots
    BY <2>1, <2>2 DEF TypeOK, Slots, Occupied, size_internal
  <2>4. QED
    BY <2>2, <2>3 DEF SlotsMatchRange, TypeOK
<1>3. QED
  BY <1>1, <1>2 DEF Items, ItemsShape

\* What the refinement relies on holds throughout.
LEMMA ShapeInvariant == Spec => [](TypeOK /\ SlotsMatchRange /\ ItemsShape)
BY TypeInvariant, SlotsInvariant, ItemsLemma, PTL

-----------------------------------------------------------------------------
(* Each operation of the bounded sequence, recognised position by position. *)

\* push_back: the old items, and one more behind them.
LEMMA IsAppend ==
  ASSUME NEW S, NEW s \in Seq(S), NEW t \in Seq(S), NEW v \in S,
         Len(t) = Len(s) + 1, t[Len(s) + 1] = v,
         \A i \in 1 .. Len(s) : t[i] = s[i]
  PROVE  t = Append(s, v)
OBVIOUS

\* push_front: one item before the old ones.
LEMMA IsPrepend ==
  ASSUME NEW S, NEW s \in Seq(S), NEW t \in Seq(S), NEW v \in S,
         Len(t) = Len(s) + 1, t[1] = v,
         \A i \in 2 .. Len(s) + 1 : t[i] = s[i - 1]
  PROVE  t = <<v>> \o s
<1>1. <<v>> \in Seq(S) /\ <<v>> \o s \in Seq(S) /\ Len(<<v>> \o s) = Len(s) + 1
  OBVIOUS
<1>2. \A i \in 1 .. Len(s) + 1 : (<<v>> \o s)[i] = t[i]
  OBVIOUS
<1>3. QED
  BY <1>1, <1>2, SeqEqual

\* pop_back, and an assignment that is cut off: the first items of a sequence.
LEMMA IsPrefixOf ==
  ASSUME NEW S, NEW s \in Seq(S), NEW t \in Seq(S),
         Len(t) <= Len(s),
         \A i \in 1 .. Len(t) : t[i] = s[i]
  PROVE  t = SubSeq(s, 1, Len(t))
OBVIOUS

\* pop_front: all items but the first.
LEMMA IsTail ==
  ASSUME NEW S, NEW s \in Seq(S), NEW t \in Seq(S),
         Len(s) = Len(t) + 1,
         \A i \in 1 .. Len(t) : t[i] = s[i + 1]
  PROVE  t = Tail(s)
OBVIOUS

-----------------------------------------------------------------------------
\* One step of the deque is a step of the bounded sequence or leaves it alone.
LEMMA StepRefines ==
  ASSUME TypeOK, TypeOK', ItemsShape, ItemsShape', [Next]_vars
  PROVE  [Abstract!Next]_Items
<1> USE DequeAssumption
<1>0. size_internal \in 0 .. Capacity /\ size_internal' \in 0 .. Capacity
  BY DEF TypeOK, Slots, size_internal
<1>1. ASSUME NEW v \in Value, push_back(v) PROVE Abstract!PushBack(v)
  <2>1. size_internal' = size_internal + 1 /\ size_internal < Capacity
    BY <1>1 DEF push_back, NextEnd, full, size_internal, TypeOK, Slots
  <2>2. Items'[size_internal + 1] = v
    BY <1>0, <1>1, <2>1
       DEF push_back, NextEnd, full, size_internal, TypeOK, Slots, ItemsShape
  <2>3. \A i \in 1 .. size_internal : Items'[i] = Items[i]
    BY <1>0, <1>1, <2>1
       DEF push_back, NextEnd, full, size_internal, TypeOK, Slots, ItemsShape
  <2>4. Items' = Append(Items, v)
    BY <2>1, <2>2, <2>3, IsAppend DEF ItemsShape
  <2>5. QED
    BY <2>1, <2>4 DEF Abstract!PushBack, ItemsShape
<1>2. ASSUME NEW v \in Value, push_front(v) PROVE Abstract!PushFront(v)
  <2>1. size_internal' = size_internal + 1 /\ size_internal < Capacity
    BY <1>2 DEF push_front, PrevEnd, full, size_internal, TypeOK, Slots
  <2>2. Items'[1] = v
    BY <1>0, <1>2, <2>1
       DEF push_front, PrevEnd, full, size_internal, TypeOK, Slots, ItemsShape
  <2>3. \A i \in 2 .. size_internal + 1 : Items'[i] = Items[i - 1]
    BY <1>0, <1>2, <2>1
       DEF push_front, PrevEnd, full, size_internal, TypeOK, Slots, ItemsShape
  <2>4. Items' = <<v>> \o Items
    BY <2>1, <2>2, <2>3, IsPrepend DEF ItemsShape
  <2>5. QED
    BY <2>1, <2>4 DEF Abstract!PushFront, ItemsShape
<1>3. CASE UNCHANGED container
  BY <1>3 DEF container, Items, size_internal, SlotOf
<1>4. ASSUME pop_back PROVE Abstract!PopBack
  <2>1. size_internal' = size_internal - 1 /\ size_internal > 0
    BY <1>4 DEF pop_back, PrevEnd, empty, size_internal, TypeOK, Slots
  <2>2. \A i \in 1 .. size_internal' : Items'[i] = Items[i]
    BY <1>0, <1>4, <2>1
       DEF pop_back, PrevEnd, empty, size_internal, TypeOK, Slots, ItemsShape
  <2>3. Items' = SubSeq(Items, 1, Len(Items) - 1)
    BY <1>0, <2>1, <2>2, IsPrefixOf DEF ItemsShape
  <2>4. QED
    BY <2>1, <2>3 DEF Abstract!PopBack, ItemsShape
<1>5. ASSUME pop_front PROVE Abstract!PopFront
  <2>1. size_internal' = size_internal - 1 /\ size_internal > 0
    BY <1>5 DEF pop_front, NextEnd, empty, size_internal, TypeOK, Slots
  <2>2. \A i \in 1 .. size_internal' : Items'[i] = Items[i + 1]
    BY <1>0, <1>5, <2>1
       DEF pop_front, NextEnd, empty, size_internal, TypeOK, Slots, ItemsShape
  <2>3. Items' = Tail(Items)
    BY <1>0, <2>1, <2>2, IsTail DEF ItemsShape
  <2>4. QED
    BY <2>1, <2>3 DEF Abstract!PopFront, ItemsShape
<1>6. ASSUME clear \/ \E s \in Sources : AssignThrows(s) PROVE Abstract!Clear
  <2>1. size_internal' = 0
    BY <1>6 DEF clear, AssignThrows, size_internal
  <2>2. QED
    BY <2>1 DEF Abstract!Clear, ItemsShape
<1>7. ASSUME NEW s \in Sources, assign_internal(s) PROVE Abstract!Assign(s)
  <2>1. s \in Seq(Value) /\ Len(s) \in Nat
    OBVIOUS
  <2>2. size_internal' = Copied(s) /\ Copied(s) <= Len(s)
    BY <1>7, <2>1 DEF assign_internal, size_internal, Copied
  <2>3. ASSUME NEW i \in 1 .. Copied(s) PROVE Items'[i] = s[i]
    <3>1. /\ i - 1 + m_begin' < Capacity
          /\ i - 1 + m_begin' = i - 1
          /\ i - 1 \in Slots /\ i - 1 < Copied(s)
      BY <1>0, <1>7, <2>1, <2>2 DEF assign_internal, Slots
    <3>2. Items'[i] = slot'[i - 1]
      BY <2>2, <3>1 DEF ItemsShape
    <3>3. QED
      BY <1>7, <3>1, <3>2, <2>1, <2>2 DEF assign_internal
  <2>4. Items' = SubSeq(s, 1, Copied(s))
    BY <2>1, <2>2, <2>3, IsPrefixOf DEF ItemsShape
  <2>5. QED
    BY <2>4 DEF Abstract!Assign, Copied
<1>8. QED
  BY <1>1, <1>2, <1>3, <1>4, <1>5, <1>6, <1>7
     DEF Next, Change, Traverse, Refused, begin, end, increment, decrement,
         advance, vars, container, Abstract!Next

\* The ring buffer implements the bounded sequence, for every capacity: through
\* every wrap-around, operator[] and the iterators read what was pushed, in
\* order.
THEOREM Refinement == Spec => ImplementsBoundedSequence
<1>1. Init => Abstract!Init
  BY DEF Init, Abstract!Init, Items, size_internal
<1>2. QED
  BY <1>1, StepRefines, ShapeInvariant, PTL
     DEF Spec, ImplementsBoundedSequence, Abstract!Spec
=============================================================================
