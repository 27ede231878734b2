------------------------------ MODULE FixedDeque ------------------------------
(***************************************************************************)
(* inplace_fixed_deque<T, item_amount> (inplace_fixed_deque.hpp): a deque  *)
(* inside a raw array of Capacity slots.  Two indices delimit the items,   *)
(* and what m_end means depends on their order:                            *)
(*                                                                         *)
(*   m_begin <= m_end   the items are slots m_begin .. m_end-1;            *)
(*   m_end < m_begin    the items are slots m_begin .. Capacity-1 and      *)
(*                      0 .. m_end, so m_end is the LAST item's slot.      *)
(*                                                                         *)
(* A slot holds Raw when no object lives in it, so constructing over a     *)
(* live object (a leak) or destroying a dead one shows up as a slot that   *)
(* disagrees with the indices.                                             *)
(***************************************************************************)
EXTENDS Integers, Sequences

CONSTANTS Capacity,  \* item_amount
          Value,     \* the values of T
          Raw,       \* a slot in which no object lives
          Sources,   \* the ranges passed to assign and to the constructors
          Offsets    \* the distances passed to iterator::advance

ASSUME DequeAssumption ==
  /\ Capacity \in Nat \ {0}     \* MEMBER_STATIC_CHECK(item_amount>0, ...)
  /\ Raw \notin Value
  /\ Sources \subseteq Seq(Value)
  /\ Offsets \subseteq Int

VARIABLES slot,      \* m_raw_byte_array
          m_begin,
          m_end,
          m_index    \* the position held by one iterator of the container

container == <<slot, m_begin, m_end>>
vars      == <<slot, m_begin, m_end, m_index>>

Slots == 0 .. Capacity - 1

-----------------------------------------------------------------------------
(* Observers *)

\* Mutant: the wrapped case forgets that m_end is then inclusive.
size_internal_Exclusive ==
  IF m_begin <= m_end THEN m_end - m_begin
                      ELSE Capacity - m_begin + m_end

size_internal ==
  IF m_begin <= m_end THEN m_end - m_begin
                      ELSE Capacity - m_begin + m_end + 1

empty == m_begin = m_end

full ==
  IF m_begin > m_end THEN m_end + 1 = m_begin
                     ELSE m_begin = 0 /\ m_end = Capacity

\* The slot operator[] reads for an index below size().
SlotOf(index) ==
  IF m_begin <= m_end THEN index + m_begin
                      ELSE (index + m_begin) % Capacity

\* The slots clear() walks over: those the indices say are alive.
Occupied ==
  IF m_begin <= m_end THEN m_begin .. m_end - 1
                      ELSE (m_begin .. Capacity - 1) \cup (0 .. m_end)

\* The contents as a caller reads them through operator[] or an iterator.
Items == [i \in 1 .. size_internal |-> slot[SlotOf(i - 1)]]

-----------------------------------------------------------------------------
(* Operations.  Where T's copy constructor may throw, the operation has an *)
(* outcome in which it does.                                               *)

\* Mutant: m_end wraps one slot too late.
NextEnd_Late == IF m_end > Capacity THEN 0 ELSE m_end + 1

\* m_end one step on and one step back, around the end of the array.
NextEnd == IF m_end >= Capacity THEN 0 ELSE m_end + 1
PrevEnd == IF m_end <= 0 THEN Capacity ELSE m_end - 1

\* push_back and emplace_back.
push_back(v) ==
  LET creation_position == IF NextEnd < m_begin THEN NextEnd ELSE m_end
  IN  /\ ~full
      /\ slot' = [slot EXCEPT ![creation_position] = v]
      /\ m_end' = NextEnd
      /\ UNCHANGED <<m_begin, m_index>>

\* push_front and emplace_front.
push_front(v) ==
  LET new_begin == IF m_begin <= 0 THEN Capacity - 1 ELSE m_begin - 1
  IN  /\ ~full
      /\ slot' = [slot EXCEPT ![new_begin] = v]
      /\ m_end' = IF m_begin <= 0 THEN PrevEnd ELSE m_end
      /\ m_begin' = new_begin
      /\ UNCHANGED m_index

\* The early returns: a push into a full deque, a pop from an empty one and an
\* iterator already at its end; and a push whose construction throws before
\* either index is assigned.
Refused == UNCHANGED vars

\* Mutant: m_end taken as exclusive in the wrapped case too.
pop_back_Exclusive ==
  /\ ~empty
  /\ m_end' = PrevEnd
  /\ slot' = [slot EXCEPT ![PrevEnd] = Raw]
  /\ UNCHANGED <<m_begin, m_index>>

pop_back ==
  LET destruction_position == IF m_end < m_begin THEN m_end ELSE PrevEnd
  IN  /\ ~empty
      /\ m_end' = PrevEnd
      /\ slot' = [slot EXCEPT ![destruction_position] = Raw]
      /\ UNCHANGED <<m_begin, m_index>>

\* Mutant: m_end keeps its value when m_begin leaves the array's last slot.
pop_front_EndKept ==
  /\ ~empty
  /\ m_begin' = IF m_begin >= Capacity - 1 THEN 0 ELSE m_begin + 1
  /\ slot' = [slot EXCEPT ![m_begin] = Raw]
  /\ UNCHANGED <<m_end, m_index>>

pop_front ==
  /\ ~empty
  /\ m_begin' = IF m_begin >= Capacity - 1 THEN 0 ELSE m_begin + 1
  /\ m_end' = IF m_begin >= Capacity - 1 THEN NextEnd ELSE m_end
  /\ slot' = [slot EXCEPT ![m_begin] = Raw]
  /\ UNCHANGED m_index

\* The slots after every occupied one has been destroyed.
Destroyed == [i \in Slots |-> IF i \in Occupied THEN Raw ELSE slot[i]]

clear ==
  /\ slot' = Destroyed
  /\ m_begin' = 0
  /\ m_end' = 0
  /\ UNCHANGED m_index

\* assign, operator= and the range constructors: clear, then copy from the
\* first slot on until the source or the array ends.
Copied(s) == IF Len(s) <= Capacity THEN Len(s) ELSE Capacity

assign_internal(s) ==
  /\ slot' = [i \in Slots |-> IF i < Copied(s) THEN s[i + 1] ELSE Destroyed[i]]
  /\ m_begin' = 0
  /\ m_end' = Copied(s)
  /\ UNCHANGED m_index

\* The copy of item k throws: the items before it are destroyed again and the
\* exception leaves assign_internal with the indices clear() gave them.
AssignThrows(s) ==
  \E k \in 1 .. Copied(s) :
    /\ slot' = [i \in Slots |-> IF i < k - 1 THEN Raw ELSE Destroyed[i]]
    /\ m_begin' = 0
    /\ m_end' = 0
    /\ UNCHANGED m_index

-----------------------------------------------------------------------------
(* One iterator: an index, not a pointer, so changes to the container leave *)
(* it where it was.                                                         *)

begin == m_index' = 0 /\ UNCHANGED container

end == m_index' = size_internal /\ UNCHANGED container

\* Mutant: the check against end() lets the iterator take one more step.
increment_PastEnd ==
  /\ m_index <= size_internal
  /\ m_index' = m_index + 1
  /\ UNCHANGED container

increment ==
  /\ m_index < size_internal
  /\ m_index' = m_index + 1
  /\ UNCHANGED container

decrement ==
  /\ m_index > 0
  /\ m_index' = m_index - 1
  /\ UNCHANGED container

\* A move beyond either end stops at it.
advance(added) ==
  /\ m_index' = IF added >= 0
                THEN IF m_index + added > size_internal THEN size_internal
                                                        ELSE m_index + added
                ELSE IF m_index < -added THEN 0 ELSE m_index + added
  /\ UNCHANGED container

-----------------------------------------------------------------------------
Init ==
  /\ slot = [i \in Slots |-> Raw]
  /\ m_begin = 0
  /\ m_end = 0
  /\ m_index = 0

Change ==
  \/ \E v \in Value : push_back(v) \/ push_front(v)
  \/ Refused
  \/ pop_back
  \/ pop_front
  \/ clear
  \/ \E s \in Sources : assign_internal(s) \/ AssignThrows(s)

Traverse ==
  \/ begin
  \/ end
  \/ increment
  \/ decrement
  \/ \E n \in Offsets : advance(n)

Next == Change \/ Traverse

Spec == Init /\ [][Next]_vars

-----------------------------------------------------------------------------
(* Properties *)

\* Types: both indices and every slot stay in range; m_end may stand one past
\* the array, m_begin may not (the ASSERTs on new_begin and new_end).
TypeOK ==
  /\ slot \in [Slots -> Value \cup {Raw}]
  /\ m_begin \in Slots
  /\ m_end \in 0 .. Capacity
  /\ m_index \in 0 .. Capacity

\* Objects live exactly in the slots the indices delimit: no push constructs
\* over a live object, no pop, clear or assignment destroys a dead one or
\* leaves one behind, through every wrap-around of either index.
SlotsMatchRange == \A i \in Slots : slot[i] # Raw <=> i \in Occupied

\* empty(), full() and size() agree: the ASSERTs in empty, full and size, and
\* the two shapes the indices take never confuse a full deque with an empty one.
ObserversAgree ==
  /\ size_internal \in 0 .. Capacity
  /\ empty <=> size_internal = 0
  /\ full <=> size_internal = Capacity

\* An iterator that a step moves stays within [begin(), end()], or comes
\* closer to it when pops had already left it beyond end().
IteratorStaysInRange ==
  [][m_index' <= size_internal \/ m_index' < m_index]_m_index

\* The deque is a bounded sequence: operator[] at every index reads the value
\* that the history of pushes, pops and assignments put at that position.
Abstract == INSTANCE BoundedSequence WITH items <- Items
ImplementsBoundedSequence == Abstract!Spec

=============================================================================
