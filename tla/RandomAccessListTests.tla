------------------------ MODULE RandomAccessListTests ------------------------
(***************************************************************************)
(* The scripts of src/UnitTests/RandomAccessListTest.cpp on the model of   *)
(* the list, with what they assert.  Allocators that differ, hashing and   *)
(* the counting of instances are left out.                                 *)
(***************************************************************************)
EXTENDS RandomAccessList, FiniteSetsExt

CONSTANTS empty, empty2,    \* the names of the lists
          MaxAmount,        \* BOUND: the tests build lists of up to 30 and of 1000
          MaxRandom         \* BOUND: and as large ones by random insertions

ASSUME TestAssumption ==
  /\ Lists = {empty, empty2}
  /\ Node \subseteq Nat     \* so that there is a first one
  /\ MaxAmount \in Nat /\ MaxRandom \in Nat

VARIABLES test, pc

allVars == <<vars, test, pc>>

-----------------------------------------------------------------------------
(* Steps.  After each the named lists must equal these values.              *)

Step(op, l, e) == [op |-> op, list |-> l, expect |-> l :> e]
Both(op, l, m) == [op |-> op, list |-> l, other |-> m,
                   expect |-> (empty :> <<>>) @@ (empty2 :> <<>>)]
Assigns(l, e) == Step("assign", l, e)
Emplaces(i, x, e) == [op |-> "insert", list |-> empty, at |-> i, x |-> x, expect |-> empty :> e]

Same(x, n) == [i \in 1 .. n |-> x]
Increased(n) == [i \in 1 .. n |-> i]

Script(steps) == [kind |-> "script", steps |-> steps]
Amounts == 0 .. MaxAmount

\* One empty list.
checksEmpty(l) ==
  <<Both("swap", l, l), Assigns(l, <<>>), Step("clear", l, <<>>), Step("resize", l, <<>>),
    Step("reverse", l, <<>>), Step("sort", l, <<>>), Step("unique", l, <<>>),
    Step("remove", l, <<>>)>>

\* Two empty lists.
checksEmptyAndCheckEquality ==
  checksEmpty(empty) \o checksEmpty(empty2)
    \o <<Both("swap", empty, empty2), Assigns(empty, <<>>), Both("swap", empty, empty2)>>

checkEmptyWithEqualAllocators ==
  <<Both("merge", empty, empty2), Both("splice", empty, empty2),
    Both("splice_range", empty, empty2)>>

-----------------------------------------------------------------------------
(* The tests.                                                               *)

EmptyLists == {Script(checksEmpty(empty)),
               Script(checksEmptyAndCheckEquality),
               Script(checkEmptyWithEqualAllocators \o checksEmptyAndCheckEquality)}

checkDefaultConstructable == {Script(<<Assigns(empty, Same(0, n))>>) : n \in Amounts}
checkDefaultConstructableWithIntAmount == checkDefaultConstructable
checkConstructable == {Script(<<Assigns(empty, Same(50, n))>>) : n \in Amounts}
checkConstructableWithIntAmount == checkConstructable
checkConstructableFromIncreasedRange ==
  {[kind |-> "increased", steps |-> <<Assigns(empty, Increased(n))>>] : n \in Amounts}
checkAssignedContainer == checkDefaultConstructable
checkUndefaultAssignedContainer == checkConstructable
checkUndefaultAssignedContainerWithIntAmount == checkConstructable
checkAssignedContainerWithIntAmount == checkDefaultConstructable
checkAssignedIncreasedRange == checkConstructableFromIncreasedRange

Unique3 == Script(<<Assigns(empty, <<1, 1, 3>>), Step("unique", empty, <<1, 3>>)>>)

Sort4 == Script(<<Assigns(empty, <<1, 3, 5, 1>>), Step("sort", empty, <<1, 1, 3, 5>>),
                  Step("unique", empty, <<1, 3, 5>>)>>)

Sort7 == Script(<<Assigns(empty, <<1, 3, 4, 5, 1, 5, 7>>),
                  Step("sort", empty, <<1, 1, 3, 4, 5, 5, 7>>),
                  Step("unique", empty, <<1, 3, 4, 5, 7>>)>>)

Fourteen == <<1, 3, 4, 5, 1, 5, 7, 8, 8, 9, 3, 100, 100, 123>>
Sort14 == Script(<<Assigns(empty, Fourteen),
                   Step("sort", empty, <<1, 1, 3, 3, 4, 5, 5, 7, 8, 8, 9, 100, 100, 123>>),
                   Step("unique", empty, <<1, 3, 4, 5, 7, 8, 9, 100, 123>>)>>)

TwentyFive == Fourteen \o <<1100, 1170, 1160, 1150, 1140, 1300, 1102, 1120, 1200, 3100, 11100>>
UniqueOf25 == <<1, 3, 4, 5, 7, 8, 9, 100, 123,
                1100, 1102, 1120, 1140, 1150, 1160, 1170, 1200, 1300, 3100, 11100>>
Sort25 ==
  Script(<<Assigns(empty, TwentyFive),
           Step("sort", empty, <<1, 1, 3, 3, 4, 5, 5, 7, 8, 8, 9, 100, 100, 123,
                1100, 1102, 1120, 1140, 1150, 1160, 1170, 1200, 1300, 3100, 11100>>),
           Step("unique", empty, UniqueOf25),
           Step("reverse", empty, Reverse(UniqueOf25))>>)

Emplace ==
  Script(<<Emplaces(1, 4, <<4>>), Emplaces(1, 3, <<3, 4>>), Emplaces(1, 2, <<2, 3, 4>>),
           Emplaces(1, 0, <<0, 2, 3, 4>>), Emplaces(1, 0, <<0, 0, 2, 3, 4>>),
           Emplaces(1, 0, <<0, 0, 0, 2, 3, 4>>), Emplaces(7, 0, <<0, 0, 0, 2, 3, 4, 0>>),
           Emplaces(8, 0, <<0, 0, 0, 2, 3, 4, 0, 0>>)>>)

\* Insertions at random places until there are n elements, then removals.
RandomTests == {[kind |-> "random", amount |-> n] : n \in 0 .. MaxRandom}

Tests ==
  EmptyLists
    \cup checkDefaultConstructable \cup checkDefaultConstructableWithIntAmount
    \cup checkConstructable \cup checkConstructableWithIntAmount
    \cup checkConstructableFromIncreasedRange
    \cup checkAssignedContainer \cup checkAssignedContainerWithIntAmount
    \cup checkUndefaultAssignedContainer \cup checkUndefaultAssignedContainerWithIntAmount
    \cup checkAssignedIncreasedRange
    \cup {Unique3, Sort4, Sort7, Sort14, Sort25, Emplace} \cup RandomTests

-----------------------------------------------------------------------------

\* New nodes that hold these values.
NodesFor(values) ==
  FoldLeft(LAMBDA acc, x : Append(acc, Min({n \in Free : value[n] = x /\ n \notin ToSet(acc)})),
           <<>>, values)

\* An operation that finds the list empty changes nothing.
Nothing(l) == expected[l] = <<>> /\ UNCHANGED vars

Do(s) ==
  LET l == s.list
  IN  \/ s.op = "assign" /\ assign(l, NodesFor(s.expect[l]))
      \/ s.op = "insert" /\ insert(l, s.at, NodesFor(<<s.x>>))
      \/ s.op = "resize" /\ insert(l, 1, <<>>)
      \/ s.op \in {"clear", "remove"} /\ Nothing(l)
      \/ s.op = "splice_range" /\ Nothing(s.other)
      \/ s.op = "unique" /\ (unique(l) \/ Nothing(l))
      \/ s.op = "reverse" /\ reverse(l)
      \/ s.op = "sort" /\ sort(l)
      \/ s.op = "swap" /\ swap(l, s.other)
      \/ s.op = "merge" /\ merge(l, s.other)
      \/ s.op = "splice" /\ splice(l, 1, s.other)

TakeStep ==
  /\ test.kind # "random"
  /\ pc <= Len(test.steps)
  /\ Do(test.steps[pc])
  /\ pc' = pc + 1
  /\ UNCHANGED test

randFromZeroToN(n) == IF n < 1 THEN {0} ELSE 0 .. n - 1

\* insertTest: the next value, never behind the last element.
RandomInsert ==
  /\ test.kind = "random" /\ pc <= test.amount
  /\ \E at \in randFromZeroToN(pc - 1) : insert(empty, at + 1, NodesFor(<<pc>>))
  /\ pc' = pc + 1
  /\ UNCHANGED test

\* eraseTest: any element but the last of several.
RandomErase ==
  /\ test.kind = "random" /\ pc > test.amount /\ expected[empty] # <<>>
  /\ \E at \in randFromZeroToN(Len(expected[empty]) - 1) : erase(empty, at + 1, at + 2)
  /\ UNCHANGED <<test, pc>>

Ended ==
  /\ IF test.kind = "random" THEN pc > test.amount /\ expected[empty] = <<>>
                             ELSE pc > Len(test.steps)
  /\ UNCHANGED allVars

TestInit == Init /\ test \in Tests /\ pc = 1
TestNext == TakeStep \/ RandomInsert \/ RandomErase \/ Ended
TestSpec == TestInit /\ [][TestNext]_allVars

-----------------------------------------------------------------------------
(* What the tests assert.                                                   *)

Values(l) == [i \in DOMAIN Elements(l) |-> value[Elements(l)[i]]]

\* The elements as a reverse iterator meets them.
RECURSIVE WalkBack(_, _)
WalkBack(n, before) ==
  IF n \in {before, Null} THEN <<>> ELSE <<n>> \o WalkBack(backward(node, n), before)

\* size() counts neither sentinel; the list reads the same from both ends.
checkEquality(l, e) ==
  /\ Values(l) = e
  /\ size(node, stump[l].root) - 2 = Len(e)
  /\ WalkBack(backward(node, stump[l].end), stump[l].before_begin) = Reverse(Elements(l))

\* Distances and operator[] of the list 1, 2, ..., n.
checkIncreased(l, n) ==
  \A i \in 1 .. n :
    /\ value[getByIndex(node, stump[l].root, i)] = i
    /\ value[go_to(node, stump[l].root, stump[l].begin, i - 1)] = i
    /\ getIndex(node, Elements(l)[i]) - getIndex(node, stump[l].begin) = i - 1

\* The unit test's assertions about the lists: after each step they equal the
\* values the test states (in the random part: those of the std::list beside it),
\* read forwards and backwards, and positions agree with distances.  Where the
\* iterators that insert, emplace and erase return stand is not compared.
ListTestAsserts ==
  IF test.kind = "random"
  THEN checkEquality(empty, [i \in DOMAIN expected[empty] |-> value[expected[empty][i]]])
  ELSE pc > 1 =>
         LET e == test.steps[pc - 1].expect
         IN  /\ \A l \in DOMAIN e : checkEquality(l, e[l])
             /\ test.kind = "increased" => checkIncreased(empty, Len(e[empty]))
=============================================================================
