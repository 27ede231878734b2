--------------------------- MODULE MemoryPoolTests ---------------------------
(***************************************************************************)
(* The memory pools under two kinds of client: any sequence of legal calls,*)
(* and the scripts of src/UnitTests/MemoryPoolsUnitTest.cpp with what they *)
(* assert.  The bodies of the pool are not in the repository; that the     *)
(* scripts hold shows that the model of them behaves as the tests expect.  *)
(* The tables of src/UnitTests/MemoryAlignmentUnitTest.cpp are read too.   *)
(***************************************************************************)
EXTENDS MemoryPool, MemoryAlignmentTests

VARIABLES
    test,   \* a test, or the free client
    pc,     \* the next step of a script
    got     \* what the calls of allocate and new have returned

testVars == <<test, pc, got>>
allVars == <<vars, testVars>>

-----------------------------------------------------------------------------
(* Scripts.  A step calls one operation and then asserts the given fields   *)
(* of the pools' statistics; i names the i-th pointer received.             *)

Allocates(p, expect) == [op |-> "allocate", pool |-> p, gets |-> TRUE, expect |-> expect]
Denied(p, expect) == [op |-> "allocate", pool |-> p, gets |-> FALSE, expect |-> expect]
Returns(p, i, expect) == [op |-> "deallocate", pool |-> p, item |-> i, expect |-> expect]
Transfers(p, q, expect) == [op |-> "transfer", pool |-> p, from |-> q, expect |-> expect]
Gets(p, expect) == [op |-> "new", pool |-> p, gets |-> TRUE, expect |-> expect]
Throws(p, expect) == [op |-> "new", pool |-> p, gets |-> FALSE, expect |-> expect]
Deletes(i, expect) == [op |-> "delete", item |-> i, expect |-> expect]

Anything == [p \in {} |-> 0]
Free(p, n) == [q \in {p} |-> [f \in {"free"} |-> n]]
Counts(free, inquiries, denied, max) ==
    [q \in {1} |-> [free |-> free, items |-> 2, inquiries |-> inquiries,
                    denied |-> denied, max |-> max]]

Script(c, steps) == [kind |-> "script", case |-> c, steps |-> steps]
Case(check, step, size) == [step |-> step, size |-> size, check |-> check]

\* A pool of one item: it is given, denied, returned, given and denied again.
OneItem == <<Allocates(2, Free(2, 0)), Denied(2, Free(2, 0)), Returns(2, 1, Free(2, 1)),
             Allocates(2, Free(2, 0)), Denied(2, Free(2, 0))>>

\* A pool of two items, with every statistic.
TwoItems == <<Allocates(1, Counts(1, 1, 0, 1)), Allocates(1, Counts(0, 2, 0, 2)),
              Denied(1, Counts(0, 3, 1, 2)), Denied(1, Counts(0, 4, 2, 2)),
              Returns(1, 1, Counts(1, 4, 2, 2)), Returns(1, 2, Counts(2, 4, 2, 2)),
              Allocates(1, Counts(1, 5, 2, 2)), Allocates(1, Counts(0, 6, 2, 2)),
              Denied(1, Counts(0, 7, 3, 2)), Denied(1, Counts(0, 8, 4, 2))>>

\* The first pool takes three items, is denied two more and has them back.
ThreeItems(i) ==
    <<Allocates(1, Free(1, 2)), Allocates(1, Free(1, 1)), Allocates(1, Free(1, 0)),
      Denied(1, Free(1, 0)), Denied(1, Free(1, 0)), Returns(1, i, Free(1, 1)),
      Returns(1, i + 1, Free(1, 2)), Returns(1, i + 2, Free(1, 3))>>

\* An item of the second pool is returned to the first.
Foreign == <<Allocates(2, Free(2, 0)), Denied(2, Free(2, 0)), Returns(1, 1, Free(1, 3))>>
           \o ThreeItems(2)

\* The free items of the second pool are transferred to the first.
Transfer == <<Transfers(1, 2, [p \in {1, 2} |-> IF p = 1 THEN [free |-> 3, items |-> 3]
                                                ELSE [f \in {"free"} |-> 0]])>>
            \o ThreeItems(1)

\* A pool of one object: get, delete, get, a get that throws, delete.
Objects == <<Gets(2, Free(2, 0)), Deletes(1, Free(2, 1)), Gets(2, Free(2, 0)),
             Throws(2, Free(2, 0)), Deletes(2, Free(2, 1))>>

\* A constructor that throws: the memory is returned before get throws.
ThrowingConstructor == <<Gets(2, Anything), Deletes(1, Free(2, 1))>>

-----------------------------------------------------------------------------
(* The blocks of the test.                                                  *)

CPU == 4    \* the alignment step of TCPUMemoryAlignment and of the default

OneItemDisallow1 == Script(Case("disallow", 1, 1), OneItem)
TwoItemsDisallow1 == Script(Case("disallow", 1, 5), TwoItems)
ForeignChecked1 == Script(Case("corruption", 1, 5), Foreign)
TransferChecked1 == Script(Case("corruption", 1, 5), Transfer)
OneItemNoCheck1 == Script(Case("none", 1, 1), OneItem)
TwoItemsNoCheck1 == Script(Case("none", 1, 5), TwoItems)
ForeignNoCheck1 == Script(Case("none", 1, 5), Foreign)
TransferNoCheck1 == Script(Case("none", 1, 5), Transfer)
OneItemDisallowCPU == Script(Case("disallow", CPU, 1), OneItem)
TwoItemsDisallowCPU == Script(Case("disallow", CPU, 5), TwoItems)
ForeignCheckedCPU == Script(Case("corruption", CPU, 5), Foreign)
TransferCheckedCPU == Script(Case("corruption", CPU, 5), Transfer)
OneItemDefault == Script(Case("disallow", CPU, 1), OneItem)
OneItemNoCheckCPU == Script(Case("none", CPU, 1), OneItem)
TwoItemsNoCheckCPU == Script(Case("none", CPU, 5), TwoItems)
ForeignNoCheckCPU == Script(Case("none", CPU, 5), Foreign)
TransferNoCheckCPU == Script(Case("none", CPU, 5), Transfer)
ObjectWithoutParams == Script(Case("disallow", CPU, 5), Objects)
ObjectOneParam == Script(Case("disallow", CPU, 8), Objects)
ObjectTwoParams == Script(Case("disallow", CPU, 16), Objects)
ObjectThrows == Script(Case("disallow", CPU, 5), ThrowingConstructor)

Scripts ==
    {OneItemDisallow1, TwoItemsDisallow1, ForeignChecked1, TransferChecked1,
     OneItemNoCheck1, TwoItemsNoCheck1, ForeignNoCheck1, TransferNoCheck1,
     OneItemDisallowCPU, TwoItemsDisallowCPU, ForeignCheckedCPU, TransferCheckedCPU,
     OneItemDefault, OneItemNoCheckCPU, TwoItemsNoCheckCPU, ForeignNoCheckCPU,
     TransferNoCheckCPU, ObjectWithoutParams, ObjectOneParam, ObjectTwoParams,
     ObjectThrows}

AlignmentTables ==
    {[kind |-> "sizes", table |-> t] : t \in SizeTests}
    \cup {[kind |-> "addresses", table |-> t] : t \in AddressTests}

FreeClient == [kind |-> "client"]

-----------------------------------------------------------------------------

Init ==
    /\ pc = 1
    /\ got = <<>>
    /\ \/ \E s \in Scripts : test = s /\ PoolInit(s.case)
       \/ test = FreeClient /\ ClientInit
       \/ test \in AlignmentTables /\ PoolInit(CHOOSE c \in Cases : TRUE)

\* The i-th pointer received.
Received(i) == CHOOSE o \in out : o.pointer = SelectSeq(got, LAMBDA x : x # NULL)[i]

\* What the pool gives.
Given(p) == IF top[p] = NULL THEN NULL ELSE GetAllocatedPointer(top[p])

Step ==
    /\ test.kind = "script"
    /\ pc <= Len(test.steps)
    /\ LET s == test.steps[pc]
       IN  \/ /\ s.op = "allocate"
              /\ allocate(s.pool, FALSE)
              /\ got' = Append(got, Given(s.pool))
           \/ /\ s.op = "new"
              /\ New(s.pool, 1)
              /\ got' = Append(got, Given(s.pool))
           \/ s.op = "deallocate" /\ deallocate(s.pool, Received(s.item)) /\ UNCHANGED got
           \/ s.op = "delete" /\ Delete(Received(s.item)) /\ UNCHANGED got
           \/ s.op = "transfer" /\ transferFreeItems(s.pool, s.from) /\ UNCHANGED got
    /\ pc' = pc + 1
    /\ UNCHANGED test

FreeStep ==
    /\ test = FreeClient
    /\ ClientNext
    /\ UNCHANGED testVars

\* A script ends and stays where it is; a client may stop once it has returned
\* everything.
Ended ==
    /\ \/ test.kind \in {"sizes", "addresses"}
       \/ test.kind = "script" /\ pc > Len(test.steps)
       \/ test = FreeClient /\ out = {}
    /\ UNCHANGED allVars

Next == Step \/ FreeStep \/ Ended

Spec == Init /\ [][Next]_allVars

-----------------------------------------------------------------------------
\* The assertions of the two unit tests: after each step of a script the pointer
\* is NULL exactly when the test says so and the statistics are the ones it
\* states, every step can be taken, each row of the alignment tables holds, and
\* the shifts of BitsAlgorithms.h round up to the next power of two.  The counts
\* before the first step of a script are not compared.
TestAsserts ==
    CASE test.kind = "script" ->
            /\ pc <= Len(test.steps) => ENABLED Step
            /\ pc > 1 =>
                LET s == test.steps[pc - 1]
                IN  /\ s.op \in {"allocate", "new"} => (got[Len(got)] # NULL) = s.gets
                    /\ \A p \in DOMAIN s.expect : \A f \in DOMAIN s.expect[p] :
                            stat[p][f] = s.expect[p][f]
      [] test.kind = "sizes" -> SizeTestHolds(test.table)
      [] test.kind = "addresses" -> AddressTestHolds(test.table)
      [] OTHER -> TRUE
=============================================================================
