------------------------- MODULE UnboundedQueueProofs -------------------------
(***************************************************************************)
(* Proofs about the queue between threads, for every set of consumers,     *)
(* every number of items and every batch size.                             *)
(***************************************************************************)
EXTENDS UnboundedQueue, SequenceTheorems, TLAPS

\* The items of a pushed batch are the ones that follow those pushed so far.
LEMMA BatchType ==
  ASSUME pushed \in Nat, NEW n \in Nat
  PROVE  Batch(n) \in Seq(1 .. pushed + n)
BY DEF Batch

\* The part of the state that says who sleeps and who is woken keeps its type
\* in one turn at the mutex.
LEMMA TurnType ==
  ASSUME TypeOK, NEW c \in Consumers, NEW request \in Calls,
         c \notin blocked, wait_and_pop_internal(c, request)
  PROVE  TypeOK'
<1> USE DEF TypeOK
<1>0. UNCHANGED <<closed, pushed, atBack>>
  BY DEF wait_and_pop_internal
<1>0a. NoCall \in Calls
  BY DEF NoCall, Calls
<1>1. CASE ThrowClosed(c)
  BY <1>0, <1>0a, <1>1 DEF ThrowClosed, Leave
<1>2. CASE Deliver(c, request.amount)
  <2> DEFINE n == IF request.amount = "one" THEN 1 ELSE Len(queue)
  <2>1. n \in 1 .. Len(queue) /\ queue # <<>>
    BY <1>2 DEF Deliver
  <2>2. /\ SubSeq(queue, n + 1, Len(queue)) \in Seq(1 .. pushed)
        /\ SubSeq(queue, 1, n) \in Seq(1 .. pushed)
    BY <2>1, SubSeqProperties
  <2>3. queue' \in Seq(1 .. pushed) /\ delivered' \in Seq(1 .. pushed)
    BY <1>2, <2>2, ConcatProperties DEF Deliver
  <2>4. /\ blocked' \subseteq Consumers /\ awake' \subseteq Consumers
        /\ blocked' \cap awake' = {}
        /\ awake \ {c} \subseteq awake'
    BY <1>2 DEF Deliver, notify_one
  <2>5. QED
    BY <1>0, <1>0a, <1>2, <2>3, <2>4 DEF Deliver, Leave
<1>3. CASE ThrowTimeout(c, request.wait)
  BY <1>0, <1>0a, <1>3 DEF ThrowTimeout, Leave
<1>4. CASE Sleep(c, request)
  BY <1>0, <1>4 DEF Sleep
<1>5. QED
  BY <1>1, <1>2, <1>3, <1>4 DEF wait_and_pop_internal

\* The state keeps its types.
THEOREM TypeInvariant == Spec => []TypeOK
<1>1. Init => TypeOK
  <2>1. NoCall \in Calls /\ FALSE \in BOOLEAN
    BY DEF NoCall, Calls
  <2>2. ASSUME Init PROVE queue \in Seq(1 .. pushed) /\ delivered \in Seq(1 .. pushed)
    BY <2>2, EmptySeq DEF Init
  <2>3. ASSUME Init PROVE call \in [Consumers -> Calls] /\ pushed \in Nat
    BY <2>1, <2>3 DEF Init
  <2>4. ASSUME Init PROVE closed \in BOOLEAN
    BY <2>4 DEF Init
  <2>5. QED
    BY <2>2, <2>3, <2>4 DEF Init, TypeOK
<1>2. TypeOK /\ [Next]_vars => TypeOK'
  <2> SUFFICES ASSUME TypeOK, [Next]_vars
               PROVE  TypeOK'
    OBVIOUS
  <2> USE DEF TypeOK
  <2>1. ASSUME NEW n \in 1 .. MaxBatch, push_back_all(n) \/ push_front_all(n)
        PROVE  TypeOK'
    <3>1. n \in Nat /\ pushed' = pushed + n /\ pushed' \in Nat
      BY <2>1, QueueAssumption DEF push_back_all, push_front_all
    <3>2. /\ queue \in Seq(1 .. pushed') /\ delivered \in Seq(1 .. pushed')
          /\ Batch(n) \in Seq(1 .. pushed')
      <4>1. 1 .. pushed \subseteq 1 .. pushed'
        BY <3>1
      <4>2. QED
        BY <3>1, <4>1, SeqMonotonic, BatchType
    <3>3. queue' \in Seq(1 .. pushed')
      <4>1. queue' = queue \o Batch(n) \/ queue' = Batch(n) \o queue
        BY <2>1 DEF push_back_all, push_front_all
      <4>2. QED
        BY <3>2, <4>1, ConcatProperties
    <3>4. atBack' \subseteq 1 .. pushed'
      <4>1. atBack' = atBack \cup (pushed + 1 .. pushed + n) \/ atBack' = atBack
        BY <2>1 DEF push_back_all, push_front_all
      <4>2. /\ 1 .. pushed \subseteq 1 .. pushed'
            /\ pushed + 1 .. pushed + n \subseteq 1 .. pushed'
        BY <3>1
      <4>3. QED
        BY <4>1, <4>2, Zenon
    <3>5. /\ blocked' \subseteq Consumers /\ awake' \subseteq Consumers
          /\ blocked' \cap awake' = {} /\ expired' \subseteq awake'
      BY <2>1 DEF push_back_all, push_front_all, notify_one
    <3>6. QED
      BY <2>1, <3>1, <3>2, <3>3, <3>4, <3>5 DEF push_back_all, push_front_all
  <2>2. CASE PushIgnored
    BY <2>2 DEF PushIgnored, vars
  <2>3. CASE close
    BY <2>3 DEF close, notify_all
  <2>4. CASE clear
    BY <2>4, EmptySeq DEF clear, consumerVars
  <2>5. ASSUME NEW c \in Consumers, Enter(c) PROVE TypeOK'
    BY <2>5, TurnType DEF Enter, Inside
  <2>6. ASSUME NEW c \in Consumers, Resume(c) PROVE TypeOK'
    <3>1. c \notin blocked /\ call[c] \in Calls
      BY <2>6 DEF Resume
    <3>2. QED
      BY <2>6, <3>1, TurnType DEF Resume
  <2>7. ASSUME NEW c \in Consumers, SpuriousWakeup(c) PROVE TypeOK'
    BY <2>7 DEF SpuriousWakeup
  <2>8. ASSUME NEW c \in Consumers, DeadlinePasses(c) PROVE TypeOK'
    BY <2>8 DEF DeadlinePasses, Inside
  <2>9. CASE UNCHANGED vars
    BY <2>9 DEF vars
  <2>10. QED
    BY <2>1, <2>2, <2>3, <2>4, <2>5, <2>6, <2>7, <2>8, <2>9 DEF Next
<1>3. QED
  BY <1>1, <1>2, PTL DEF Spec

-----------------------------------------------------------------------------
\* The two facts about sleepers support each other's steps only through the
\* types: whoever falls asleep found an open and empty queue.
SleepInv == NoStrandedConsumer /\ NobodySleepsWhenClosed

\* A notification leaves nobody asleep or somebody woken.
LEMMA NotifyWakes ==
  ASSUME NEW others, notify_one(others)
  PROVE  (blocked' # {} => awake' # {}) /\ blocked' \subseteq blocked
BY DEF notify_one

\* One turn at the mutex: a consumer that takes items and leaves some passes
\* the notification on, and one that falls asleep leaves an empty queue.
LEMMA TurnKeepsSleepInv ==
  ASSUME TypeOK, SleepInv, NEW c \in Consumers, NEW request \in Calls,
         wait_and_pop_internal(c, request)
  PROVE  SleepInv'
<1> USE DEF SleepInv, NoStrandedConsumer, NobodySleepsWhenClosed
<1>0. closed' = closed
  BY DEF wait_and_pop_internal
<1>1. CASE ThrowClosed(c)
  BY <1>0, <1>1 DEF ThrowClosed
<1>2. CASE Deliver(c, request.amount)
  <2>1. ~closed
    BY <1>2 DEF Deliver
  <2>2. CASE queue' # <<>>
    <3>1. notify_one(awake \ {c})
      BY <1>2, <2>2 DEF Deliver
    <3>2. QED
      BY <1>0, <2>1, <3>1, NotifyWakes
  <2>3. CASE queue' = <<>>
    BY <1>0, <2>1, <2>3
  <2>4. QED
    BY <2>2, <2>3
<1>3. CASE ThrowTimeout(c, request.wait)
  BY <1>0, <1>3 DEF ThrowTimeout
<1>4. CASE Sleep(c, request)
  BY <1>0, <1>4 DEF Sleep
<1>5. QED
  BY <1>1, <1>2, <1>3, <1>4 DEF wait_and_pop_internal

\* Every operation keeps SleepInv.
LEMMA SleepInvariant == Spec => []SleepInv
<1> USE DEF SleepInv, NoStrandedConsumer, NobodySleepsWhenClosed
<1>1. Init => SleepInv
  BY DEF Init
<1>2. TypeOK /\ SleepInv /\ [Next]_vars => SleepInv'
  <2> SUFFICES ASSUME TypeOK, SleepInv, [Next]_vars
               PROVE  SleepInv'
    OBVIOUS
  <2>1. ASSUME NEW n \in 1 .. MaxBatch, push_back_all(n) \/ push_front_all(n)
        PROVE  SleepInv'
    <3>1. notify_one(awake) /\ closed' = closed /\ ~closed
      BY <2>1 DEF push_back_all, push_front_all
    <3>2. QED
      BY <3>1, NotifyWakes
  <2>2. CASE close
    BY <2>2 DEF close, notify_all
  <2>3. CASE clear
    BY <2>3 DEF clear, consumerVars
  <2>4. ASSUME NEW c \in Consumers, Enter(c) PROVE SleepInv'
    BY <2>4, TurnKeepsSleepInv DEF Enter
  <2>5. ASSUME NEW c \in Consumers, Resume(c) PROVE SleepInv'
    <3>1. call[c] \in Calls
      BY DEF TypeOK
    <3>2. QED
      BY <2>5, <3>1, TurnKeepsSleepInv DEF Resume
  <2>6. ASSUME NEW c \in Consumers, SpuriousWakeup(c) \/ DeadlinePasses(c)
        PROVE  SleepInv'
    BY <2>6 DEF SpuriousWakeup, DeadlinePasses
  <2>7. CASE PushIgnored \/ UNCHANGED vars
    BY <2>7 DEF PushIgnored, vars
  <2>8. QED
    BY <2>1, <2>2, <2>3, <2>4, <2>5, <2>6, <2>7 DEF Next
<1>3. QED
  BY <1>1, <1>2, TypeInvariant, PTL DEF Spec

\* No wake-up is lost, however many consumers there are, whatever the sizes of
\* the batches and whichever sleeper each notification picks.
THEOREM NoLostWakeup == Spec => []NoStrandedConsumer
<1>1. SleepInv => NoStrandedConsumer
  BY DEF SleepInv
<1>2. QED
  BY <1>1, SleepInvariant, PTL

\* Nobody sleeps on a closed queue.
THEOREM ClosedWakesAll == Spec => []NobodySleepsWhenClosed
<1>1. SleepInv => NobodySleepsWhenClosed
  BY DEF SleepInv
<1>2. QED
  BY <1>1, SleepInvariant, PTL

\* After close() no item enters the queue and none leaves it for a consumer.
THEOREM ClosedFinality == Spec => ClosedIsFinal
<1>1. ASSUME [Next]_vars
      PROVE  [closed => /\ closed' /\ delivered' = delivered
                        /\ queue' \in {queue, <<>>}]_vars
  <2>1. CASE \E n \in 1 .. MaxBatch : push_back_all(n) \/ push_front_all(n)
    BY <2>1 DEF push_back_all, push_front_all
  <2>2. CASE PushIgnored \/ close \/ clear \/ UNCHANGED vars
    BY <2>2 DEF PushIgnored, close, clear, vars
  <2>3. ASSUME NEW c \in Consumers, Enter(c) \/ Resume(c), closed
        PROVE  closed' /\ delivered' = delivered /\ queue' = queue
    BY <2>3 DEF Enter, Resume, wait_and_pop_internal, ThrowClosed, Deliver,
                ThrowTimeout, Sleep
  <2>4. CASE \E c \in Consumers : SpuriousWakeup(c) \/ DeadlinePasses(c)
    BY <2>4 DEF SpuriousWakeup, DeadlinePasses
  <2>5. QED
    BY <1>1, <2>1, <2>2, <2>3, <2>4 DEF Next
<1>2. QED
  BY <1>1, PTL DEF Spec, ClosedIsFinal

-----------------------------------------------------------------------------
\* The items that were handed out, then those still queued.
All == delivered \o queue

Distinct(s) == \A i, j \in DOMAIN s : i # j => s[i] # s[j]

\* The members of B lie in s in their order.
Ordered(s, B) == \A i, j \in DOMAIN s : i < j /\ s[i] \in B /\ s[j] \in B => s[i] < s[j]

OrderInv == Distinct(All) /\ Ordered(All, atBack)

LEMMA AllType == TypeOK => All \in Seq(1 .. pushed) /\ pushed \in Nat
BY ConcatProperties DEF TypeOK, All

\* t is old with the n new items p + 1 .. p + n after the first a of its a + c.
Spliced(old, t, a, n, c, p) ==
  /\ DOMAIN old = 1 .. a + c /\ DOMAIN t = 1 .. a + n + c
  /\ \A i \in 1 .. a + c : old[i] \in 1 .. p
  /\ \A i \in 1 .. a : t[i] = old[i]
  /\ \A i \in 1 .. n : t[a + i] = p + i
  /\ \A i \in 1 .. c : t[a + n + i] = old[a + i]

\* New items keep the others distinct and in order; behind them all they are in
\* order too.
LEMMA NewItemsBetween ==
  ASSUME NEW a \in Nat, NEW c \in Nat, NEW n \in Nat, NEW p \in Nat, NEW old, NEW t,
         Spliced(old, t, a, n, c, p),
         NEW B \in SUBSET (1 .. p), Distinct(old), Ordered(old, B)
  PROVE  /\ Distinct(t) /\ Ordered(t, B)
         /\ c = 0 => Ordered(t, B \cup (p + 1 .. p + n))
<1> USE DEF Spliced
<1>1. ASSUME NEW i \in 1 .. a + n + c
      PROVE  \/ i <= a /\ i \in 1 .. a + c /\ t[i] = old[i]
             \/ i > a /\ i <= a + n /\ t[i] = p + (i - a)
             \/ i > a + n /\ i - n \in 1 .. a + c /\ t[i] = old[i - n]
  <2>1. CASE i <= a
    BY <2>1
  <2>2. CASE i > a /\ i <= a + n
    <3>1. (i - a) \in 1 .. n /\ a + (i - a) = i
      BY <2>2
    <3>2. QED
      BY <2>2, <3>1
  <2>3. CASE i > a + n
    <3>1. /\ (i - a - n) \in 1 .. c /\ a + n + (i - a - n) = i
          /\ a + (i - a - n) = i - n /\ i - n \in 1 .. a + c
      BY <2>3
    <3>2. QED
      BY <2>3, <3>1
  <2>4. QED
    BY <2>1, <2>2, <2>3
<1>2. ASSUME NEW i \in 1 .. a + n + c, NEW j \in 1 .. a + n + c, i < j
      PROVE  t[i] # t[j]
  <2>1. \A k, m \in 1 .. a + c : k # m => old[k] # old[m]
    BY DEF Distinct
  <2>2. QED
    BY <1>1, <1>2, <2>1
<1>3. Distinct(t)
  BY <1>2 DEF Distinct
<1>4. \A k, m \in 1 .. a + c : k < m /\ old[k] \in B /\ old[m] \in B => old[k] < old[m]
  BY DEF Ordered
<1>5. ASSUME NEW i \in 1 .. a + n + c, NEW j \in 1 .. a + n + c, i < j, t[i] \in B, t[j] \in B
      PROVE  t[i] < t[j]
  BY <1>1, <1>4, <1>5
<1>6. ASSUME c = 0, NEW i \in 1 .. a + n, NEW j \in 1 .. a + n, i < j,
             t[i] \in B \cup (p + 1 .. p + n), t[j] \in B \cup (p + 1 .. p + n)
      PROVE  t[i] < t[j]
  <2>1. i <= a => t[i] \in 1 .. p /\ t[i] \in B
    BY <1>6, <1>1
  <2>2. j <= a => t[j] \in 1 .. p /\ t[j] \in B
    BY <1>6, <1>1
  <2>3. i > a => t[i] = p + (i - a)
    BY <1>6, <1>1
  <2>4. j > a => t[j] = p + (j - a)
    BY <1>6, <1>1
  <2>5. QED
    BY <1>5, <1>6, <2>1, <2>2, <2>3, <2>4
<1>7. QED
  BY <1>3, <1>5, <1>6 DEF Ordered

\* A pushed batch as a sequence.
LEMMA BatchItems ==
  ASSUME pushed \in Nat, NEW n \in Nat, NEW s \in Seq(1 .. pushed)
  PROVE  /\ Batch(n) \in Seq(1 .. pushed + n) /\ s \in Seq(1 .. pushed + n)
         /\ Len(Batch(n)) = n /\ \A i \in 1 .. n : Batch(n)[i] = pushed + i
<1>1. 1 .. pushed \subseteq 1 .. pushed + n
  OBVIOUS
<1>2. Len(Batch(n)) = n /\ \A i \in 1 .. n : Batch(n)[i] = pushed + i
  BY DEF Batch
<1>3. QED
  BY <1>1, <1>2, BatchType, SeqMonotonic

\* The concatenation of two sequences, by the places of its items.
LEMMA ConcatItems ==
  ASSUME NEW S, NEW s \in Seq(S), NEW t \in Seq(S)
  PROVE  /\ s \o t \in Seq(S)
         /\ Len(s) \in Nat /\ Len(t) \in Nat /\ Len(s \o t) = Len(s) + Len(t)
         /\ DOMAIN (s \o t) = 1 .. Len(s) + Len(t)
         /\ \A i \in 1 .. Len(s) : (s \o t)[i] = s[i]
         /\ \A i \in 1 .. Len(t) : (s \o t)[Len(s) + i] = t[i]
<1>1. Len(s) \in Nat /\ Len(t) \in Nat
  BY LenProperties
<1>2. /\ s \o t \in Seq(S) /\ Len(s \o t) = Len(s) + Len(t)
      /\ \A i \in 1 .. Len(s) + Len(t) :
            (s \o t)[i] = IF i <= Len(s) THEN s[i] ELSE t[i - Len(s)]
  BY ConcatProperties
<1>3. DOMAIN (s \o t) = 1 .. Len(s) + Len(t)
  BY <1>2, LenProperties
<1>4. ASSUME NEW i \in 1 .. Len(t) PROVE (s \o t)[Len(s) + i] = t[i]
  <2>1. Len(s) + i \in 1 .. Len(s) + Len(t) /\ ~(Len(s) + i <= Len(s)) /\ (Len(s) + i) - Len(s) = i
    BY <1>1
  <2>2. QED
    BY <1>2, <2>1
<1>5. ASSUME NEW i \in 1 .. Len(s) PROVE (s \o t)[i] = s[i]
  BY <1>1, <1>2
<1>6. QED
  BY <1>1, <1>2, <1>3, <1>4, <1>5

\* A batch behind everything: its items are new, rising and larger than all
\* the others.
LEMMA BatchBehind ==
  ASSUME NEW s \in Seq(1 .. pushed), pushed \in Nat, NEW n \in Nat,
         NEW B \in SUBSET (1 .. pushed), Distinct(s), Ordered(s, B)
  PROVE  /\ Distinct(s \o Batch(n))
         /\ Ordered(s \o Batch(n), B \cup (pushed + 1 .. pushed + n))
<1>1. /\ Len(s) \in Nat /\ DOMAIN s = 1 .. Len(s)
      /\ \A i \in 1 .. Len(s) : s[i] \in 1 .. pushed
  BY LenProperties, ElementOfSeq
<1>2. /\ Batch(n) \in Seq(1 .. pushed + n) /\ s \in Seq(1 .. pushed + n)
      /\ Len(Batch(n)) = n /\ \A i \in 1 .. n : Batch(n)[i] = pushed + i
  BY BatchItems
<1> DEFINE t == s \o Batch(n)
<1>3. /\ DOMAIN t = 1 .. Len(s) + Len(Batch(n))
      /\ \A i \in 1 .. Len(s) : t[i] = s[i]
      /\ \A i \in 1 .. Len(Batch(n)) : t[Len(s) + i] = Batch(n)[i]
  <2> DEFINE S == 1 .. pushed + n
  <2>1. s \in Seq(S) /\ Batch(n) \in Seq(S)
    BY <1>2
  <2> HIDE DEF S
  <2>2. QED
    BY <2>1, ConcatItems
<1> HIDE DEF t
<1>4. DOMAIN s = 1 .. Len(s) + 0 /\ DOMAIN t = 1 .. Len(s) + n + 0
  BY <1>1, <1>2, <1>3
<1>5. \A i \in 1 .. n : t[Len(s) + i] = pushed + i
  BY <1>1, <1>2, <1>3
<1>5a. Spliced(s, t, Len(s), n, 0, pushed)
  <2>1. 1 .. 0 = {} /\ Len(s) + 0 = Len(s)
    BY <1>1
  <2>2. QED
    BY <1>1, <1>3, <1>4, <1>5, <2>1 DEF Spliced
<1>6. Distinct(t) /\ Ordered(t, B \cup (pushed + 1 .. pushed + n))
  BY <1>1, <1>5a, NewItemsBetween
<1>7. QED
  BY <1>6 DEF t

\* A batch between what was handed out and what is queued: its items are new
\* and were not pushed at the back.
LEMMA BatchBefore ==
  ASSUME NEW s \in Seq(1 .. pushed), NEW u \in Seq(1 .. pushed), pushed \in Nat,
         NEW n \in Nat, NEW B \in SUBSET (1 .. pushed),
         Distinct(s \o u), Ordered(s \o u, B)
  PROVE  Distinct(s \o (Batch(n) \o u)) /\ Ordered(s \o (Batch(n) \o u), B)
<1> DEFINE old == s \o u
           b == Batch(n) \o u
           t == s \o b
<1>1. /\ Batch(n) \in Seq(1 .. pushed + n) /\ s \in Seq(1 .. pushed + n)
      /\ Len(Batch(n)) = n /\ \A i \in 1 .. n : Batch(n)[i] = pushed + i
  BY BatchItems
<1>2. u \in Seq(1 .. pushed + n)
  BY BatchItems
<1>3. /\ old \in Seq(1 .. pushed) /\ Len(s) \in Nat /\ Len(u) \in Nat
      /\ DOMAIN old = 1 .. Len(s) + Len(u) /\ Len(old) = Len(s) + Len(u)
      /\ \A i \in 1 .. Len(s) : old[i] = s[i]
      /\ \A i \in 1 .. Len(u) : old[Len(s) + i] = u[i]
  BY ConcatItems
<1>4. \A i \in 1 .. Len(s) + Len(u) : old[i] \in 1 .. pushed
  BY <1>3, ElementOfSeq
<1>5. /\ b \in Seq(1 .. pushed + n) /\ Len(b) = n + Len(u)
      /\ \A i \in 1 .. n : b[i] = pushed + i
      /\ \A i \in 1 .. Len(u) : b[n + i] = u[i]
  <2>1. /\ b \in Seq(1 .. pushed + n) /\ Len(b) = Len(Batch(n)) + Len(u)
        /\ \A i \in 1 .. Len(Batch(n)) : b[i] = Batch(n)[i]
        /\ \A i \in 1 .. Len(u) : b[Len(Batch(n)) + i] = u[i]
    <3> DEFINE S == 1 .. pushed + n
    <3>1. u \in Seq(S) /\ Batch(n) \in Seq(S)
      BY <1>1, <1>2
    <3> HIDE DEF S
    <3>2. b \in Seq(S)
      BY <3>1, ConcatItems
    <3>3. QED
      BY <3>1, <3>2, ConcatItems DEF S
  <2> HIDE DEF b
  <2>2. QED
    BY <1>1, <2>1
<1> HIDE DEF old, b
<1>6. /\ DOMAIN t = 1 .. Len(s) + Len(b)
      /\ \A i \in 1 .. Len(s) : t[i] = s[i]
      /\ \A i \in 1 .. Len(b) : t[Len(s) + i] = b[i]
  <2> DEFINE S == 1 .. pushed + n
  <2>1. s \in Seq(S) /\ b \in Seq(S)
    BY <1>1, <1>5
  <2> HIDE DEF S
  <2>2. QED
    BY <2>1, ConcatItems
<1> HIDE DEF t
<1>7. /\ DOMAIN t = 1 .. Len(s) + n + Len(u)
      /\ \A i \in 1 .. Len(s) : t[i] = old[i]
  BY <1>3, <1>5, <1>6
<1>8. ASSUME NEW i \in 1 .. n PROVE t[Len(s) + i] = pushed + i
  BY <1>3, <1>5, <1>6
<1>9. ASSUME NEW i \in 1 .. Len(u) PROVE t[Len(s) + n + i] = old[Len(s) + i]
  <2>1. n + i \in 1 .. Len(b) /\ Len(s) + n + i = Len(s) + (n + i)
    BY <1>3, <1>5
  <2>2. t[Len(s) + (n + i)] = b[n + i]
    BY <1>6, <2>1
  <2>3. QED
    BY <1>3, <1>5, <2>1, <2>2
<1>10. Distinct(old) /\ Ordered(old, B)
  BY DEF old
<1>11. Spliced(old, t, Len(s), n, Len(u), pushed)
  BY <1>3, <1>4, <1>7, <1>8, <1>9 DEF Spliced
<1>11a. Distinct(t) /\ Ordered(t, B)
  BY <1>3, <1>10, <1>11, NewItemsBetween
<1>12. QED
  BY <1>11a DEF t, b

\* What a consumer takes from the front of the queue goes behind what was
\* handed out before: the items altogether stay as they are.
LEMMA DeliverKeepsAll ==
  ASSUME TypeOK, NEW c, NEW amount, Deliver(c, amount)
  PROVE  All' = All
<1> DEFINE n == IF amount = "one" THEN 1 ELSE Len(queue)
           head == SubSeq(queue, 1, n)
           tail == SubSeq(queue, n + 1, Len(queue))
<1>1. /\ queue \in Seq(1 .. pushed) /\ delivered \in Seq(1 .. pushed)
      /\ n \in 1 .. Len(queue)
  BY DEF TypeOK, Deliver
<1>2. queue' = tail /\ delivered' = delivered \o head
  BY DEF Deliver
<1>3. head \in Seq(1 .. pushed) /\ tail \in Seq(1 .. pushed)
  <2> HIDE DEF n
  <2>1. \A i \in 1 .. Len(queue) : queue[i] \in 1 .. pushed
    BY <1>1, ElementOfSeq
  <2>2. /\ \A i \in 1 .. n : queue[i] \in 1 .. pushed
        /\ \A i \in n + 1 .. Len(queue) : queue[i] \in 1 .. pushed
        /\ n \in Int /\ n + 1 \in Int /\ Len(queue) \in Int
    BY <1>1, <2>1, LenProperties
  <2>3. QED
    BY <2>2, SubSeqProperties
<1>4. head \o tail = queue
  <2> HIDE DEF n
  <2>1. 1 \in 1 .. Len(queue) + 1 /\ n \in 0 .. Len(queue) /\ Len(queue) \in n .. Len(queue)
    BY <1>1, LenProperties
  <2>2. head \o tail = SubSeq(queue, 1, Len(queue))
    BY <1>1, <2>1, ConcatAdjacentSubSeq
  <2>3. QED
    BY <1>1, <2>2, SubSeqFull
<1> HIDE DEF n, head, tail
<1>5. (delivered \o head) \o tail = delivered \o (head \o tail)
  <2> DEFINE S == 1 .. pushed
  <2>1. delivered \in Seq(S) /\ head \in Seq(S) /\ tail \in Seq(S)
    BY <1>1, <1>3
  <2> HIDE DEF S
  <2>2. QED
    BY <2>1, ConcatAssociative
<1>6. QED
  BY <1>2, <1>4, <1>5 DEF All

\* A turn at the mutex moves items but neither drops nor reorders them.
LEMMA TurnKeepsAll ==
  ASSUME TypeOK, NEW c, NEW request, wait_and_pop_internal(c, request)
  PROVE  All' = All /\ atBack' = atBack
<1>1. CASE Deliver(c, request.amount)
  BY <1>1, DeliverKeepsAll DEF wait_and_pop_internal
<1>2. CASE ThrowClosed(c) \/ ThrowTimeout(c, request.wait) \/ Sleep(c, request)
  BY <1>2 DEF wait_and_pop_internal, ThrowClosed, ThrowTimeout, Sleep, All
<1>3. QED
  BY <1>1, <1>2 DEF wait_and_pop_internal

\* Every operation keeps the items distinct and those of the back in order.
LEMMA OrderInvariant == Spec => []OrderInv
<1>1. Init => OrderInv
  <2>1. ASSUME Init PROVE All = <<>>
    <3>1. delivered = <<>> /\ queue = <<>>
      BY <2>1 DEF Init
    <3>2. <<>> \o <<>> = <<>>
      BY EmptySeq, ConcatEmptySeq
    <3>3. QED
      BY <3>1, <3>2 DEF All
  <2>2. DOMAIN <<>> = {}
    OBVIOUS
  <2>3. QED
    BY <2>1, <2>2 DEF OrderInv, Distinct, Ordered
<1>2. TypeOK /\ OrderInv /\ [Next]_vars => OrderInv'
  <2> SUFFICES ASSUME TypeOK, OrderInv, [Next]_vars
               PROVE  OrderInv'
    OBVIOUS
  <2>0. /\ All \in Seq(1 .. pushed) /\ pushed \in Nat
        /\ delivered \in Seq(1 .. pushed) /\ queue \in Seq(1 .. pushed)
        /\ atBack \in SUBSET (1 .. pushed)
        /\ Distinct(All) /\ Ordered(All, atBack)
    BY AllType DEF TypeOK, OrderInv
  <2>1. ASSUME NEW n \in 1 .. MaxBatch, push_back_all(n) PROVE OrderInv'
    <3>1. n \in Nat
      BY QueueAssumption
    <3>2. /\ queue' = queue \o Batch(n) /\ delivered' = delivered
          /\ atBack' = atBack \cup (pushed + 1 .. pushed + n)
      BY <2>1 DEF push_back_all
    <3>3. All' = All \o Batch(n)
      <4> DEFINE S == 1 .. pushed + n
      <4>1. queue \in Seq(S) /\ delivered \in Seq(S) /\ Batch(n) \in Seq(S)
        BY <2>0, <3>1, BatchItems
      <4> HIDE DEF S
      <4>2. (delivered \o queue) \o Batch(n) = delivered \o (queue \o Batch(n))
        BY <4>1, ConcatAssociative
      <4>3. QED
        BY <3>2, <4>2 DEF All
    <3>4. QED
      BY <2>0, <3>1, <3>2, <3>3, BatchBehind DEF OrderInv
  <2>2. ASSUME NEW n \in 1 .. MaxBatch, push_front_all(n) PROVE OrderInv'
    <3>1. n \in Nat
      BY QueueAssumption
    <3>2. /\ queue' = Batch(n) \o queue /\ delivered' = delivered /\ atBack' = atBack
      BY <2>2 DEF push_front_all
    <3>3. All' = delivered \o (Batch(n) \o queue)
      BY <3>2 DEF All
    <3>4. QED
      BY <2>0, <3>1, <3>2, <3>3, BatchBefore DEF OrderInv, All
  <2>3. CASE clear
    <3>1. queue' = <<>> /\ delivered' = delivered /\ atBack' = atBack
      BY <2>3 DEF clear
    <3>2. All' = delivered
      BY <2>0, <3>1, ConcatEmptySeq DEF All
    <3>3. /\ DOMAIN All = 1 .. Len(delivered) + Len(queue)
          /\ DOMAIN delivered = 1 .. Len(delivered)
          /\ Len(delivered) \in Nat /\ Len(queue) \in Nat
          /\ \A i \in 1 .. Len(delivered) : All[i] = delivered[i]
      BY <2>0, ConcatItems, LenProperties DEF All
    <3>4. \A i \in DOMAIN delivered : i \in DOMAIN All /\ All[i] = delivered[i]
      BY <3>3
    <3>5. Distinct(delivered) /\ Ordered(delivered, atBack)
      BY <2>0, <3>4 DEF Distinct, Ordered
    <3>6. QED
      BY <3>1, <3>2, <3>5 DEF OrderInv
  <2>4. ASSUME NEW c \in Consumers, Enter(c) \/ Resume(c) PROVE OrderInv'
    BY <2>4, TurnKeepsAll DEF Enter, Resume, OrderInv
  <2>5. CASE \/ PushIgnored \/ close \/ UNCHANGED vars
             \/ \E c \in Consumers : SpuriousWakeup(c) \/ DeadlinePasses(c)
    <3>1. queue' = queue /\ delivered' = delivered /\ atBack' = atBack
      BY <2>5 DEF PushIgnored, close, vars, SpuriousWakeup, DeadlinePasses
    <3>2. QED
      BY <3>1 DEF OrderInv, All
  <2>6. QED
    BY <2>1, <2>2, <2>3, <2>4, <2>5 DEF Next
<1>3. QED
  BY <1>1, <1>2, TypeInvariant, PTL DEF Spec

\* Whatever is pushed at either end, in whatever batches, and whoever takes one
\* item or all of them: no item is handed out twice or handed out and kept.
THEOREM NothingTwice == Spec => []NoDuplicates
<1>1. OrderInv => NoDuplicates
  BY DEF OrderInv, Distinct, All, NoDuplicates
<1>2. QED
  BY <1>1, OrderInvariant, PTL

\* The items pushed at the back are handed out in the order of their pushes.
THEOREM FirstInFirstOut == Spec => []BackIsFifo
<1>1. OrderInv => BackIsFifo
  BY DEF OrderInv, Ordered, All, BackIsFifo
<1>2. QED
  BY <1>1, OrderInvariant, PTL
=============================================================================
