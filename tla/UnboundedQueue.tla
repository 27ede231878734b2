---------------------------- MODULE UnboundedQueue ----------------------------
(***************************************************************************)
(* The queue between threads of UnboundedQueue.hpp.  It comes in two       *)
(* classes with one protocol: TUnboundedQueueForNonThrowMovable moves one  *)
(* item or all of them, TUnboundedQueue_ splices whole batches.            *)
(*                                                                         *)
(* Every method runs under _lockQueue from its first line to its last, so  *)
(* it is one step, except that a consumer gives the mutex up while it      *)
(* sleeps on _pushToQueue.  A consumer is idle, in `blocked' (asleep on    *)
(* the condition variable) or in `awake' (woken, about to take the mutex   *)
(* again).  A push notifies ONE sleeper whatever the size of its batch,    *)
(* and each consumer that leaves items behind notifies the next one.       *)
(***************************************************************************)
EXTENDS Naturals, Sequences, FiniteSets

CONSTANTS Consumers,  \* the threads that call the popping methods
          MaxItems,   \* bound on the items ever pushed (the code has none)
          MaxBatch    \* bound on the size of one pushed batch

ASSUME QueueAssumption == MaxItems \in Nat /\ MaxBatch \in Nat

VARIABLES queue,      \* _queue
          closed,     \* _closed
          blocked,    \* the consumers asleep on _pushToQueue
          awake,      \* the consumers woken and not yet holding the mutex
          call,       \* what each consumer asked for
          expired,    \* the timed calls whose deadline has passed
          pushed,     \* how many items were ever accepted: items are 1..pushed
          atBack,     \* the items that were pushed at the back
          delivered   \* the items handed to consumers, in that order

consumerVars == <<blocked, awake, call, expired>>
vars == <<queue, closed, blocked, awake, call, expired, pushed, atBack, delivered>>

\* wait_and_pop sleeps until it is woken, its timed form until a deadline too,
\* pop not at all; each takes one item or all of them.
Calls == [wait : {"untimed", "timed", "now"}, amount : {"one", "all"}]

NoCall == [wait |-> "now", amount |-> "one"]

Inside == blocked \cup awake

-----------------------------------------------------------------------------
(* The condition variable (std::condition_variable). *)

\* notify_one, by a thread that leaves `others' as the woken consumers.
notify_one(others) ==
  \/ /\ blocked = {}
     /\ awake' = others
     /\ UNCHANGED blocked
  \/ \E w \in blocked :
       /\ blocked' = blocked \ {w}
       /\ awake' = others \cup {w}

notify_all ==
  /\ blocked' = {}
  /\ awake' = awake \cup blocked

\* A sleeper may wake without a notification.
SpuriousWakeup(c) ==
  /\ c \in blocked
  /\ blocked' = blocked \ {c}
  /\ awake' = awake \cup {c}
  /\ UNCHANGED <<queue, closed, call, expired, pushed, atBack, delivered>>

\* The deadline of a timed wait is a point in time: it passes once, whether the
\* consumer sleeps or has just been woken, and wakes the one that sleeps.
DeadlinePasses(c) ==
  /\ c \in Inside \ expired
  /\ call[c].wait = "timed"
  /\ expired' = expired \cup {c}
  /\ blocked' = blocked \ {c}
  /\ awake' = awake \cup {c}
  /\ UNCHANGED <<queue, closed, call, pushed, atBack, delivered>>

-----------------------------------------------------------------------------
(* Producers *)

Batch(n) == [i \in 1 .. n |-> pushed + i]

\* Mutant: the test of _closed is missing.
push_back_all_Unguarded(n) ==
  /\ n > 0
  /\ pushed + n <= MaxItems
  /\ queue' = queue \o Batch(n)
  /\ pushed' = pushed + n
  /\ atBack' = atBack \cup (pushed + 1 .. pushed + n)
  /\ notify_one(awake)
  /\ UNCHANGED <<closed, call, expired, delivered>>

\* push_back of either class and push_back_all: a batch behind the queue.
push_back_all(n) ==
  /\ ~closed
  /\ n > 0
  /\ pushed + n <= MaxItems
  /\ queue' = queue \o Batch(n)
  /\ pushed' = pushed + n
  /\ atBack' = atBack \cup (pushed + 1 .. pushed + n)
  /\ notify_one(awake)
  /\ UNCHANGED <<closed, call, expired, delivered>>

\* push_front of either class and push_front_all: a batch before the queue.
push_front_all(n) ==
  /\ ~closed
  /\ n > 0
  /\ pushed + n <= MaxItems
  /\ queue' = Batch(n) \o queue
  /\ pushed' = pushed + n
  /\ notify_one(awake)
  /\ UNCHANGED <<closed, call, expired, atBack, delivered>>

\* An empty batch, or a push after close, returns having done nothing.
PushIgnored == UNCHANGED vars

\* Mutant: close wakes one sleeper, as a push does.
close_NotifyOne ==
  /\ closed' = TRUE
  /\ notify_one(awake)
  /\ UNCHANGED <<queue, call, expired, pushed, atBack, delivered>>

close ==
  /\ closed' = TRUE
  /\ notify_all
  /\ UNCHANGED <<queue, call, expired, pushed, atBack, delivered>>

clear ==
  /\ queue' = <<>>
  /\ UNCHANGED <<closed, consumerVars, pushed, atBack, delivered>>

-----------------------------------------------------------------------------
(* Consumers: one turn at the mutex, for a consumer that calls or was woken *)

\* Mutant: the deadline of a finished call stays.
Leave_KeepsDeadline(c) ==
  /\ call' = [call EXCEPT ![c] = NoCall]
  /\ UNCHANGED expired

\* The call ends, with a result or an exception.
Leave(c) ==
  /\ call' = [call EXCEPT ![c] = NoCall]
  /\ expired' = expired \ {c}

\* The predicate throws TUnboundedQueueClosedException before it looks at the
\* queue, so what is queued when the queue closes stays there.
ThrowClosed(c) ==
  /\ closed
  /\ awake' = awake \ {c}
  /\ Leave(c)
  /\ UNCHANGED <<queue, blocked, delivered>>

\* Mutant: no TExceptionSafety.
Deliver_NoBaton(c, amount) ==
  LET n == IF amount = "one" THEN 1 ELSE Len(queue)
  IN  /\ ~closed
      /\ queue # <<>>
      /\ queue' = SubSeq(queue, n + 1, Len(queue))
      /\ delivered' = delivered \o SubSeq(queue, 1, n)
      /\ awake' = awake \ {c}
      /\ UNCHANGED blocked
      /\ Leave(c)

\* Mutant: moveAllDataFromQueue leaves the last item behind.
Deliver_KeepsLast(c, amount) ==
  LET n == IF amount = "one" THEN 1 ELSE Len(queue)
      m == IF amount = "one" THEN 1 ELSE Len(queue) - 1
  IN  /\ ~closed
      /\ queue # <<>>
      /\ queue' = SubSeq(queue, m + 1, Len(queue))
      /\ delivered' = delivered \o SubSeq(queue, 1, n)
      /\ IF queue' # <<>> THEN notify_one(awake \ {c})
                          ELSE awake' = awake \ {c} /\ UNCHANGED blocked
      /\ Leave(c)

\* Mutant: one item is taken from the back.
Deliver_FromBack(c, amount) ==
  LET n == IF amount = "one" THEN Len(queue) ELSE 1
  IN  /\ ~closed
      /\ queue # <<>>
      /\ queue' = SubSeq(queue, 1, n - 1)
      /\ delivered' = delivered \o SubSeq(queue, n, Len(queue))
      /\ IF queue' # <<>> THEN notify_one(awake \ {c})
                          ELSE awake' = awake \ {c} /\ UNCHANGED blocked
      /\ Leave(c)

\* moveDataFromQueueFront or moveAllDataFromQueue; then the destructor of
\* TExceptionSafety passes the wake-up on if items are left.
Deliver(c, amount) ==
  LET n == IF amount = "one" THEN 1 ELSE Len(queue)
  IN  /\ ~closed
      /\ queue # <<>>
      /\ queue' = SubSeq(queue, n + 1, Len(queue))
      /\ delivered' = delivered \o SubSeq(queue, 1, n)
      /\ IF queue' # <<>> THEN notify_one(awake \ {c})
                          ELSE awake' = awake \ {c} /\ UNCHANGED blocked
      /\ Leave(c)

\* Nothing to take: pop at once, and a timed wait after its deadline, throw
\* TUnboundedQueueTimeoutException (which pop_all_or_empty turns into an empty
\* list).
ThrowTimeout(c, wait) ==
  /\ ~closed
  /\ queue = <<>>
  /\ wait = "now" \/ c \in expired
  /\ awake' = awake \ {c}
  /\ Leave(c)
  /\ UNCHANGED <<queue, blocked, delivered>>

\* Mutant: every wake-up starts the wait anew, without its deadline.
Sleep_Restarted(c, request) ==
  /\ ~closed
  /\ queue = <<>>
  /\ request.wait # "now"
  /\ call' = [call EXCEPT ![c] = request]
  /\ blocked' = blocked \cup {c}
  /\ awake' = awake \ {c}
  /\ expired' = expired \ {c}
  /\ UNCHANGED <<queue, delivered>>

\* Nothing to take: a wait goes (back) to sleep.
Sleep(c, request) ==
  /\ ~closed
  /\ queue = <<>>
  /\ request.wait # "now" /\ c \notin expired
  /\ call' = [call EXCEPT ![c] = request]
  /\ blocked' = blocked \cup {c}
  /\ awake' = awake \ {c}
  /\ UNCHANGED <<queue, expired, delivered>>

wait_and_pop_internal(c, request) ==
  /\ \/ ThrowClosed(c)
     \/ Deliver(c, request.amount)
     \/ ThrowTimeout(c, request.wait)
     \/ Sleep(c, request)
  /\ UNCHANGED <<closed, pushed, atBack>>

\* A call of wait_and_pop, wait_and_pop_all, pop, pop_all or pop_all_or_empty.
Enter(c) ==
  /\ c \notin Inside
  /\ \E request \in Calls : wait_and_pop_internal(c, request)

\* A woken consumer has the mutex again and re-evaluates the predicate.
Resume(c) ==
  /\ c \in awake
  /\ wait_and_pop_internal(c, call[c])

-----------------------------------------------------------------------------
Init ==
  /\ queue = <<>>
  /\ closed = FALSE
  /\ blocked = {}
  /\ awake = {}
  /\ call = [c \in Consumers |-> NoCall]
  /\ expired = {}
  /\ pushed = 0
  /\ atBack = {}
  /\ delivered = <<>>

Next ==
  \/ \E n \in 1 .. MaxBatch : push_back_all(n) \/ push_front_all(n)
  \/ PushIgnored
  \/ close
  \/ clear
  \/ \E c \in Consumers :
       \/ Enter(c)
       \/ Resume(c)
       \/ SpuriousWakeup(c)
       \/ DeadlinePasses(c)

\* A woken consumer gets the mutex some time (every critical section is short
\* and ends), and time passes.  Nothing obliges a thread to call a method.
Fairness ==
  \A c \in Consumers : WF_vars(Resume(c)) /\ WF_vars(DeadlinePasses(c))

Spec == Init /\ [][Next]_vars /\ Fairness

-----------------------------------------------------------------------------
(* Properties *)

\* Types; a consumer is never asleep and woken at once.
TypeOK ==
  /\ queue \in Seq(1 .. pushed)
  /\ closed \in BOOLEAN
  /\ blocked \subseteq Consumers
  /\ awake \subseteq Consumers
  /\ blocked \cap awake = {}
  /\ call \in [Consumers -> Calls]
  /\ expired \subseteq awake
  /\ pushed \in Nat
  /\ atBack \subseteq 1 .. pushed
  /\ delivered \in Seq(1 .. pushed)

\* No lost wake-up: while items are queued, consumers sleep only if one that
\* was woken is on its way to the mutex.  One notification per batch is enough
\* because wait_and_pop_internal passes it on.
NoStrandedConsumer ==
  queue # <<>> /\ blocked # {} => awake # {}

\* close() reaches every sleeper, and nobody falls asleep on a closed queue.
NobodySleepsWhenClosed == closed => blocked = {}

\* No item is handed out twice or both handed out and still queued, through
\* both ends, batches, and consumers that take one item or all of them.
NoDuplicates ==
  LET all == delivered \o queue
  IN  \A i, j \in DOMAIN all : i # j => all[i] # all[j]

\* Items pushed at the back are handed out in the order of the pushes,
\* whichever consumers take them and whatever is pushed at the front.
BackIsFifo ==
  LET all == delivered \o queue
  IN  \A i, j \in DOMAIN all :
        i < j /\ all[i] \in atBack /\ all[j] \in atBack => all[i] < all[j]

\* Closing is final: afterwards nothing enters the queue and nothing leaves it
\* for a consumer; clear() alone may still discard what it holds.
ClosedIsFinal ==
  [][closed => closed' /\ delivered' = delivered /\ queue' \in {queue, <<>>}]_vars

\* "Sends TUnboundedQueueClosedException to everyone waiting": each consumer
\* inside when the queue closes gets out.
CloseReleasesEveryone ==
  \A c \in Consumers : closed /\ c \in Inside ~> c \notin Inside

\* A timed wait ends, however often it is woken for nothing.
TimedWaitEnds ==
  \A c \in Consumers :
    c \in Inside /\ call[c].wait = "timed" ~> c \notin Inside

\* Queued items do not wait for a further push: with a consumer asleep they
\* are taken (or cleared, or the queue closes) or the sleepers are all served.
ItemsReachSleepers ==
  queue # <<>> /\ blocked # {} ~> queue = <<>> \/ blocked = {}
=============================================================================
