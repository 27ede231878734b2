--------------------------- MODULE LimitedScheduler ---------------------------
(***************************************************************************)
(* The task scheduler of Tx/PplxSchedulers: LimitedScheduler.cpp and the   *)
(* bounded_concurrent_queue.hpp it keeps its tasks in.                     *)
(*                                                                         *)
(* A task runs on a level: 0 when an outside thread schedules it, 1 when a *)
(* task of level 0 does.  Each level has a queue, a condition variable and *)
(* at most Limit worker threads of its own, so tasks of level 0 may wait   *)
(* for the tasks they start.  Tasks are alike and are only counted.        *)
(*                                                                         *)
(* No notification is sent under the mutex of the thread it is meant for,  *)
(* so a thread that has just decided to sleep can miss it.  The model      *)
(* keeps that window: `falling' and `filling' stand between the decision   *)
(* and the sleep, and the history variables `missed' and `missedFull'      *)
(* record the levels at which a notification fell into it.                 *)
(***************************************************************************)
EXTENDS Naturals, Sequences, FiniteSets

CONSTANTS Clients,   \* outside threads that call schedule
          Threads,   \* the identities of worker threads
          First,     \* the workers the constructor makes, one for each level
          Nobody,    \* no thread
          Limit,     \* _limits[i], the same for both levels
          MaxQueue,  \* max_size of the task queues (256)
          MaxTasks,  \* bound on the calls of schedule
          MaxClose   \* bound on the calls of close: none or one

Levels == {0, 1}     \* maxLevelCount = 2

ASSUME SchedulerAssumption ==
  /\ Clients \cap Threads = {} /\ Nobody \notin Threads
  /\ First \in [Levels -> Threads] /\ First[0] # First[1]
  /\ Limit \in Nat \ {0} /\ MaxQueue \in Nat \ {0} /\ MaxTasks \in Nat
  /\ MaxClose \in {0, 1}

ASSUME FiniteClients == IsFiniteSet(Clients)

VARIABLES pc,          \* where each client and worker is
          level,       \* the level of each worker that was ever made
          registered,  \* the workers in _levelThreads; they are never removed
          working,     \* those whose _stateThreads entry is `working'
          handles,     \* _threads: the workers close() has yet to join
          tasks,       \* the number of tasks in each queue
          issued,      \* the calls of schedule so far
          isCancel,
          closing,     \* where close() is
          joining,     \* the worker it is joining
          missed,      \* history, see above
          missedFull,
          spurious,    \* history: the levels where a producer woke for nothing since
                       \* their queue last had room
          overlap      \* history: close() began while a client was in schedule

workerVars == <<level, registered, working, handles>>
closeVars  == <<isCancel, closing, joining, overlap>>
vars == <<pc, workerVars, tasks, issued, closeVars, missed, missedFull, spurious>>

isClosed == closing = "closed"

Workers(l) == {t \in Threads : pc[t] # "none" /\ level[t] = l}

\* The level of what x schedules; a worker of level 1 is refused.
LevelOf(x) == IF x \in Clients THEN 0 ELSE 1

\* Those in schedule, at one of the places `at', for a task of level l.
Scheduling(l, at) == {x \in Clients \cup Threads : LevelOf(x) = l /\ pc[x] \in at}

FullLevels(q) == {l \in Levels : q[l] >= MaxQueue}

Goto(x, place) == pc' = [pc EXCEPT ![x] = place]

-----------------------------------------------------------------------------
(* schedule(), by a client or by a worker of level 0 that runs a task *)

\* The tests of _isClosed, of the level and of _isCancel.  A call they refuse
\* throws and changes nothing.
schedule(x) ==
  /\ issued < MaxTasks
  /\ \/ x \in Clients /\ pc[x] = "idle" /\ ~isCancel
     \/ x \in Workers(0) /\ pc[x] = "run" /\ ~isClosed
  /\ issued' = issued + 1
  /\ Goto(x, "check")
  /\ UNCHANGED <<workerVars, tasks, closeVars, missed, missedFull, spurious>>

\* Mutant: the queue counts as full one task too late.
CheckSize_OneMore(x) ==
  /\ pc[x] = "check"
  /\ Goto(x, IF tasks[LevelOf(x)] > MaxQueue THEN "filling" ELSE "put")
  /\ UNCHANGED <<workerVars, tasks, issued, closeVars, missed, missedFull, spurious>>

\* bounded_concurrent_queue::wait: one look at the size, then perhaps a sleep.
CheckSize(x) ==
  /\ pc[x] = "check"
  /\ Goto(x, IF tasks[LevelOf(x)] >= MaxQueue THEN "filling" ELSE "put")
  /\ UNCHANGED <<workerVars, tasks, issued, closeVars, missed, missedFull, spurious>>

SleepFull(x) ==
  /\ pc[x] = "filling"
  /\ Goto(x, "full")
  /\ UNCHANGED <<workerVars, tasks, issued, closeVars, missed, missedFull, spurious>>

\* A producer woken for nothing pushes all the same: the size is not looked at
\* again.
SpuriousFull(x) ==
  /\ pc[x] = "full"
  /\ Goto(x, "put")
  /\ spurious' = spurious \cup ({LevelOf(x)} \cap FullLevels(tasks))
  /\ UNCHANGED <<workerVars, tasks, issued, closeVars, missed, missedFull>>

Put(x) ==
  /\ pc[x] = "put"
  /\ tasks' = [tasks EXCEPT ![LevelOf(x)] = @ + 1]
  /\ Goto(x, "add")
  /\ UNCHANGED <<workerVars, issued, closeVars, missed, missedFull, spurious>>

\* addThread without the lock: nothing to do when the level is at its limit, has
\* one task at most, or has a worker whose entry says it is free.  The three reads
\* are one step: each way out depends on one of them alone, and a thread that
\* only values of different moments ask for meets the limit under the lock.
CheckThreads(x) ==
  LET l == LevelOf(x)
  IN  /\ pc[x] = "add"
      /\ Goto(x, IF \/ Len(handles[l]) >= Limit
                    \/ tasks[l] <= 1
                    \/ \E t \in registered \ working : level[t] = l
                 THEN "notify" ELSE "make")
      /\ UNCHANGED <<workerVars, tasks, issued, closeVars, missed, missedFull, spurious>>

\* makeThread.  The new thread touches nothing that the push of its handle reads.
makeThread(x, t) ==
  LET l == LevelOf(x)
  IN  /\ pc[t] = "none"
      /\ pc' = [pc EXCEPT ![x] = "notify", ![t] = "start"]
      /\ level' = [level EXCEPT ![t] = l]
      /\ handles' = [handles EXCEPT ![l] = Append(@, t)]
      /\ UNCHANGED <<registered, working>>

\* Mutant: the limit is not checked again under the lock.
addThread_Once(x) ==
  /\ pc[x] = "make"
  /\ \/ \E t \in Threads : makeThread(x, t)
     \/ Goto(x, "notify") /\ UNCHANGED workerVars
  /\ UNCHANGED <<tasks, issued, closeVars, missed, missedFull, spurious>>

\* addThread under the lock: the limit is checked again.  A failure to start a
\* thread is swallowed.
addThread(x) ==
  /\ pc[x] = "make"
  /\ \/ Len(handles[LevelOf(x)]) < Limit /\ \E t \in Threads : makeThread(x, t)
     \/ Goto(x, "notify") /\ UNCHANGED workerVars
  /\ UNCHANGED <<tasks, issued, closeVars, missed, missedFull, spurious>>

Missed(l) == IF \E t \in Workers(l) : pc[t] = "falling" THEN missed \cup {l} ELSE missed

\* Mutant: only the first task of an empty queue is announced.
notify_one_FirstTask(x) ==
  LET l      == LevelOf(x)
      back   == IF x \in Clients THEN "idle" ELSE "run"
      asleep == {t \in Workers(l) : pc[t] = "asleep"}
  IN  /\ pc[x] = "notify"
      /\ \/ (asleep = {} \/ tasks[l] # 1) /\ Goto(x, back)
         \/ tasks[l] = 1 /\ \E t \in asleep : pc' = [pc EXCEPT ![x] = back, ![t] = "test"]
      /\ missed' = Missed(l)
      /\ UNCHANGED <<workerVars, tasks, issued, closeVars, missedFull, spurious>>

\* schedule's last line, and back to the caller.
notify_one(x) ==
  LET l      == LevelOf(x)
      back   == IF x \in Clients THEN "idle" ELSE "run"
      asleep == {t \in Workers(l) : pc[t] = "asleep"}
  IN  /\ pc[x] = "notify"
      /\ \/ asleep = {} /\ Goto(x, back)
         \/ \E t \in asleep : pc' = [pc EXCEPT ![x] = back, ![t] = "test"]
      /\ missed' = Missed(l)
      /\ UNCHANGED <<workerVars, tasks, issued, closeVars, missedFull, spurious>>

-----------------------------------------------------------------------------
(* A worker *)

\* Mutant: the worker does not enter itself.
Register_Skipped(t) ==
  /\ pc[t] = "start"
  /\ Goto(t, "top")
  /\ UNCHANGED <<workerVars, tasks, issued, closeVars, missed, missedFull, spurious>>

Register(t) ==
  /\ pc[t] = "start"
  /\ registered' = registered \cup {t}
  /\ Goto(t, "top")
  /\ UNCHANGED <<level, working, handles, tasks, issued, closeVars, missed, missedFull,
                 spurious>>

Top(t) ==
  /\ pc[t] = "top"
  /\ Goto(t, IF isCancel THEN "exited" ELSE "test")
  /\ UNCHANGED <<workerVars, tasks, issued, closeVars, missed, missedFull, spurious>>

\* The predicate of the wait.
Test(t) ==
  /\ pc[t] = "test"
  /\ Goto(t, IF tasks[level[t]] > 0 \/ isCancel THEN "mark" ELSE "falling")
  /\ UNCHANGED <<workerVars, tasks, issued, closeVars, missed, missedFull, spurious>>

Sleep(t) ==
  /\ pc[t] = "falling"
  /\ Goto(t, "asleep")
  /\ UNCHANGED <<workerVars, tasks, issued, closeVars, missed, missedFull, spurious>>

SpuriousWakeup(t) ==
  /\ pc[t] = "asleep"
  /\ Goto(t, "test")
  /\ UNCHANGED <<workerVars, tasks, issued, closeVars, missed, missedFull, spurious>>

MarkWorking(t) ==
  /\ pc[t] = "mark"
  /\ working' = working \cup {t}
  /\ Goto(t, "pop")
  /\ UNCHANGED <<level, registered, handles, tasks, issued, closeVars, missed, missedFull,
                 spurious>>

\* A task is taken from the queue.
try_pop(t) ==
  /\ pc[t] = "pop"
  /\ tasks[level[t]] > 0
  /\ tasks' = [tasks EXCEPT ![level[t]] = @ - 1]
  /\ spurious' = spurious \cap FullLevels(tasks')
  /\ Goto(t, "popped")
  /\ UNCHANGED <<workerVars, issued, closeVars, missed, missedFull>>

\* Mutant: the test of wait() is repeated where its opposite is meant.
NotifyProducer_WhenFull(t) ==
  LET l    == level[t]
      full == Scheduling(l, {"full"})
  IN  /\ pc[t] = "popped"
      /\ \/ (full = {} \/ tasks[l] < MaxQueue) /\ Goto(t, "run")
         \/ tasks[l] >= MaxQueue /\ \E x \in full : pc' = [pc EXCEPT ![x] = "put", ![t] = "run"]
      /\ missedFull' = IF Scheduling(l, {"filling"}) = {} THEN missedFull
                                                         ELSE missedFull \cup {l}
      /\ UNCHANGED <<workerVars, tasks, issued, closeVars, missed, spurious>>

\* try_pop's notification to one producer that found the queue full; the task
\* runs next.
NotifyProducer(t) ==
  LET l    == level[t]
      full == Scheduling(l, {"full"})
  IN  /\ pc[t] = "popped"
      /\ \/ full = {} /\ Goto(t, "run")
         \/ \E x \in full : pc' = [pc EXCEPT ![x] = "put", ![t] = "run"]
      /\ missedFull' = IF Scheduling(l, {"filling"}) = {} THEN missedFull
                                                         ELSE missedFull \cup {l}
      /\ UNCHANGED <<workerVars, tasks, issued, closeVars, missed, spurious>>

NothingToPop(t) ==
  /\ pc[t] = "pop"
  /\ tasks[level[t]] = 0
  /\ Goto(t, "rest")
  /\ UNCHANGED <<workerVars, tasks, issued, closeVars, missed, missedFull, spurious>>

\* Mutant: an exception of a task ends its worker.
TaskEnds_Uncaught(t) ==
  /\ t \in Threads
  /\ pc[t] = "run"
  /\ Goto(t, "pop") \/ Goto(t, "exited")
  /\ UNCHANGED <<workerVars, tasks, issued, closeVars, missed, missedFull, spurious>>

\* The task returns or throws.
TaskEnds(t) ==
  /\ t \in Threads
  /\ pc[t] = "run"
  /\ Goto(t, "pop")
  /\ UNCHANGED <<workerVars, tasks, issued, closeVars, missed, missedFull, spurious>>

MarkFree(t) ==
  /\ pc[t] = "rest"
  /\ working' = working \ {t}
  /\ Goto(t, "top")
  /\ UNCHANGED <<level, registered, handles, tasks, issued, closeVars, missed, missedFull,
                 spurious>>

-----------------------------------------------------------------------------
(* close(), called once *)

Cancel ==
  /\ closing = "open" /\ MaxClose > 0
  /\ isCancel' = TRUE
  /\ closing' = "notify0"
  /\ overlap' = (\E x \in Clients : pc[x] # "idle")
  /\ UNCHANGED <<pc, workerVars, tasks, issued, joining, missed, missedFull, spurious>>

\* Mutant: the loop over the levels stops one short.
notify_all_OneShort(l) ==
  /\ closing = IF l = 0 THEN "notify0" ELSE "notify1"
  /\ pc' = [x \in DOMAIN pc |-> IF l = 0 /\ x \in Workers(l) /\ pc[x] = "asleep" THEN "test"
                                                                                ELSE pc[x]]
  /\ missed' = Missed(l)
  /\ closing' = IF l = 0 THEN "notify1" ELSE "join0"
  /\ UNCHANGED <<workerVars, tasks, issued, isCancel, joining, overlap, missedFull, spurious>>

notify_all(l) ==
  /\ closing = IF l = 0 THEN "notify0" ELSE "notify1"
  /\ pc' = [x \in DOMAIN pc |-> IF x \in Workers(l) /\ pc[x] = "asleep" THEN "test"
                                                                       ELSE pc[x]]
  /\ missed' = Missed(l)
  /\ closing' = IF l = 0 THEN "notify1" ELSE "join0"
  /\ UNCHANGED <<workerVars, tasks, issued, isCancel, joining, overlap, missedFull, spurious>>

PopHandle(l) ==
  /\ closing = IF l = 0 THEN "join0" ELSE "join1"
  /\ joining = Nobody
  /\ handles[l] # <<>>
  /\ joining' = Head(handles[l])
  /\ handles' = [handles EXCEPT ![l] = Tail(@)]
  /\ UNCHANGED <<pc, level, registered, working, tasks, issued, isCancel, closing,
                 overlap, missed, missedFull, spurious>>

Joined ==
  /\ joining # Nobody
  /\ pc[joining] = "exited"
  /\ joining' = Nobody
  /\ UNCHANGED <<pc, workerVars, tasks, issued, isCancel, closing, overlap, missed,
                 missedFull, spurious>>

\* Mutant: one thread of each level is joined.
LevelJoined_One(l) ==
  /\ closing = IF l = 0 THEN "join0" ELSE "join1"
  /\ joining = Nobody
  /\ Len(handles[l]) <= 1
  /\ closing' = IF l = 0 THEN "join1" ELSE "closed"
  /\ UNCHANGED <<pc, workerVars, tasks, issued, isCancel, joining, overlap, missed,
                 missedFull, spurious>>

\* No handle of the level is left: on to the next one, then _isClosed = true.
LevelJoined(l) ==
  /\ closing = IF l = 0 THEN "join0" ELSE "join1"
  /\ joining = Nobody
  /\ handles[l] = <<>>
  /\ closing' = IF l = 0 THEN "join1" ELSE "closed"
  /\ UNCHANGED <<pc, workerVars, tasks, issued, isCancel, joining, overlap, missed,
                 missedFull, spurious>>

-----------------------------------------------------------------------------
Init ==
  /\ pc = [x \in Clients \cup Threads |->
             IF x \in Clients THEN "idle"
             ELSE IF x \in {First[0], First[1]} THEN "start" ELSE "none"]
  /\ level = [t \in Threads |-> IF t = First[1] THEN 1 ELSE 0]
  /\ registered = {}
  /\ working = {}
  /\ handles = [l \in Levels |-> <<First[l]>>]
  /\ tasks = [l \in Levels |-> 0]
  /\ issued = 0
  /\ isCancel = FALSE
  /\ closing = "open"
  /\ joining = Nobody
  /\ missed = {}
  /\ missedFull = {}
  /\ spurious = {}
  /\ overlap = FALSE

\* The steps of schedule after its tests; each but the sleep leads on.
Proceed(x) ==
  CheckSize(x) \/ SleepFull(x) \/ Put(x) \/ CheckThreads(x) \/ addThread(x) \/ notify_one(x)

Work(t) ==
  \/ Register(t) \/ Top(t) \/ Test(t) \/ Sleep(t) \/ MarkWorking(t) \/ try_pop(t)
  \/ NotifyProducer(t) \/ NothingToPop(t) \/ TaskEnds(t) \/ MarkFree(t)

CloseProceeds ==
  \/ Joined
  \/ \E l \in Levels : notify_all(l) \/ PopHandle(l) \/ LevelJoined(l)

Next ==
  \/ \E x \in Clients \cup Threads : schedule(x) \/ Proceed(x) \/ SpuriousFull(x)
  \/ \E t \in Threads : Work(t) \/ SpuriousWakeup(t)
  \/ Cancel
  \/ CloseProceeds

\* Threads run, and the tasks given to the scheduler end.
Fairness ==
  /\ \A x \in Clients \cup Threads : WF_vars(Proceed(x))
  /\ \A t \in Threads : WF_vars(Work(t))
  /\ WF_vars(CloseProceeds)

Spec == Init /\ [][Next]_vars /\ Fairness

-----------------------------------------------------------------------------
(* Properties *)

Places == {"idle", "none", "check", "filling", "full", "put", "add", "make", "notify",
           "start", "top", "test", "falling", "asleep", "mark", "pop", "popped", "run", "rest",
           "exited"}

\* Types; a thread marked as working is registered, and a handle is that of a
\* thread that was made for its level.
TypeOK ==
  /\ pc \in [Clients \cup Threads -> Places]
  /\ level \in [Threads -> Levels]
  /\ working \subseteq registered /\ registered \subseteq Threads
  /\ \A l \in Levels : \A i \in DOMAIN handles[l] : handles[l][i] \in Workers(l)
  /\ tasks \in [Levels -> Nat]
  /\ issued \in 0 .. MaxTasks
  /\ isCancel \in BOOLEAN /\ overlap \in BOOLEAN
  /\ closing \in {"open", "notify0", "notify1", "join0", "join1", "closed"}
  /\ joining \in Threads \cup {Nobody}
  /\ missed \subseteq Levels /\ missedFull \subseteq Levels /\ spurious \subseteq Levels

\* Until close() begins no level has more threads than its limit, however many
\* callers pass addThread's unlocked tests at once.
ThreadLimit ==
  ~isCancel => \A l \in Levels : Cardinality(Workers(l)) <= Limit

\* Tasks wait for a worker only while one of their level is up, or a scheduler
\* is about to notify.  The one exception is a notification that found a worker
\* between the predicate and its sleep.
NoStrandedTask ==
  \A l \in Levels :
    tasks[l] > 0 /\ ~isCancel /\ l \notin missed =>
      \/ \E t \in Workers(l) : pc[t] \notin {"falling", "asleep"}
      \/ Scheduling(l, {"add", "make", "notify"}) # {}

\* A caller asleep on a full queue has a task before it whose removal will wake
\* it, a worker that has just removed one, or another caller about to push one;
\* again unless a notification came between its look at the size and its sleep.
NoStrandedProducer ==
  \A l \in Levels :
    Scheduling(l, {"full"}) # {} /\ l \notin missedFull =>
      \/ tasks[l] > 0
      \/ Scheduling(l, {"put"}) # {}
      \/ \E t \in Workers(l) : pc[t] = "popped"

\* max_size is exceeded, but by no more than the callers and the workers of the
\* level: one task for each caller that passed the look at the size together
\* with others, and one for each pop whose notification comes so late that it
\* wakes a caller although the queue is full again.  (A spurious wake-up adds one
\* more each time, until the queue next has room.)
OvershootBounded ==
  \A l \in Levels :
    l \notin spurious =>
      tasks[l] + Cardinality(Scheduling(l, {"put"}))
               + Cardinality({t \in Workers(l) : pc[t] = "popped"})
        < MaxQueue + Cardinality(IF l = 0 THEN Clients ELSE Workers(0))
                   + Cardinality(Workers(l))

\* close() leaves no thread behind, those included that tasks of level 0 made
\* while it was joining; it needs outside callers to have left schedule before.
JoinedWhenClosed ==
  isClosed /\ ~overlap =>
    \A l \in Levels : handles[l] = <<>> /\ \A t \in Workers(l) : pc[t] = "exited"

\* close() returns if no worker missed its notification and no task of level 0
\* sleeps on a full queue of level 1, which the leaving workers do not empty.
CloseReturns ==
  [](missed = {}) /\ [](\A t \in Threads : pc[t] # "full") => (isCancel ~> isClosed)

\* Scheduled tasks are taken, by a worker of their own level, unless a worker
\* missed a notification.  Tasks of level 0 wait on level 1 when a task before
\* them schedules more than its queue holds: for them no worker of level 1 may
\* have missed one either, nor a worker of level 0 that of a pop of level 1.
TasksAreTaken ==
  \A l \in Levels :
    /\ [](\A k \in Levels : k >= l => k \notin missed)
    /\ [](l = 0 => 1 \notin missedFull)
    => (tasks[l] > 0 ~> tasks[l] = 0 \/ isCancel)
=============================================================================
