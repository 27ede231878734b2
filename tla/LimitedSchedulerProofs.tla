------------------------ MODULE LimitedSchedulerProofs ------------------------
(***************************************************************************)
(* Proofs about the scheduler, for any number of callers and workers, any  *)
(* limit and any queue size.  The invariants of the runs are proved from   *)
(* three parts: where a thread may be (PlaceInv), which handles close()    *)
(* has to join (HandleInv) and how far close() is (CloseInv); then level   *)
(* by level: who serves the tasks (Served), who wakes the callers asleep   *)
(* on a full queue (Released) and how full it gets (Within).               *)
(***************************************************************************)
EXTENDS LimitedScheduler, SequenceTheorems, FiniteSetTheorems, TLAPS

SchedulePlaces == {"check", "filling", "full", "put", "add", "make", "notify"}

\* Outside threads are in schedule or not; a worker that is in schedule runs a
\* task of level 0; a worker enters itself before it does anything else, and
\* the constructor's workers are there from the start.
PlaceInv ==
  /\ \A c \in Clients : pc[c] \in {"idle"} \cup SchedulePlaces
  /\ \A t \in Threads :
       /\ pc[t] # "idle"
       /\ pc[t] \in SchedulePlaces => level[t] = 0
       /\ t \in registered <=> pc[t] \notin {"none", "start"}
  /\ \A l \in Levels : pc[First[l]] # "none" /\ level[First[l]] = l

\* No more handles than the limit, and a worker is in the list of its level
\* until close() takes it out and waits for it to exit.
HandleInv ==
  /\ handles \in [Levels -> Seq(Threads)]
  /\ \A l \in Levels : Len(handles[l]) <= Limit
  /\ \A t \in Threads :
       pc[t] # "none" =>
         \/ \E i \in DOMAIN handles[level[t]] : handles[level[t]][i] = t
         \/ isCancel /\ (t = joining \/ pc[t] = "exited")

\* close() goes on step by step; unless it overlapped with a client nobody
\* outside schedules any more, so a level that was joined stays empty.
CloseInv ==
  /\ closing = "open" <=> ~isCancel
  /\ joining # Nobody => closing \in {"join0", "join1"}
  /\ isCancel /\ ~overlap => \A c \in Clients : pc[c] = "idle"
  /\ closing \in {"join1", "closed"} /\ ~overlap =>
       handles[0] = <<>> /\ \A t \in Workers(0) : pc[t] = "exited"
  /\ closing = "closed" /\ ~overlap =>
       handles[1] = <<>> /\ \A t \in Workers(1) : pc[t] = "exited"

-----------------------------------------------------------------------------
(* Types and places *)

BaseInv == TypeOK /\ PlaceInv /\ HandleInv

LEMMA InitBase == Init => BaseInv
<1> SUFFICES ASSUME Init PROVE BaseInv
  OBVIOUS
<1> USE SchedulerAssumption DEF Init
<1>1. /\ First[0] \in Threads /\ First[1] \in Threads
      /\ \A l \in Levels : First[l] \in Threads /\ <<First[l]>> \in Seq(Threads)
  BY DEF Levels
<1>2. \A t \in Threads : pc[t] # "none" <=> t = First[0] \/ t = First[1]
  BY <1>1
<1>3. level[First[0]] = 0 /\ level[First[1]] = 1 /\ level \in [Threads -> Levels]
  BY <1>1 DEF Levels
<1>4. pc \in [Clients \cup Threads -> Places]
  BY DEF Places
<1>5. TypeOK
  <2>1. \A l \in Levels : \A i \in DOMAIN handles[l] : handles[l][i] \in Workers(l)
    <3>1. \A l \in Levels : First[l] \in Workers(l)
      BY <1>1, <1>2, <1>3 DEF Workers, Levels
    <3>2. QED
      BY <3>1
  <2>2. isCancel \in BOOLEAN /\ overlap \in BOOLEAN
    OBVIOUS
  <2>3. tasks \in [Levels -> Nat] /\ issued \in 0 .. MaxTasks
    OBVIOUS
  <2>4. QED
    BY <1>3, <1>4, <2>1, <2>2, <2>3 DEF TypeOK
<1>6. PlaceInv
  BY <1>1, <1>2, <1>3 DEF PlaceInv, SchedulePlaces, Levels
<1>7. HandleInv
  <2>1. handles \in [Levels -> Seq(Threads)]
    BY <1>1
  <2>2. \A l \in Levels : Len(handles[l]) = 1 /\ handles[l][1] = First[l] /\ DOMAIN handles[l] = {1}
    OBVIOUS
  <2>3. QED
    BY <1>2, <1>3, <2>1, <2>2 DEF HandleInv, Levels
<1>8. QED
  BY <1>5, <1>6, <1>7 DEF BaseInv

\* Threads move on to places that suit them, and nothing is done to the lists of
\* threads.
MoveOn ==
  /\ pc' \in [Clients \cup Threads -> Places]
  /\ \A c \in Clients : pc'[c] \in {"idle"} \cup SchedulePlaces
  /\ \A t \in Threads :
       \/ pc'[t] = pc[t]
       \/ /\ pc[t] \notin {"none", "start", "exited"}
          /\ pc'[t] \notin {"idle", "none", "start"}
          /\ pc'[t] \in SchedulePlaces => level[t] = 0

LEMMA MovesKeepBase ==
  ASSUME BaseInv, MoveOn, UNCHANGED <<level, registered, handles, isCancel, joining>>
  PROVE  /\ pc' \in [Clients \cup Threads -> Places]
         /\ \A l \in Levels : \A i \in DOMAIN handles'[l] : handles'[l][i] \in Workers(l)'
         /\ PlaceInv' /\ HandleInv'
<1> USE SchedulerAssumption DEF MoveOn
<1>1. \A t \in Threads : pc[t] # "none" => pc'[t] # "none"
  OBVIOUS
<1>2. \A l \in Levels : \A i \in DOMAIN handles'[l] : handles'[l][i] \in Workers(l)'
  BY <1>1 DEF BaseInv, TypeOK, Workers
<1>3. PlaceInv'
  BY DEF BaseInv, TypeOK, PlaceInv
<1>4. HandleInv'
  BY DEF BaseInv, HandleInv
<1>5. QED
  BY <1>2, <1>3, <1>4

\* What every step but those of close() and the making of a thread leaves alone:
\* the threads that do not exist yet and those that have exited, and, once close()
\* has begun, the callers that are not in schedule.
Quiet ==
  /\ UNCHANGED <<level, handles, closeVars>>
  /\ \A t \in Threads : pc[t] = "none" <=> pc'[t] = "none"
  /\ \A t \in Threads : pc[t] = "exited" => pc'[t] = "exited"
  /\ isCancel => \A c \in Clients : pc[c] = "idle" => pc'[c] = "idle"

LEMMA MovesAreQuiet ==
  ASSUME MoveOn, UNCHANGED <<level, handles, closeVars>>,
         isCancel => \A c \in Clients : pc[c] = "idle" => pc'[c] = "idle"
  PROVE  Quiet
BY DEF MoveOn, Quiet

\* One thread moves on.
LEMMA Moves ==
  ASSUME BaseInv, NEW x \in Clients \cup Threads, NEW place \in Places, Goto(x, place),
         x \in Clients => place \in {"idle"} \cup SchedulePlaces,
         x \in Threads => /\ place \notin {"idle", "none", "start"}
                          /\ pc[x] \notin {"none", "start", "exited"}
                          /\ place \in SchedulePlaces => level[x] = 0
  PROVE  MoveOn
<1>1. /\ pc' \in [Clients \cup Threads -> Places]
      /\ pc'[x] = place
      /\ \A y \in (Clients \cup Threads) \ {x} : pc'[y] = pc[y]
  BY DEF BaseInv, TypeOK, Goto
<1>2. QED
  BY <1>1 DEF MoveOn, BaseInv, PlaceInv

\* The steps of schedule().
LEMMA ScheduleKeepsBase ==
  ASSUME BaseInv, NEW x \in Clients \cup Threads,
         schedule(x) \/ CheckSize(x) \/ SleepFull(x) \/ SpuriousFull(x) \/ Put(x)
           \/ CheckThreads(x)
  PROVE  BaseInv' /\ Quiet
<1> USE SchedulerAssumption
<1>1. PICK place \in SchedulePlaces : Goto(x, place)
  BY DEF schedule, CheckSize, SleepFull, SpuriousFull, Put, CheckThreads, SchedulePlaces
<1>2. /\ x \in Threads => /\ pc[x] \notin {"none", "start", "exited"} /\ level[x] = 0
      /\ place \in Places /\ place \notin {"idle", "none", "start"}
  <2>1. pc[x] \in SchedulePlaces \/ x \in Clients \/ (x \in Workers(0) /\ pc[x] = "run")
    BY DEF schedule, CheckSize, SleepFull, SpuriousFull, Put, CheckThreads, SchedulePlaces
  <2>2. QED
    BY <2>1 DEF BaseInv, PlaceInv, Workers, SchedulePlaces, Places
<1>3. UNCHANGED <<workerVars, closeVars, missed, missedFull>>
  BY DEF schedule, CheckSize, SleepFull, SpuriousFull, Put, CheckThreads
<1>3a. MoveOn
  BY <1>1, <1>2, Moves
<1>3b. Quiet
  <2>1. isCancel => \A c \in Clients : pc[c] = "idle" => pc'[c] = "idle"
    BY <1>1 DEF schedule, CheckSize, SleepFull, SpuriousFull, Put, CheckThreads, Workers,
                Goto, BaseInv, TypeOK
  <2>2. QED
    BY <1>3, <1>3a, <2>1, MovesAreQuiet DEF workerVars
<1>4. /\ pc' \in [Clients \cup Threads -> Places]
      /\ \A l \in Levels : \A i \in DOMAIN handles'[l] : handles'[l][i] \in Workers(l)'
      /\ PlaceInv' /\ HandleInv'
  BY <1>3, <1>3a, MovesKeepBase DEF workerVars, closeVars
<1>5. LevelOf(x) \in Levels
  BY DEF LevelOf, Levels
<1>6. tasks' \in [Levels -> Nat] /\ issued' \in 0 .. MaxTasks /\ spurious' \subseteq Levels
  <2>1. tasks' = tasks \/ tasks' = [tasks EXCEPT ![LevelOf(x)] = @ + 1]
    BY DEF schedule, CheckSize, SleepFull, SpuriousFull, Put, CheckThreads
  <2>2. issued' = issued \/ (issued < MaxTasks /\ issued' = issued + 1)
    BY DEF schedule, CheckSize, SleepFull, SpuriousFull, Put, CheckThreads
  <2>3. spurious' = spurious \/ spurious' = spurious \cup ({LevelOf(x)} \cap FullLevels(tasks))
    BY DEF schedule, CheckSize, SleepFull, SpuriousFull, Put, CheckThreads
  <2>4. tasks' \in [Levels -> Nat]
    BY <1>5, <2>1 DEF BaseInv, TypeOK
  <2>5. issued' \in 0 .. MaxTasks
    BY <2>2 DEF BaseInv, TypeOK
  <2>6. QED
    BY <1>5, <2>3, <2>4, <2>5 DEF BaseInv, TypeOK
<1>7. QED
  BY <1>3, <1>3b, <1>4, <1>6 DEF BaseInv, TypeOK, workerVars, closeVars

\* addThread: the new thread is in the list of its level.
LEMMA AddThreadKeepsBase ==
  ASSUME BaseInv, NEW x \in Clients \cup Threads, addThread(x)
  PROVE  BaseInv'
<1> USE SchedulerAssumption
<1> DEFINE l == LevelOf(x)
<1>1. l \in Levels /\ pc[x] = "make"
  BY DEF LevelOf, Levels, addThread
<1>2. x \in Threads => level[x] = 0
  BY <1>1 DEF BaseInv, PlaceInv, SchedulePlaces
<1>3. UNCHANGED <<tasks, issued, closeVars, missed, missedFull, spurious>>
  BY DEF addThread
<1>4. CASE Goto(x, "notify") /\ UNCHANGED workerVars
  <2>1. /\ pc' \in [Clients \cup Threads -> Places]
        /\ \A k \in Levels : \A i \in DOMAIN handles'[k] : handles'[k][i] \in Workers(k)'
        /\ PlaceInv' /\ HandleInv'
    BY <1>1, <1>2, <1>3, <1>4, Moves, MovesKeepBase DEF workerVars, closeVars, Places, SchedulePlaces
  <2>2. QED
    BY <1>3, <1>4, <2>1 DEF BaseInv, TypeOK, workerVars, closeVars
<1>5. ASSUME Len(handles[l]) < Limit, NEW t \in Threads, makeThread(x, t)
      PROVE  BaseInv'
  <2>1. /\ pc[t] = "none" /\ t # x /\ t \notin Clients
        /\ pc' = [pc EXCEPT ![x] = "notify", ![t] = "start"]
        /\ level' = [level EXCEPT ![t] = l]
        /\ handles' = [handles EXCEPT ![l] = Append(@, t)]
        /\ UNCHANGED <<registered, working>>
    BY <1>1, <1>5 DEF makeThread
  <2>2. /\ pc' \in [Clients \cup Threads -> Places] /\ pc'[x] = "notify" /\ pc'[t] = "start"
        /\ \A y \in (Clients \cup Threads) \ {x, t} : pc'[y] = pc[y]
        /\ level' \in [Threads -> Levels] /\ level'[t] = l
        /\ \A u \in Threads \ {t} : level'[u] = level[u]
    BY <1>1, <2>1 DEF BaseInv, TypeOK, Places
  <2>3. /\ handles[l] \in Seq(Threads) /\ handles' \in [Levels -> Seq(Threads)]
        /\ handles'[l] = Append(handles[l], t)
        /\ \A k \in Levels \ {l} : handles'[k] = handles[k]
    BY <1>1, <2>1 DEF BaseInv, HandleInv
  <2>4. /\ Len(handles'[l]) = Len(handles[l]) + 1 /\ Len(handles[l]) \in Nat
        /\ DOMAIN handles'[l] = 1 .. Len(handles[l]) + 1
        /\ DOMAIN handles[l] = 1 .. Len(handles[l])
        /\ \A i \in 1 .. Len(handles[l]) : handles'[l][i] = handles[l][i]
        /\ handles'[l][Len(handles[l]) + 1] = t
    BY <2>3, AppendProperties, LenProperties
  <2>5. \A k \in Levels : \A u \in Workers(k) : u # t /\ u \in Workers(k)'
    BY <2>1, <2>2 DEF Workers
  <2>6. t \in Workers(l)'
    BY <2>2 DEF Workers
  <2>7. \A k \in Levels : \A i \in DOMAIN handles'[k] : handles'[k][i] \in Workers(k)'
    <3>1. \A i \in DOMAIN handles'[l] : handles'[l][i] \in Workers(l)'
      <4>1. \A i \in 1 .. Len(handles[l]) : handles[l][i] \in Workers(l)
        BY <1>1, <2>4 DEF BaseInv, TypeOK
      <4>2. \A i \in 1 .. Len(handles[l]) : handles'[l][i] \in Workers(l)'
        BY <1>1, <2>4, <2>5, <4>1
      <4>3. \A i \in 1 .. Len(handles[l]) + 1 : i \in 1 .. Len(handles[l]) \/ i = Len(handles[l]) + 1
        BY <2>4
      <4>4. QED
        BY <2>4, <2>6, <4>2, <4>3
    <3>2. \A k \in Levels \ {l} : \A i \in DOMAIN handles'[k] : handles'[k][i] \in Workers(k)'
      BY <2>3, <2>5 DEF BaseInv, TypeOK
    <3>3. QED
      BY <3>1, <3>2
  <2>8. TypeOK'
    BY <1>3, <2>1, <2>2, <2>7 DEF BaseInv, TypeOK, closeVars
  <2>9. PlaceInv'
    <3>1. \A c \in Clients : pc'[c] \in {"idle"} \cup SchedulePlaces
      BY <2>1, <2>2 DEF BaseInv, PlaceInv, SchedulePlaces
    <3>2. ASSUME NEW u \in Threads
          PROVE  /\ pc'[u] # "idle"
                 /\ pc'[u] \in SchedulePlaces => level'[u] = 0
                 /\ u \in registered' <=> pc'[u] \notin {"none", "start"}
      BY <1>1, <1>2, <2>1, <2>2 DEF BaseInv, PlaceInv, SchedulePlaces
    <3>3. \A k \in Levels : pc'[First[k]] # "none" /\ level'[First[k]] = k
      <4>1. \A k \in Levels : First[k] \in Threads /\ First[k] # t
        BY <2>1 DEF BaseInv, PlaceInv
      <4>2. QED
        BY <2>2, <4>1 DEF BaseInv, PlaceInv
    <3>4. QED
      BY <3>1, <3>2, <3>3 DEF PlaceInv
  <2>10. HandleInv'
    <3>1. \A k \in Levels : Len(handles'[k]) <= Limit
      <4>1. Len(handles'[l]) <= Limit
        BY <1>5, <2>4
      <4>2. QED
        BY <2>3, <4>1 DEF BaseInv, HandleInv
    <3>2. ASSUME NEW u \in Threads, pc'[u] # "none"
          PROVE  \/ \E i \in DOMAIN handles'[level'[u]] : handles'[level'[u]][i] = u
                 \/ isCancel' /\ (u = joining' \/ pc'[u] = "exited")
      <4>1. CASE u = t
        BY <2>2, <2>4, <4>1
      <4>2. CASE u # t
        <5>1. pc[u] # "none" /\ level'[u] = level[u] /\ level[u] \in Levels
          BY <1>1, <2>2, <3>2, <4>2 DEF BaseInv, TypeOK
        <5>2. \/ \E i \in DOMAIN handles[level[u]] : handles[level[u]][i] = u
              \/ isCancel /\ (u = joining \/ pc[u] = "exited")
          BY <5>1 DEF BaseInv, HandleInv
        <5>3. ASSUME NEW i \in DOMAIN handles[level[u]]
              PROVE  i \in DOMAIN handles'[level[u]] /\ handles'[level[u]][i] = handles[level[u]][i]
          <6>1. CASE level[u] = l
            BY <2>4, <5>3, <6>1
          <6>2. CASE level[u] # l
            BY <2>3, <5>1, <5>3, <6>2
          <6>3. QED
            BY <6>1, <6>2
        <5>4. pc[u] = "exited" => pc'[u] = "exited"
          BY <1>1, <2>2, <4>2
        <5>5. isCancel' = isCancel /\ joining' = joining
          BY <1>3 DEF closeVars
        <5>6. QED
          BY <5>1, <5>2, <5>3, <5>4, <5>5
      <4>3. QED
        BY <4>1, <4>2
    <3>3. QED
      BY <2>3, <3>1, <3>2 DEF HandleInv
  <2>11. QED
    BY <2>8, <2>9, <2>10 DEF BaseInv
<1>6. QED
  BY <1>4, <1>5 DEF addThread

\* The notification of a worker: the notifier goes on, and at most one sleeper
\* wakes.
LEMMA NotifyOneKeepsBase ==
  ASSUME BaseInv, NEW x \in Clients \cup Threads, notify_one(x)
  PROVE  BaseInv' /\ Quiet
<1> USE SchedulerAssumption
<1> DEFINE back == IF x \in Clients THEN "idle" ELSE "run"
<1>1. /\ pc[x] = "notify" /\ back \in Places
      /\ UNCHANGED <<workerVars, tasks, issued, closeVars, missedFull, spurious>>
      /\ missed' \subseteq Levels
  <2>1. missed' \subseteq missed \cup {LevelOf(x)} /\ LevelOf(x) \in Levels
    BY DEF notify_one, Missed, LevelOf, Levels
  <2>2. QED
    BY <2>1 DEF notify_one, Places, BaseInv, TypeOK
<1>2. ASSUME Goto(x, back) PROVE MoveOn
  BY <1>1, <1>2, Moves DEF SchedulePlaces
<1>3. ASSUME NEW t \in Workers(LevelOf(x)), pc[t] = "asleep",
             pc' = [pc EXCEPT ![x] = back, ![t] = "test"]
      PROVE  MoveOn
  <2>1. t \in Threads /\ t # x /\ t \notin Clients /\ "test" \in Places
    BY <1>1, <1>3 DEF Workers, Places
  <2>2. /\ pc' \in [Clients \cup Threads -> Places] /\ pc'[x] = back /\ pc'[t] = "test"
        /\ \A y \in (Clients \cup Threads) \ {x, t} : pc'[y] = pc[y]
    BY <1>1, <1>3, <2>1 DEF BaseInv, TypeOK
  <2>3. QED
    BY <1>1, <1>3, <2>1, <2>2 DEF MoveOn, BaseInv, PlaceInv, SchedulePlaces
<1>4. MoveOn
  BY <1>2, <1>3 DEF notify_one
<1>5. /\ pc' \in [Clients \cup Threads -> Places]
      /\ \A l \in Levels : \A i \in DOMAIN handles'[l] : handles'[l][i] \in Workers(l)'
      /\ PlaceInv' /\ HandleInv'
  BY <1>1, <1>4, MovesKeepBase DEF workerVars, closeVars
<1>6. \A c \in Clients : pc[c] = "idle" => pc'[c] = "idle"
  <2>1. ASSUME NEW c \in Clients, pc[c] = "idle" PROVE pc'[c] = "idle"
    BY <1>1, <2>1 DEF notify_one, Goto, Workers, Scheduling, BaseInv, TypeOK
  <2>2. QED
    BY <2>1
<1>7. Quiet
  BY <1>1, <1>4, <1>6, MovesAreQuiet DEF workerVars
<1>8. QED
  BY <1>1, <1>5, <1>7 DEF BaseInv, TypeOK, workerVars, closeVars


\* The notification of a producer.
LEMMA NotifyProducerKeepsBase ==
  ASSUME BaseInv, NEW t \in Threads, NotifyProducer(t)
  PROVE  BaseInv' /\ Quiet
<1> USE SchedulerAssumption
<1>1. /\ pc[t] = "popped" /\ t \notin Clients
      /\ UNCHANGED <<workerVars, tasks, issued, closeVars, missed, spurious>>
      /\ missedFull' \subseteq Levels
  BY DEF NotifyProducer, BaseInv, TypeOK
<1>2. ASSUME Goto(t, "run") PROVE MoveOn
  BY <1>1, <1>2, Moves DEF SchedulePlaces, Places
<1>3. ASSUME NEW x \in Scheduling(level[t], {"full"}),
             pc' = [pc EXCEPT ![x] = "put", ![t] = "run"]
      PROVE  MoveOn
  <2>1. x \in Clients \cup Threads /\ t # x /\ pc[x] = "full"
        /\ {"put", "run"} \subseteq Places
    BY <1>1, <1>3 DEF Scheduling, Places
  <2>2. /\ pc' \in [Clients \cup Threads -> Places] /\ pc'[x] = "put" /\ pc'[t] = "run"
        /\ \A y \in (Clients \cup Threads) \ {x, t} : pc'[y] = pc[y]
    BY <1>1, <1>3, <2>1 DEF BaseInv, TypeOK
  <2>3. QED
    BY <1>1, <1>3, <2>1, <2>2 DEF MoveOn, BaseInv, PlaceInv, SchedulePlaces
<1>4. MoveOn
  BY <1>2, <1>3 DEF NotifyProducer
<1>5. /\ pc' \in [Clients \cup Threads -> Places]
      /\ \A l \in Levels : \A i \in DOMAIN handles'[l] : handles'[l][i] \in Workers(l)'
      /\ PlaceInv' /\ HandleInv'
  BY <1>1, <1>4, MovesKeepBase DEF workerVars, closeVars
<1>6. \A c \in Clients : pc[c] = "idle" => pc'[c] = "idle"
  <2>1. ASSUME NEW c \in Clients, pc[c] = "idle" PROVE pc'[c] = "idle"
    BY <1>1, <2>1 DEF NotifyProducer, Goto, Workers, Scheduling, BaseInv, TypeOK
  <2>2. QED
    BY <2>1
<1>7. Quiet
  BY <1>1, <1>4, <1>6, MovesAreQuiet DEF workerVars
<1>8. QED
  BY <1>1, <1>5, <1>7 DEF BaseInv, TypeOK, workerVars, closeVars


\* The other steps of a worker, once it has entered itself.
LEMMA WorkKeepsBase ==
  ASSUME BaseInv, NEW t \in Threads,
         \/ Top(t) \/ Test(t) \/ Sleep(t) \/ SpuriousWakeup(t) \/ MarkWorking(t)
         \/ try_pop(t) \/ NothingToPop(t) \/ TaskEnds(t) \/ MarkFree(t)
  PROVE  BaseInv' /\ Quiet
<1> USE SchedulerAssumption
<1>1. PICK place \in {"exited", "test", "mark", "falling", "asleep", "pop", "popped",
                      "rest", "top"} : Goto(t, place)
  BY DEF Top, Test, Sleep, SpuriousWakeup, MarkWorking, try_pop, NothingToPop, TaskEnds,
         MarkFree
<1>2. pc[t] \in {"top", "test", "falling", "asleep", "mark", "pop", "run", "rest"}
  BY DEF Top, Test, Sleep, SpuriousWakeup, MarkWorking, try_pop, NothingToPop, TaskEnds,
         MarkFree
<1>3. MoveOn
  BY <1>1, <1>2, Moves DEF SchedulePlaces, Places
<1>4. UNCHANGED <<level, registered, handles, issued, closeVars, missed, missedFull>>
  BY DEF Top, Test, Sleep, SpuriousWakeup, MarkWorking, try_pop, NothingToPop, TaskEnds,
         MarkFree, workerVars
<1>5. /\ pc' \in [Clients \cup Threads -> Places]
      /\ \A l \in Levels : \A i \in DOMAIN handles'[l] : handles'[l][i] \in Workers(l)'
      /\ PlaceInv' /\ HandleInv'
  BY <1>3, <1>4, MovesKeepBase DEF closeVars
<1>6. working' \subseteq registered'
  <2>1. working' \subseteq working \cup {t}
    BY DEF Top, Test, Sleep, SpuriousWakeup, MarkWorking, try_pop, NothingToPop, TaskEnds,
           MarkFree, workerVars
  <2>2. t \in registered
    BY <1>2 DEF BaseInv, PlaceInv
  <2>3. QED
    BY <1>4, <2>1, <2>2 DEF BaseInv, TypeOK
<1>7. tasks' \in [Levels -> Nat] /\ spurious' \subseteq Levels
  <2>1. CASE try_pop(t)
    <3>1. level[t] \in Levels
      BY DEF BaseInv, TypeOK
    <3>2. QED
      BY <2>1, <3>1 DEF BaseInv, TypeOK, try_pop
  <2>2. CASE ~try_pop(t)
    <3>1. UNCHANGED <<tasks, spurious>>
      BY <2>2 DEF Top, Test, Sleep, SpuriousWakeup, MarkWorking, NothingToPop, TaskEnds,
                  MarkFree
    <3>2. QED
      BY <3>1 DEF BaseInv, TypeOK
  <2>3. QED
    BY <2>1, <2>2
<1>8. Quiet
  <2>1. \A c \in Clients : pc'[c] = pc[c]
    BY <1>1 DEF Goto, BaseInv, TypeOK
  <2>2. QED
    BY <1>3, <1>4, <2>1, MovesAreQuiet
<1>9. QED
  BY <1>4, <1>5, <1>6, <1>7, <1>8 DEF BaseInv, TypeOK, closeVars


\* A worker enters itself.
LEMMA RegisterKeepsBase ==
  ASSUME BaseInv, NEW t \in Threads, Register(t)
  PROVE  BaseInv' /\ Quiet
<1> USE SchedulerAssumption
<1>1. /\ pc[t] = "start" /\ t \notin Clients /\ "top" \in Places
      /\ registered' = registered \cup {t}
      /\ UNCHANGED <<level, working, handles, tasks, issued, closeVars, missed, missedFull,
                     spurious>>
  BY DEF Register, Places
<1>2. /\ pc' \in [Clients \cup Threads -> Places] /\ pc'[t] = "top"
      /\ \A y \in (Clients \cup Threads) \ {t} : pc'[y] = pc[y]
  BY <1>1 DEF Register, Goto, BaseInv, TypeOK
<1>3. \A l \in Levels : \A i \in DOMAIN handles'[l] : handles'[l][i] \in Workers(l)'
  BY <1>1, <1>2 DEF BaseInv, TypeOK, Workers
<1>4. PlaceInv'
  BY <1>1, <1>2 DEF BaseInv, PlaceInv, SchedulePlaces
<1>5. HandleInv'
  BY <1>1, <1>2 DEF BaseInv, HandleInv, closeVars
<1>6. Quiet
  BY <1>1, <1>2 DEF Quiet
<1>7. QED
  BY <1>1, <1>2, <1>3, <1>4, <1>5, <1>6 DEF BaseInv, TypeOK, closeVars


\* The steps of close().
LEMMA CloseKeepsBase ==
  ASSUME BaseInv, CloseInv, Cancel \/ CloseProceeds
  PROVE  BaseInv'
<1> USE SchedulerAssumption
<1>1. CASE Cancel
  <2>1. /\ UNCHANGED <<pc, workerVars, tasks, issued, joining, missed, missedFull, spurious>>
        /\ isCancel' = TRUE /\ closing' = "notify0" /\ overlap' \in BOOLEAN
    BY <1>1 DEF Cancel
  <2>2. TypeOK'
    BY <2>1 DEF BaseInv, TypeOK, workerVars, Workers
  <2>3. PlaceInv' /\ HandleInv'
    BY <2>1 DEF BaseInv, PlaceInv, HandleInv, workerVars
  <2>4. QED
    BY <2>2, <2>3 DEF BaseInv
<1>2. CASE Joined
  <2>1. /\ UNCHANGED <<pc, workerVars, tasks, issued, isCancel, closing, overlap, missed,
                       missedFull, spurious>>
        /\ joining' = Nobody /\ pc[joining] = "exited" /\ joining # Nobody
    BY <1>2 DEF Joined
  <2>2. TypeOK'
    BY <2>1 DEF BaseInv, TypeOK, workerVars, Workers
  <2>3. PlaceInv' /\ HandleInv'
    BY <2>1 DEF BaseInv, PlaceInv, HandleInv, workerVars
  <2>4. QED
    BY <2>2, <2>3 DEF BaseInv
<1>3. ASSUME NEW l \in Levels, notify_all(l) PROVE BaseInv'
  <2>1. /\ UNCHANGED <<workerVars, tasks, issued, isCancel, joining, overlap, missedFull,
                       spurious>>
        /\ closing' \in {"notify1", "join0"} /\ missed' \subseteq Levels
    BY <1>3 DEF notify_all, Missed, BaseInv, TypeOK
  <2>2. MoveOn
    <3>1. /\ pc' \in [Clients \cup Threads -> Places]
          /\ \A y \in Clients \cup Threads :
               \/ pc'[y] = pc[y]
               \/ y \in Threads /\ pc[y] = "asleep" /\ pc'[y] = "test"
      BY <1>3 DEF notify_all, BaseInv, TypeOK, Workers, Places
    <3>2. QED
      BY <3>1 DEF MoveOn, BaseInv, PlaceInv, SchedulePlaces
  <2>3. /\ pc' \in [Clients \cup Threads -> Places]
        /\ \A k \in Levels : \A i \in DOMAIN handles'[k] : handles'[k][i] \in Workers(k)'
        /\ PlaceInv' /\ HandleInv'
    BY <2>1, <2>2, MovesKeepBase DEF workerVars
  <2>4. QED
    BY <2>1, <2>3 DEF BaseInv, TypeOK, workerVars
<1>4. ASSUME NEW l \in Levels, PopHandle(l) PROVE BaseInv'
  <2>1. /\ UNCHANGED <<pc, level, registered, working, tasks, issued, isCancel, closing,
                       overlap, missed, missedFull, spurious>>
        /\ handles[l] \in Seq(Threads) /\ handles[l] # <<>> /\ joining = Nobody
        /\ joining' = Head(handles[l])
        /\ handles' = [handles EXCEPT ![l] = Tail(@)]
        /\ closing \in {"join0", "join1"}
    BY <1>4 DEF PopHandle, BaseInv, HandleInv
  <2>2. isCancel
    BY <2>1 DEF CloseInv
  <2>3. /\ Head(handles[l]) \in Threads /\ Head(handles[l]) = handles[l][1]
        /\ handles' \in [Levels -> Seq(Threads)]
        /\ \A k \in Levels \ {l} : handles'[k] = handles[k]
        /\ handles'[l] = Tail(handles[l])
    BY <1>4, <2>1, HeadTailProperties DEF BaseInv, HandleInv
  <2>4. /\ Len(handles[l]) \in Nat \ {0} /\ Len(handles'[l]) = Len(handles[l]) - 1
        /\ DOMAIN handles[l] = 1 .. Len(handles[l])
        /\ DOMAIN handles'[l] = 1 .. Len(handles[l]) - 1
        /\ \A i \in 1 .. Len(handles[l]) - 1 : handles'[l][i] = handles[l][i + 1]
    BY <2>1, <2>3, HeadTailProperties, LenProperties, EmptySeq
  <2>5. \A k \in Levels : \A i \in DOMAIN handles'[k] : handles'[k][i] \in Workers(k)'
    <3>1. \A k \in Levels : Workers(k)' = Workers(k)
      BY <2>1 DEF Workers
    <3>2. ASSUME NEW i \in DOMAIN handles'[l] PROVE handles'[l][i] \in Workers(l)
      <4>1. i + 1 \in DOMAIN handles[l] /\ handles'[l][i] = handles[l][i + 1]
        BY <2>4, <3>2
      <4>2. QED
        BY <1>4, <4>1 DEF BaseInv, TypeOK
    <3>3. \A k \in Levels \ {l} : \A i \in DOMAIN handles'[k] : handles'[k][i] \in Workers(k)
      BY <2>3 DEF BaseInv, TypeOK
    <3>4. QED
      BY <3>1, <3>2, <3>3
  <2>6. TypeOK'
    BY <2>1, <2>3, <2>5 DEF BaseInv, TypeOK
  <2>7. PlaceInv'
    BY <2>1 DEF BaseInv, PlaceInv
  <2>8. HandleInv'
    <3>1. \A k \in Levels : Len(handles'[k]) <= Limit
      <4>0. Len(handles[l]) <= Limit
        BY <1>4 DEF BaseInv, HandleInv
      <4>1. Len(handles'[l]) <= Limit
        BY <2>4, <4>0
      <4>2. QED
        BY <2>3, <4>1 DEF BaseInv, HandleInv
    <3>2. ASSUME NEW t \in Threads, pc[t] # "none"
          PROVE  \/ \E i \in DOMAIN handles'[level[t]] : handles'[level[t]][i] = t
                 \/ isCancel /\ (t = joining' \/ pc[t] = "exited")
      <4>1. \/ \E i \in DOMAIN handles[level[t]] : handles[level[t]][i] = t
            \/ isCancel /\ (t = joining \/ pc[t] = "exited")
        BY <3>2 DEF BaseInv, HandleInv
      <4>2. level[t] \in Levels /\ t # joining
        BY <2>1 DEF BaseInv, TypeOK
      <4>3. ASSUME level[t] = l, NEW i \in DOMAIN handles[l], handles[l][i] = t
            PROVE  t = joining' \/ \E j \in DOMAIN handles'[l] : handles'[l][j] = t
        <5>1. CASE i = 1
          BY <2>1, <2>3, <4>3, <5>1
        <5>2. CASE i # 1
          <6>1. i - 1 \in DOMAIN handles'[l] /\ handles'[l][i - 1] = handles[l][(i - 1) + 1]
                /\ (i - 1) + 1 = i
            BY <2>4, <4>3, <5>2
          <6>2. QED
            BY <4>3, <6>1
        <5>3. QED
          BY <5>1, <5>2
      <4>4. QED
        BY <2>2, <2>3, <4>1, <4>2, <4>3
    <3>3. QED
      BY <2>1, <2>3, <3>1, <3>2 DEF HandleInv
  <2>9. QED
    BY <2>6, <2>7, <2>8 DEF BaseInv
<1>5. ASSUME NEW l \in Levels, LevelJoined(l) PROVE BaseInv'
  <2>1. /\ UNCHANGED <<pc, workerVars, tasks, issued, isCancel, joining, overlap, missed,
                       missedFull, spurious>>
        /\ closing' \in {"join1", "closed"}
    BY <1>5 DEF LevelJoined
  <2>2. TypeOK'
    BY <2>1 DEF BaseInv, TypeOK, workerVars, Workers
  <2>3. PlaceInv' /\ HandleInv'
    BY <2>1 DEF BaseInv, PlaceInv, HandleInv, workerVars
  <2>4. QED
    BY <2>2, <2>3 DEF BaseInv
<1>6. QED
  BY <1>1, <1>2, <1>3, <1>4, <1>5 DEF CloseProceeds

-----------------------------------------------------------------------------
(* close() *)

\* A level that close() has finished with, while nobody outside schedules.
LEMMA QuietKeepsClose ==
  ASSUME BaseInv, CloseInv, Quiet
  PROVE  CloseInv'
<1>1. \A l \in Levels : Workers(l)' = Workers(l)
  BY DEF Quiet, Workers
<1>2. \A t \in Threads : pc[t] = "exited" => pc'[t] = "exited"
  BY DEF Quiet
<1>3. UNCHANGED <<handles, isCancel, closing, joining, overlap>>
  BY DEF Quiet, closeVars
<1>4. \A l \in Levels : (\A t \in Workers(l) : pc[t] = "exited")
                          => \A t \in Workers(l)' : pc'[t] = "exited"
  BY <1>1, <1>2 DEF Workers
<1>5. isCancel' /\ ~overlap' => \A c \in Clients : pc'[c] = "idle"
  BY <1>3 DEF Quiet, CloseInv
<1>6. QED
  BY <1>3, <1>4, <1>5 DEF CloseInv, Levels

\* A thread is made by a client for level 0, or by a worker of level 0 for level
\* 1: neither is left for a level that was joined.
LEMMA AddThreadKeepsClose ==
  ASSUME BaseInv, CloseInv, NEW x \in Clients \cup Threads, addThread(x)
  PROVE  CloseInv'
<1>1. pc[x] = "make" /\ UNCHANGED closeVars
  BY DEF addThread
<1>2. x \in Threads => x \in Workers(0)
  BY <1>1 DEF BaseInv, PlaceInv, SchedulePlaces, Workers
<1>3. x \in Clients => overlap \/ ~isCancel
  BY <1>1 DEF CloseInv
<1>4. CASE x \in Clients
  BY <1>1, <1>3, <1>4 DEF CloseInv, closeVars, BaseInv, TypeOK
<1>5. CASE x \in Threads
  <2>1. closing \in {"join1", "closed"} => overlap
    BY <1>1, <1>2, <1>5 DEF CloseInv
  <2>2. \A c \in Clients : pc[c] = "idle" => pc'[c] = "idle"
    BY <1>1, <1>5, SchedulerAssumption
       DEF addThread, makeThread, Goto, BaseInv, TypeOK
  <2>3. QED
    BY <1>1, <2>1, <2>2 DEF CloseInv, closeVars
<1>6. QED
  BY <1>4, <1>5

\* Each step of close() itself.
LEMMA CloseKeepsClose ==
  ASSUME BaseInv, CloseInv, Cancel \/ CloseProceeds
  PROVE  CloseInv'
<1> USE SchedulerAssumption
<1>1. CASE Cancel
  BY <1>1 DEF Cancel, CloseInv
<1>2. CASE Joined
  BY <1>2 DEF Joined, CloseInv, workerVars, Workers
<1>3. ASSUME NEW l \in Levels, notify_all(l) PROVE CloseInv'
  <2>1. closing \in {"notify0", "notify1"} /\ closing' \in {"notify1", "join0"}
        /\ UNCHANGED <<isCancel, joining, overlap>>
    BY <1>3 DEF notify_all
  <2>2. \A c \in Clients : pc'[c] = pc[c]
    BY <1>3 DEF notify_all, Workers, BaseInv, TypeOK
  <2>3. QED
    BY <2>1, <2>2 DEF CloseInv
<1>4. ASSUME NEW l \in Levels, PopHandle(l) PROVE CloseInv'
  <2>1. /\ UNCHANGED <<pc, level, isCancel, closing, overlap>>
        /\ closing = (IF l = 0 THEN "join0" ELSE "join1")
        /\ handles' = [handles EXCEPT ![l] = Tail(@)] /\ handles[l] # <<>>
    BY <1>4 DEF PopHandle
  <2>2. l = 1 => handles'[0] = handles[0]
    BY <1>4, <2>1 DEF BaseInv, HandleInv, Levels
  <2>3. QED
    BY <1>4, <2>1, <2>2 DEF CloseInv, Levels, Workers
<1>5. ASSUME NEW l \in Levels, LevelJoined(l) PROVE CloseInv'
  <2>1. /\ UNCHANGED <<pc, workerVars, isCancel, joining, overlap>>
        /\ closing = (IF l = 0 THEN "join0" ELSE "join1")
        /\ closing' = (IF l = 0 THEN "join1" ELSE "closed")
        /\ joining = Nobody /\ handles[l] = <<>>
    BY <1>5 DEF LevelJoined
  <2>2. ASSUME NEW t \in Workers(l) PROVE pc[t] = "exited"
    <3>1. t \in Threads /\ pc[t] # "none" /\ level[t] = l /\ t # Nobody
      BY <2>2 DEF Workers
    <3>2. DOMAIN handles[l] = {}
      BY <2>1
    <3>3. QED
      BY <2>1, <3>1, <3>2 DEF BaseInv, HandleInv
  <2>3. \A k \in Levels : Workers(k)' = Workers(k)
    BY <2>1 DEF Workers, workerVars
  <2>4. QED
    BY <1>5, <2>1, <2>2, <2>3 DEF CloseInv, Levels, workerVars
<1>6. QED
  BY <1>1, <1>2, <1>3, <1>4, <1>5 DEF CloseProceeds

\* BaseInv and CloseInv are inductive together.
LEMMA BaseInvariant == Spec => [](BaseInv /\ CloseInv)
<1>1. Init => BaseInv /\ CloseInv
  <2>1. Init => CloseInv
    BY DEF Init, CloseInv
  <2>2. QED
    BY <2>1, InitBase
<1>2. BaseInv /\ CloseInv /\ [Next]_vars => BaseInv' /\ CloseInv'
  <2> SUFFICES ASSUME BaseInv, CloseInv, [Next]_vars
               PROVE  BaseInv' /\ CloseInv'
    OBVIOUS
  <2>1. ASSUME NEW x \in Clients \cup Threads, schedule(x) \/ Proceed(x) \/ SpuriousFull(x)
        PROVE  BaseInv' /\ CloseInv'
    <3>1. CASE addThread(x)
      BY <3>1, AddThreadKeepsBase, AddThreadKeepsClose
    <3>2. CASE notify_one(x)
      BY <3>2, NotifyOneKeepsBase, QuietKeepsClose
    <3>3. QED
      BY <2>1, <3>1, <3>2, ScheduleKeepsBase, QuietKeepsClose DEF Proceed
  <2>2. ASSUME NEW t \in Threads, Work(t) \/ SpuriousWakeup(t)
        PROVE  BaseInv' /\ CloseInv'
    <3>1. CASE Register(t)
      BY <3>1, RegisterKeepsBase, QuietKeepsClose
    <3>2. CASE NotifyProducer(t)
      BY <3>2, NotifyProducerKeepsBase, QuietKeepsClose
    <3>3. QED
      BY <2>2, <3>1, <3>2, WorkKeepsBase, QuietKeepsClose DEF Work
  <2>3. CASE Cancel \/ CloseProceeds
    BY <2>3, CloseKeepsBase, CloseKeepsClose
  <2>4. CASE UNCHANGED vars
    <3>1. TypeOK' /\ PlaceInv' /\ HandleInv'
      BY <2>4 DEF vars, workerVars, closeVars, BaseInv, TypeOK, PlaceInv, HandleInv, Workers
    <3>2. CloseInv'
      BY <2>4 DEF vars, workerVars, closeVars, CloseInv, Workers
    <3>3. QED
      BY <3>1, <3>2 DEF BaseInv
  <2>5. QED
    BY <2>1, <2>2, <2>3, <2>4 DEF Next
<1>3. QED
  BY <1>1, <1>2, PTL DEF Spec

\* The state keeps its types; a thread marked as working is registered and every
\* handle is that of a thread made for its level.
THEOREM SchedulerTypes == Spec => []TypeOK
<1>1. BaseInv => TypeOK
  BY DEF BaseInv
<1>2. QED
  BY <1>1, BaseInvariant, PTL

\* No level has more threads than its limit before close(), however many callers
\* find at once that a thread is wanted: each thread has a handle, and a handle is
\* only added under the lock while there are fewer than the limit.
THEOREM ThreadsWithinLimit == Spec => []ThreadLimit
<1>1. BaseInv => ThreadLimit
  <2> SUFFICES ASSUME BaseInv, ~isCancel, NEW l \in Levels
               PROVE  Cardinality(Workers(l)) <= Limit
    BY DEF ThreadLimit
  <2> DEFINE h == handles[l]
             D == 1 .. Len(h)
  <2>1. h \in Seq(Threads) /\ Len(h) \in Nat /\ DOMAIN h = D /\ Len(h) <= Limit
    BY LenProperties DEF BaseInv, HandleInv
  <2>2. \A i \in D : h[i] \in Workers(l)
    BY <2>1 DEF BaseInv, TypeOK
  <2>3. \A t \in Workers(l) : \E i \in D : h[i] = t
    BY <2>1 DEF BaseInv, HandleInv, Workers
  <2>4. h \in [D -> Workers(l)]
    <3>1. h \in [D -> Threads]
      BY <2>1, LenProperties
    <3>2. QED
      BY <2>2, <3>1
  <2> HIDE DEF h, D
  <2>5. h \in Surjection(D, Workers(l))
    BY <2>3, <2>4 DEF Surjection
  <2>6. IsFiniteSet(D) /\ Cardinality(D) = Len(h)
    BY <2>1, FS_Interval DEF D
  <2>7. Cardinality(Workers(l)) <= Cardinality(D) /\ IsFiniteSet(Workers(l))
    BY <2>5, <2>6, FS_Surjection
  <2>8. Cardinality(Workers(l)) \in Nat
    BY <2>7, FS_CardinalityType
  <2>9. QED
    BY <2>1, <2>6, <2>7, <2>8, SchedulerAssumption
<1>2. QED
  BY <1>1, BaseInvariant, PTL

\* When close() has returned and overlapped with no outside call of schedule,
\* every thread ever made has exited and no handle is left.
THEOREM CloseJoinsEveryone == Spec => []JoinedWhenClosed
<1>1. CloseInv => JoinedWhenClosed
  BY DEF CloseInv, JoinedWhenClosed, isClosed, Levels
<1>2. QED
  BY <1>1, BaseInvariant, PTL

-----------------------------------------------------------------------------
(* Tasks and workers *)

\* The workers of a level that do not sleep, and the callers that will notify it.
Up(l) == {t \in Workers(l) : pc[t] \notin {"falling", "asleep"}}
Announcing(l) == Scheduling(l, {"add", "make", "notify"})

\* NoStrandedTask at one level.
Served(l) == tasks[l] > 0 /\ ~isCancel /\ l \notin missed => Up(l) # {} \/ Announcing(l) # {}

LEMMA ServedIsNoStrandedTask == NoStrandedTask <=> \A l \in Levels : Served(l)
BY DEF NoStrandedTask, Served, Up, Announcing

\* A step that adds no task and puts neither a worker to sleep nor a caller out of
\* the way.
LEMMA ServedStays ==
  ASSUME NEW l, Served(l), tasks'[l] > 0 => tasks[l] > 0,
         isCancel => isCancel', missed \subseteq missed',
         Up(l) \subseteq Up(l)', Announcing(l) \subseteq Announcing(l)'
  PROVE  Served(l)'
BY DEF Served

\* The steps of schedule before the notification.
LEMMA ScheduleServes ==
  ASSUME BaseInv, NEW x \in Clients \cup Threads, NEW l \in Levels, Served(l),
         schedule(x) \/ CheckSize(x) \/ SleepFull(x) \/ SpuriousFull(x) \/ Put(x)
           \/ CheckThreads(x) \/ addThread(x)
  PROVE  Served(l)'
<1> USE SchedulerAssumption
<1>1. UNCHANGED <<isCancel, missed>>
  BY DEF schedule, CheckSize, SleepFull, SpuriousFull, Put, CheckThreads, addThread, closeVars
<1>2. \A y \in Clients \cup Threads : y # x /\ pc[y] # "none" => pc'[y] = pc[y]
  BY DEF schedule, CheckSize, SleepFull, SpuriousFull, Put, CheckThreads, addThread,
         makeThread, Goto, BaseInv, TypeOK
<1>3. /\ pc'[x] \in SchedulePlaces
      /\ pc[x] \in {"add", "make", "notify"} => pc'[x] \in {"add", "make", "notify"}
      /\ Put(x) => pc'[x] = "add"
  BY DEF schedule, CheckSize, SleepFull, SpuriousFull, Put, CheckThreads, addThread,
         makeThread, Goto, BaseInv, TypeOK, SchedulePlaces
<1>4. \A t \in Threads : pc[t] # "none" => level'[t] = level[t]
  BY DEF schedule, CheckSize, SleepFull, SpuriousFull, Put, CheckThreads, addThread,
         makeThread, workerVars, BaseInv, TypeOK
<1>5. Up(l) \subseteq Up(l)'
  BY <1>2, <1>3, <1>4 DEF Up, Workers, SchedulePlaces
<1>6. Announcing(l) \subseteq Announcing(l)'
  BY <1>2, <1>3 DEF Announcing, Scheduling
<1>7. CASE Put(x) /\ l = LevelOf(x)
  <2>1. x \in Announcing(l)'
    BY <1>3, <1>7 DEF Announcing, Scheduling
  <2>2. QED
    BY <2>1 DEF Served
<1>8. CASE ~(Put(x) /\ l = LevelOf(x))
  <2>1. tasks'[l] = tasks[l]
    BY <1>8 DEF schedule, CheckSize, SleepFull, SpuriousFull, Put, CheckThreads, addThread,
                BaseInv, TypeOK
  <2>2. QED
    BY <1>1, <1>5, <1>6, <2>1, ServedStays
<1>9. QED
  BY <1>7, <1>8

\* The notification: the level has a worker, and it is up already, is woken, or
\* is about to sleep and misses the notification.
LEMMA NotifyOneServes ==
  ASSUME BaseInv, NEW x \in Clients \cup Threads, NEW l \in Levels, Served(l), notify_one(x)
  PROVE  Served(l)'
<1> USE SchedulerAssumption
<1> DEFINE back == IF x \in Clients THEN "idle" ELSE "run"
           asleep == {t \in Workers(LevelOf(x)) : pc[t] = "asleep"}
<1>1. /\ pc[x] = "notify" /\ missed' = Missed(LevelOf(x))
      /\ UNCHANGED <<workerVars, tasks, isCancel>>
      /\ \/ asleep = {} /\ Goto(x, back)
         \/ \E t \in asleep : pc' = [pc EXCEPT ![x] = back, ![t] = "test"]
  BY DEF notify_one, closeVars
<1>2. /\ pc'[x] = back
      /\ \A y \in (Clients \cup Threads) \ {x} :
           pc'[y] = pc[y] \/ (y \in asleep /\ pc'[y] = "test")
  BY <1>1 DEF Goto, BaseInv, TypeOK, Workers
<1>3. Up(l) \subseteq Up(l)'
  <2>1. \A t \in Up(l) : t \in Threads /\ pc'[t] \notin {"none", "falling", "asleep"}
    BY <1>2 DEF Up, Workers
  <2>2. QED
    BY <1>1, <2>1 DEF Up, Workers, workerVars
<1>4. missed \subseteq missed'
  BY <1>1 DEF Missed
<1>5. CASE l # LevelOf(x)
  <2>1. Announcing(l) \subseteq Announcing(l)'
    BY <1>2, <1>5 DEF Announcing, Scheduling, Workers
  <2>2. QED
    BY <1>1, <1>3, <1>4, <2>1, ServedStays
<1>6. CASE l = LevelOf(x)
  <2>1. CASE \E t \in asleep : pc' = [pc EXCEPT ![x] = back, ![t] = "test"]
    <3>1. PICK t \in asleep : pc' = [pc EXCEPT ![x] = back, ![t] = "test"]
      BY <2>1
    <3>2. t \in Threads /\ t # x /\ level[t] = l /\ pc'[t] = "test"
      BY <1>1, <1>6, <3>1 DEF Workers, BaseInv, TypeOK
    <3>3. t \in Up(l)'
      BY <1>1, <3>2 DEF Up, Workers, workerVars
    <3>4. QED
      BY <3>3 DEF Served
  <2>2. CASE asleep = {} /\ (\E t \in Workers(l) : pc[t] = "falling")
    BY <1>1, <1>6, <2>2 DEF Missed, Served
  <2>3. CASE asleep = {} /\ ~(\E t \in Workers(l) : pc[t] = "falling")
    <3>1. First[l] \in Workers(l)
      BY DEF BaseInv, PlaceInv, Workers
    <3>2. First[l] \in Up(l)
      BY <1>6, <2>3, <3>1 DEF Up
    <3>3. QED
      BY <1>3, <3>2 DEF Served
  <2>4. QED
    BY <1>1, <2>1, <2>2, <2>3
<1>7. QED
  BY <1>5, <1>6

\* A worker falls asleep only when it has seen an empty queue.
LEMMA WorkServes ==
  ASSUME BaseInv, NEW t \in Threads, NEW l \in Levels, Served(l),
         Work(t) \/ SpuriousWakeup(t)
  PROVE  Served(l)'
<1> USE SchedulerAssumption
<1>1. UNCHANGED <<level, isCancel, missed>>
  BY DEF Work, Register, Top, Test, Sleep, SpuriousWakeup, MarkWorking, try_pop, NothingToPop,
         TaskEnds, MarkFree, NotifyProducer, workerVars, closeVars
<1>2. tasks'[l] > 0 => tasks[l] > 0
  <2>1. CASE try_pop(t)
    BY <2>1 DEF try_pop, BaseInv, TypeOK
  <2>2. CASE ~try_pop(t)
    BY <2>2 DEF Work, Register, Top, Test, Sleep, SpuriousWakeup, MarkWorking, NothingToPop,
                TaskEnds, MarkFree, NotifyProducer
  <2>3. QED
    BY <2>1, <2>2
<1>3. /\ \A y \in Clients \cup Threads :
           y # t => pc'[y] = pc[y] \/ (pc[y] = "full" /\ pc'[y] = "put")
      /\ pc[t] \notin SchedulePlaces \cup {"none"}
      /\ pc'[t] # "none"
  BY DEF Work, Register, Top, Test, Sleep, SpuriousWakeup, MarkWorking, try_pop, NothingToPop,
         TaskEnds, MarkFree, NotifyProducer, Scheduling, Goto, BaseInv, TypeOK, SchedulePlaces
<1>4. Announcing(l) \subseteq Announcing(l)'
  BY <1>3 DEF Announcing, Scheduling, SchedulePlaces
<1>5. CASE Test(t) /\ tasks[level[t]] = 0 /\ ~isCancel
  <2>1. UNCHANGED tasks
    BY <1>5 DEF Test
  <2>2. CASE level[t] = l
    BY <1>5, <2>1, <2>2 DEF Served
  <2>3. CASE level[t] # l
    <3>1. Up(l) \subseteq Up(l)'
      BY <1>1, <1>3, <2>3 DEF Up, Workers
    <3>2. QED
      BY <1>1, <1>2, <1>4, <3>1, ServedStays
  <2>4. QED
    BY <2>2, <2>3
<1>6. CASE ~(Test(t) /\ tasks[level[t]] = 0 /\ ~isCancel)
  <2>0. tasks[level[t]] \in Nat
    BY DEF BaseInv, TypeOK
  <2>1. pc'[t] \in {"falling", "asleep"} => pc[t] \in {"falling", "asleep"}
    BY <1>6, <2>0 DEF Work, Register, Top, Test, Sleep, SpuriousWakeup, MarkWorking, try_pop,
                NothingToPop, TaskEnds, MarkFree, NotifyProducer, Scheduling, Goto, BaseInv, TypeOK
  <2>2. Up(l) \subseteq Up(l)'
    BY <1>1, <1>3, <2>1 DEF Up, Workers
  <2>3. QED
    BY <1>1, <1>2, <1>4, <2>2, ServedStays
<1>7. QED
  BY <1>5, <1>6

\* No task is left alone with sleeping workers, unless a notification fell between
\* a worker's look at the queue and its sleep.
THEOREM TasksServed == Spec => []NoStrandedTask
<1> DEFINE Inv == \A l \in Levels : Served(l)
<1>1. Init => Inv
  BY DEF Init, Served
<1>2. BaseInv /\ CloseInv /\ Inv /\ [Next]_vars => Inv'
  <2> SUFFICES ASSUME BaseInv, CloseInv, [Next]_vars, NEW l \in Levels, Served(l)
               PROVE  Served(l)'
    BY DEF Levels
  <2>1. ASSUME NEW x \in Clients \cup Threads, schedule(x) \/ Proceed(x) \/ SpuriousFull(x)
        PROVE  Served(l)'
    BY <2>1, ScheduleServes, NotifyOneServes DEF Proceed
  <2>2. ASSUME NEW t \in Threads, Work(t) \/ SpuriousWakeup(t)
        PROVE  Served(l)'
    BY <2>2, WorkServes
  <2>3. CASE Cancel
    BY <2>3 DEF Cancel, Served
  <2>4. CASE CloseProceeds
    <3>1. isCancel /\ isCancel' = isCancel
      BY <2>4 DEF CloseProceeds, Joined, notify_all, PopHandle, LevelJoined, CloseInv
    <3>2. QED
      BY <3>1 DEF Served
  <2>5. CASE UNCHANGED vars
    BY <2>5 DEF vars, workerVars, closeVars, Served, Up, Announcing, Workers, Scheduling
  <2>6. QED
    BY <2>1, <2>2, <2>3, <2>4, <2>5 DEF Next
<1>3. Inv => NoStrandedTask
  BY ServedIsNoStrandedTask
<1> HIDE DEF Inv
<1>4. QED
  BY <1>1, <1>2, <1>3, BaseInvariant, PTL DEF Spec

-----------------------------------------------------------------------------
(* Producers and the full queue *)

Popped(l) == {t \in Workers(l) : pc[t] = "popped"}

\* What one step may do to those who put, wait or have just popped at a level.
LEMMA ScheduleAtLevel ==
  ASSUME BaseInv, NEW x \in Clients \cup Threads, NEW l \in Levels,
         schedule(x) \/ CheckSize(x) \/ SleepFull(x) \/ SpuriousFull(x) \/ Put(x)
           \/ CheckThreads(x) \/ addThread(x) \/ notify_one(x)
  PROVE  /\ Popped(l)' = Popped(l)
         /\ missedFull' = missedFull
         /\ \A y \in (Clients \cup Threads) \ {x} :
              \A at \in {"filling", "full", "put"} : pc'[y] = at <=> pc[y] = at
<1> USE SchedulerAssumption
<1>1. missedFull' = missedFull
  BY DEF schedule, CheckSize, SleepFull, SpuriousFull, Put, CheckThreads, addThread, notify_one
<1>2. \A y \in (Clients \cup Threads) \ {x} :
        \/ pc'[y] = pc[y]
        \/ pc[y] = "asleep" /\ pc'[y] = "test"
        \/ pc[y] = "none" /\ pc'[y] = "start"
  BY DEF schedule, CheckSize, SleepFull, SpuriousFull, Put, CheckThreads, addThread,
         makeThread, notify_one, Goto, BaseInv, TypeOK, Workers
<1>3. pc[x] # "popped" /\ pc'[x] # "popped"
  BY DEF schedule, CheckSize, SleepFull, SpuriousFull, Put, CheckThreads, addThread,
         makeThread, notify_one, Goto, BaseInv, TypeOK, Workers, PlaceInv, SchedulePlaces
<1>4. \A t \in Threads : pc[t] # "none" => level'[t] = level[t]
  BY DEF schedule, CheckSize, SleepFull, SpuriousFull, Put, CheckThreads, addThread,
         makeThread, notify_one, workerVars, BaseInv, TypeOK
<1>5. \A t \in Threads : pc'[t] = "popped" <=> pc[t] = "popped"
  BY <1>2, <1>3
<1>6. Popped(l)' = Popped(l)
  <2>1. \A t \in Threads : t \in Popped(l)' <=> t \in Popped(l)
    BY <1>4, <1>5 DEF Popped, Workers
  <2>2. Popped(l) \subseteq Threads /\ Popped(l)' \subseteq Threads
    BY DEF Popped, Workers
  <2>3. QED
    BY <2>1, <2>2
<1>7. QED
  BY <1>1, <1>2, <1>6

\* NoStrandedProducer at one level holds of those about to sleep already.
Released(l) ==
  Scheduling(l, {"filling", "full"}) # {} /\ l \notin missedFull =>
    tasks[l] > 0 \/ Scheduling(l, {"put"}) # {} \/ Popped(l) # {}

\* A caller that decides to sleep has seen a full queue, and one that goes on puts
\* its task.
LEMMA ScheduleReleases ==
  ASSUME BaseInv, NEW x \in Clients \cup Threads, NEW l \in Levels, Released(l),
         schedule(x) \/ Proceed(x) \/ SpuriousFull(x)
  PROVE  Released(l)'
<1> USE SchedulerAssumption
<1>1. /\ Popped(l)' = Popped(l)
      /\ missedFull' = missedFull
      /\ \A y \in (Clients \cup Threads) \ {x} :
           \A at \in {"filling", "full", "put"} : pc'[y] = at <=> pc[y] = at
  BY ScheduleAtLevel DEF Proceed
<1>2. tasks[l] \in Nat /\ LevelOf(x) \in Levels
  BY DEF BaseInv, TypeOK, LevelOf, Levels
<1>3. CASE Put(x)
  <2>1. pc'[x] = "add" /\ pc[x] = "put" /\ tasks' = [tasks EXCEPT ![LevelOf(x)] = @ + 1]
    BY <1>3 DEF Put, Goto, BaseInv, TypeOK
  <2>2. CASE LevelOf(x) = l
    <3>1. tasks'[l] > 0
      BY <1>2, <2>1, <2>2 DEF BaseInv, TypeOK
    <3>2. QED
      BY <3>1 DEF Released
  <2>3. CASE LevelOf(x) # l
    <3>1. tasks'[l] = tasks[l]
      BY <1>2, <2>1, <2>3 DEF BaseInv, TypeOK
    <3>2. /\ Scheduling(l, {"filling", "full"})' = Scheduling(l, {"filling", "full"})
          /\ Scheduling(l, {"put"})' = Scheduling(l, {"put"})
      BY <1>1, <2>3 DEF Scheduling
    <3>3. QED
      BY <1>1, <3>1, <3>2 DEF Released
  <2>4. QED
    BY <2>2, <2>3
<1>4. CASE ~Put(x)
  <2>1. tasks' = tasks
    BY <1>4 DEF schedule, Proceed, CheckSize, SleepFull, SpuriousFull, CheckThreads, addThread,
                notify_one
  <2>2. pc[x] # "put"
    BY <1>4 DEF schedule, Proceed, CheckSize, SleepFull, SpuriousFull, CheckThreads, addThread,
                notify_one, Workers
  <2>3. Scheduling(l, {"put"}) \subseteq Scheduling(l, {"put"})'
    BY <1>1, <2>2 DEF Scheduling
  <2>4. CASE pc'[x] \notin {"filling", "full"} \/ pc[x] \in {"filling", "full"} \/ LevelOf(x) # l
    <3>1. Scheduling(l, {"filling", "full"})' \subseteq Scheduling(l, {"filling", "full"})
      BY <1>1, <2>4 DEF Scheduling
    <3>2. QED
      BY <1>1, <2>1, <2>3, <3>1 DEF Released
  <2>5. CASE pc'[x] \in {"filling", "full"} /\ pc[x] \notin {"filling", "full"} /\ LevelOf(x) = l
    <3>1. CheckSize(x)
      BY <1>4, <2>5 DEF schedule, Proceed, SleepFull, SpuriousFull, CheckThreads, addThread,
                        makeThread, notify_one, Goto, BaseInv, TypeOK, Workers
    <3>2. tasks[l] >= MaxQueue
      BY <2>5, <3>1 DEF CheckSize, Goto, BaseInv, TypeOK
    <3>3. tasks'[l] > 0
      BY <1>2, <2>1, <3>2
    <3>4. QED
      BY <3>3 DEF Released
  <2>6. QED
    BY <2>4, <2>5
<1>5. QED
  BY <1>3, <1>4

\* A worker's step other than a pop and the notification after it.
LEMMA WorkAtLevel ==
  ASSUME BaseInv, NEW t \in Threads, NEW l \in Levels, Work(t) \/ SpuriousWakeup(t),
         ~try_pop(t), ~NotifyProducer(t)
  PROVE  /\ Popped(l)' = Popped(l)
         /\ UNCHANGED <<tasks, missedFull, spurious>>
         /\ \A at \in SUBSET SchedulePlaces : Scheduling(l, at)' = Scheduling(l, at)
<1> USE SchedulerAssumption
<1>1. UNCHANGED <<level, tasks, missedFull, spurious>>
  BY DEF Work, Register, Top, Test, Sleep, SpuriousWakeup, MarkWorking, NothingToPop,
         TaskEnds, MarkFree, workerVars
<1>2. /\ \A y \in (Clients \cup Threads) \ {t} : pc'[y] = pc[y]
      /\ pc[t] \notin SchedulePlaces \cup {"popped", "none"}
      /\ pc'[t] \notin SchedulePlaces \cup {"popped", "none"}
  BY DEF Work, Register, Top, Test, Sleep, SpuriousWakeup, MarkWorking, NothingToPop,
         TaskEnds, MarkFree, Goto, BaseInv, TypeOK, SchedulePlaces
<1>3. Popped(l)' = Popped(l)
  <2>1. \A u \in Threads : u \in Popped(l)' <=> u \in Popped(l)
    BY <1>1, <1>2 DEF Popped, Workers
  <2>2. Popped(l) \subseteq Threads /\ Popped(l)' \subseteq Threads
    BY DEF Popped, Workers
  <2>3. QED
    BY <2>1, <2>2
<1>4. ASSUME NEW at \in SUBSET SchedulePlaces PROVE Scheduling(l, at)' = Scheduling(l, at)
  BY <1>2 DEF Scheduling
<1>5. QED
  BY <1>1, <1>3, <1>4

\* A pop: the worker is between the pop and the notification.
LEMMA PopAtLevel ==
  ASSUME BaseInv, NEW t \in Threads, NEW l \in Levels, try_pop(t)
  PROVE  /\ \A at \in SUBSET SchedulePlaces : Scheduling(l, at)' = Scheduling(l, at)
         /\ t \notin Popped(l)
         /\ Popped(l)' = IF level[t] = l THEN Popped(l) \cup {t} ELSE Popped(l)
         /\ tasks'[l] = IF level[t] = l THEN tasks[l] - 1 ELSE tasks[l]
         /\ tasks[l] \in Nat /\ (level[t] = l => tasks[l] > 0)
         /\ missedFull' = missedFull
<1> USE SchedulerAssumption
<1>1. /\ level[t] \in Levels /\ pc[t] = "pop" /\ tasks[level[t]] > 0
      /\ tasks' = [tasks EXCEPT ![level[t]] = @ - 1]
      /\ UNCHANGED <<level, missedFull>>
  BY DEF try_pop, workerVars, BaseInv, TypeOK
<1>2. /\ \A y \in (Clients \cup Threads) \ {t} : pc'[y] = pc[y]
      /\ pc'[t] = "popped"
  BY DEF try_pop, Goto, BaseInv, TypeOK
<1>3. Popped(l)' = IF level[t] = l THEN Popped(l) \cup {t} ELSE Popped(l)
  <2>1. \A u \in Threads : u \in Popped(l)' <=> u \in Popped(l) \/ (u = t /\ level[t] = l)
    BY <1>1, <1>2 DEF Popped, Workers
  <2>2. Popped(l) \subseteq Threads /\ Popped(l)' \subseteq Threads
    BY DEF Popped, Workers
  <2>3. QED
    BY <2>1, <2>2
<1>4. ASSUME NEW at \in SUBSET SchedulePlaces PROVE Scheduling(l, at)' = Scheduling(l, at)
  BY <1>1, <1>2 DEF Scheduling, SchedulePlaces
<1>5. t \notin Popped(l)
  BY <1>1 DEF Popped
<1>6. /\ tasks'[l] = IF level[t] = l THEN tasks[l] - 1 ELSE tasks[l]
      /\ tasks[l] \in Nat /\ (level[t] = l => tasks[l] > 0)
  BY <1>1 DEF BaseInv, TypeOK
<1>7. QED
  BY <1>1, <1>3, <1>4, <1>5, <1>6

\* The notification after a pop: the worker goes on to its task, and one caller
\* asleep on the full queue, if there is one, goes on to put.
LEMMA NotifyAtLevel ==
  ASSUME BaseInv, NEW t \in Threads, NEW l \in Levels, NotifyProducer(t)
  PROVE  /\ UNCHANGED <<tasks, spurious>>
         /\ Popped(l)' = Popped(l) \ {t}
         /\ level[t] = l => t \in Popped(l)
         /\ level[t] # l => UNCHANGED <<Popped(l), Scheduling(l, {"put"}),
                                        Scheduling(l, {"filling", "full"})>>
         /\ level[t] # l => (l \in missedFull' <=> l \in missedFull)
         /\ level[t] = l =>
              \/ /\ Scheduling(l, {"put"})' = Scheduling(l, {"put"})
                 /\ Scheduling(l, {"full"}) = {}
                 /\ Scheduling(l, {"filling", "full"})' = Scheduling(l, {"filling"})
              \/ \E x \in Scheduling(l, {"full"}) :
                   Scheduling(l, {"put"})' = Scheduling(l, {"put"}) \cup {x}
         /\ level[t] = l /\ Scheduling(l, {"filling"}) # {} => l \in missedFull'
<1> USE SchedulerAssumption
<1> DEFINE full == Scheduling(level[t], {"full"})
<1>1. /\ level[t] \in Levels /\ pc[t] = "popped" /\ t \notin Clients
      /\ UNCHANGED <<level, tasks, spurious>>
      /\ missedFull' = IF Scheduling(level[t], {"filling"}) = {} THEN missedFull
                                                         ELSE missedFull \cup {level[t]}
      /\ \/ full = {} /\ Goto(t, "run")
         \/ \E x \in full : pc' = [pc EXCEPT ![x] = "put", ![t] = "run"]
  BY DEF NotifyProducer, workerVars, BaseInv, TypeOK
<1>2. ASSUME full = {}, Goto(t, "run")
      PROVE  /\ pc'[t] = "run"
             /\ \A y \in (Clients \cup Threads) \ {t} : pc'[y] = pc[y]
  BY <1>2 DEF Goto, BaseInv, TypeOK
<1>3. ASSUME NEW x \in full, pc' = [pc EXCEPT ![x] = "put", ![t] = "run"]
      PROVE  /\ pc'[t] = "run" /\ pc'[x] = "put" /\ x # t /\ pc[x] = "full"
             /\ x \in Clients \cup Threads /\ LevelOf(x) = level[t]
             /\ \A y \in (Clients \cup Threads) \ {t, x} : pc'[y] = pc[y]
  BY <1>1, <1>3 DEF Scheduling, BaseInv, TypeOK
<1>4. Popped(l)' = Popped(l) \ {t}
  <2>1. \A u \in Threads : pc'[u] = "popped" <=> pc[u] = "popped" /\ u # t
    BY <1>1, <1>2, <1>3
  <2>2. \A u \in Threads : pc'[u] # "none" <=> pc[u] # "none"
    BY <1>1, <1>2, <1>3
  <2>3. \A u \in Threads : u \in Popped(l)' <=> u \in Popped(l) \ {t}
    BY <1>1, <2>1, <2>2 DEF Popped, Workers
  <2>4. Popped(l) \subseteq Threads /\ Popped(l)' \subseteq Threads
    BY DEF Popped, Workers
  <2>5. QED
    BY <2>3, <2>4
<1>5. (t \in Popped(l)) <=> level[t] = l
  BY <1>1 DEF Popped, Workers
<1>6. level[t] # l => /\ Scheduling(l, {"put"})' = Scheduling(l, {"put"})
                      /\ Scheduling(l, {"filling", "full"})' = Scheduling(l, {"filling", "full"})
  BY <1>1, <1>2, <1>3 DEF Scheduling
<1>7. ASSUME level[t] = l
      PROVE  \/ /\ Scheduling(l, {"put"})' = Scheduling(l, {"put"})
                /\ Scheduling(l, {"full"}) = {}
                /\ Scheduling(l, {"filling", "full"})' = Scheduling(l, {"filling"})
             \/ \E x \in Scheduling(l, {"full"}) :
                  Scheduling(l, {"put"})' = Scheduling(l, {"put"}) \cup {x}
  <2>1. CASE full = {} /\ Goto(t, "run")
    BY <1>1, <1>2, <1>7, <2>1 DEF Scheduling
  <2>2. ASSUME NEW x \in full, pc' = [pc EXCEPT ![x] = "put", ![t] = "run"]
        PROVE  Scheduling(l, {"put"})' = Scheduling(l, {"put"}) \cup {x}
    BY <1>1, <1>3, <1>7, <2>2 DEF Scheduling
  <2>3. QED
    BY <1>1, <1>7, <2>1, <2>2
<1>8. QED
  BY <1>1, <1>4, <1>5, <1>6, <1>7

\* close() only wakes workers that sleep.
LEMMA CloseAtLevel ==
  ASSUME BaseInv, NEW l \in Levels, Cancel \/ CloseProceeds
  PROVE  /\ UNCHANGED <<level, tasks, missedFull, spurious>>
         /\ \A y \in Clients \cup Threads :
              pc'[y] = pc[y] \/ (pc[y] = "asleep" /\ pc'[y] = "test")
         /\ Popped(l)' = Popped(l)
         /\ \A at \in SUBSET SchedulePlaces : Scheduling(l, at)' = Scheduling(l, at)
<1> USE SchedulerAssumption
<1>1. /\ UNCHANGED <<level, tasks, missedFull, spurious>>
      /\ \A y \in Clients \cup Threads : pc'[y] = pc[y] \/ (pc[y] = "asleep" /\ pc'[y] = "test")
  BY DEF Cancel, CloseProceeds, Joined, notify_all, PopHandle, LevelJoined, workerVars,
         BaseInv, TypeOK
<1>2. Popped(l)' = Popped(l)
  <2>1. \A u \in Threads : u \in Popped(l)' <=> u \in Popped(l)
    BY <1>1 DEF Popped, Workers
  <2>2. Popped(l) \subseteq Threads /\ Popped(l)' \subseteq Threads
    BY DEF Popped, Workers
  <2>3. QED
    BY <2>1, <2>2
<1>3. ASSUME NEW at \in SUBSET SchedulePlaces PROVE Scheduling(l, at)' = Scheduling(l, at)
  BY <1>1 DEF Scheduling, SchedulePlaces
<1>4. QED
  BY <1>1, <1>2, <1>3

\* A pop leaves its worker to notify; a notification that finds nobody asleep has
\* either nobody to wake or falls between a caller's look and its sleep.
LEMMA WorkReleases ==
  ASSUME BaseInv, NEW t \in Threads, NEW l \in Levels, Released(l),
         Work(t) \/ SpuriousWakeup(t)
  PROVE  Released(l)'
<1>0. {"filling", "full"} \in SUBSET SchedulePlaces /\ {"put"} \in SUBSET SchedulePlaces
  BY DEF SchedulePlaces
<1>1. CASE try_pop(t)
  <2>1. CASE level[t] = l
    <3>1. Popped(l)' # {}
      BY <1>1, <2>1, PopAtLevel
    <3>2. QED
      BY <3>1 DEF Released
  <2>2. CASE level[t] # l
    <3>1. /\ Popped(l)' = Popped(l) /\ tasks'[l] = tasks[l] /\ missedFull' = missedFull
          /\ Scheduling(l, {"filling", "full"})' = Scheduling(l, {"filling", "full"})
          /\ Scheduling(l, {"put"})' = Scheduling(l, {"put"})
      BY <1>0, <1>1, <2>2, PopAtLevel
    <3>2. QED
      BY <3>1 DEF Released
  <2>3. QED
    BY <2>1, <2>2
<1>2. CASE NotifyProducer(t)
  <2>1. CASE level[t] = l
    <3>1. CASE Scheduling(l, {"put"})' # {}
      BY <3>1 DEF Released
    <3>2. CASE Scheduling(l, {"put"})' = {}
      <4>1. Scheduling(l, {"filling", "full"})' = Scheduling(l, {"filling"})
        BY <1>2, <2>1, <3>2, NotifyAtLevel
      <4>2. Scheduling(l, {"filling"}) # {} => l \in missedFull'
        BY <1>2, <2>1, NotifyAtLevel
      <4>3. QED
        BY <4>1, <4>2 DEF Released
    <3>3. QED
      BY <3>1, <3>2
  <2>2. CASE level[t] # l
    <3>1. /\ Popped(l)' = Popped(l) /\ tasks'[l] = tasks[l]
          /\ l \in missedFull' <=> l \in missedFull
          /\ Scheduling(l, {"filling", "full"})' = Scheduling(l, {"filling", "full"})
          /\ Scheduling(l, {"put"})' = Scheduling(l, {"put"})
      BY <1>2, <2>2, NotifyAtLevel
    <3>2. QED
      BY <3>1 DEF Released
  <2>3. QED
    BY <2>1, <2>2
<1>3. CASE ~try_pop(t) /\ ~NotifyProducer(t)
  <2>1. /\ Popped(l)' = Popped(l) /\ tasks' = tasks /\ missedFull' = missedFull
        /\ Scheduling(l, {"filling", "full"})' = Scheduling(l, {"filling", "full"})
        /\ Scheduling(l, {"put"})' = Scheduling(l, {"put"})
    BY <1>0, <1>3, WorkAtLevel
  <2>2. QED
    BY <2>1 DEF Released
<1>4. QED
  BY <1>1, <1>2, <1>3

\* A caller asleep on a full queue is not forgotten: a task is still to be popped,
\* a worker is about to notify after a pop or another caller is about to put,
\* unless a notification came between a caller's look at the size and its sleep.
THEOREM ProducersReleased == Spec => []NoStrandedProducer
<1> DEFINE Inv == \A l \in Levels : Released(l)
<1>1. Init => Inv
  <2> SUFFICES ASSUME Init, NEW l \in Levels PROVE Released(l)
    OBVIOUS
  <2>1. Scheduling(l, {"filling", "full"}) = {}
    BY SchedulerAssumption DEF Init, Scheduling
  <2>2. QED
    BY <2>1 DEF Released
<1>2. BaseInv /\ Inv /\ [Next]_vars => Inv'
  <2> SUFFICES ASSUME BaseInv, [Next]_vars, NEW l \in Levels, Released(l)
               PROVE  Released(l)'
    BY DEF Levels
  <2>1. ASSUME NEW x \in Clients \cup Threads, schedule(x) \/ Proceed(x) \/ SpuriousFull(x)
        PROVE  Released(l)'
    BY <2>1, ScheduleReleases
  <2>2. ASSUME NEW t \in Threads, Work(t) \/ SpuriousWakeup(t)
        PROVE  Released(l)'
    BY <2>2, WorkReleases
  <2>3. CASE Cancel \/ CloseProceeds
    <3>1. {"filling", "full"} \in SUBSET SchedulePlaces /\ {"put"} \in SUBSET SchedulePlaces
      BY DEF SchedulePlaces
    <3>2. /\ Popped(l)' = Popped(l) /\ tasks' = tasks /\ missedFull' = missedFull
          /\ Scheduling(l, {"filling", "full"})' = Scheduling(l, {"filling", "full"})
          /\ Scheduling(l, {"put"})' = Scheduling(l, {"put"})
      BY <2>3, <3>1, CloseAtLevel
    <3>3. QED
      BY <3>2 DEF Released
  <2>4. CASE UNCHANGED vars
    BY <2>4 DEF vars, workerVars, Released, Popped, Workers, Scheduling
  <2>5. QED
    BY <2>1, <2>2, <2>3, <2>4 DEF Next
<1>3. Inv => NoStrandedProducer
  <2> SUFFICES ASSUME NEW l \in Levels, Released(l), Scheduling(l, {"full"}) # {}, l \notin missedFull
               PROVE  tasks[l] > 0 \/ Scheduling(l, {"put"}) # {} \/ \E t \in Workers(l) : pc[t] = "popped"
    BY DEF NoStrandedProducer
  <2>1. Scheduling(l, {"filling", "full"}) # {}
    BY DEF Scheduling
  <2>2. QED
    BY <2>1 DEF Released, Popped
<1> HIDE DEF Inv
<1>4. QED
  BY <1>1, <1>2, <1>3, BaseInvariant, PTL DEF Spec

-----------------------------------------------------------------------------
(* How far max_size is exceeded *)

FiniteInv == \A l \in Levels : IsFiniteSet(Workers(l))

Callers(l) == IF l = 0 THEN Clients ELSE Workers(0)

\* OvershootBounded at one level.
Within(l) ==
  l \notin spurious =>
    tasks[l] + Cardinality(Scheduling(l, {"put"})) + Cardinality(Popped(l))
      < MaxQueue + Cardinality(Callers(l)) + Cardinality(Workers(l))

\* A thread that was made stays one of its level, and a step makes one at most.
LEMMA WorkersGrow ==
  ASSUME BaseInv, [Next]_vars, NEW l \in Levels
  PROVE  /\ Workers(l) \subseteq Workers(l)'
         /\ Workers(l)' # Workers(l) => \E x \in Clients \cup Threads : addThread(x)
         /\ \E t \in Threads : Workers(l)' \subseteq Workers(l) \cup {t}
<1> USE SchedulerAssumption
<1>0. First[0] \in Threads
  BY DEF Levels
<1>1. CASE Quiet
  <2>1. Workers(l)' = Workers(l)
    BY <1>1 DEF Quiet, Workers
  <2>2. QED
    BY <1>0, <2>1
<1>2. ASSUME NEW x \in Clients \cup Threads, addThread(x)
      PROVE  /\ Workers(l) \subseteq Workers(l)'
             /\ \E t \in Threads : Workers(l)' \subseteq Workers(l) \cup {t}
  <2>1. ASSUME NEW t \in Threads, makeThread(x, t)
        PROVE  /\ Workers(l) \subseteq Workers(l)'
               /\ Workers(l)' \subseteq Workers(l) \cup {t}
    <3>1. /\ pc[t] = "none" /\ pc[x] = "make"
          /\ \A u \in Threads \ {t} : level'[u] = level[u] /\ (pc'[u] = "none" <=> pc[u] = "none")
      BY <1>2, <2>1 DEF addThread, makeThread, BaseInv, TypeOK
    <3>2. QED
      BY <3>1 DEF Workers
  <2>2. ASSUME Goto(x, "notify"), UNCHANGED workerVars
        PROVE  Workers(l)' = Workers(l)
    BY <1>2, <2>2 DEF addThread, Goto, Workers, workerVars, BaseInv, TypeOK
  <2>3. QED
    BY <1>0, <1>2, <2>1, <2>2 DEF addThread
<1>3. CASE Cancel \/ CloseProceeds
  <2>1. Workers(l)' = Workers(l)
    BY <1>3, CloseAtLevel DEF Workers
  <2>2. QED
    BY <1>0, <2>1
<1>4. CASE UNCHANGED vars
  <2>1. Workers(l)' = Workers(l)
    BY <1>4 DEF vars, workerVars, Workers
  <2>2. QED
    BY <1>0, <2>1
<1>5. ASSUME NEW x \in Clients \cup Threads, schedule(x) \/ Proceed(x) \/ SpuriousFull(x)
      PROVE  Quiet \/ addThread(x)
  BY <1>5, ScheduleKeepsBase, NotifyOneKeepsBase DEF Proceed
<1>6. ASSUME NEW t \in Threads, Work(t) \/ SpuriousWakeup(t)
      PROVE  Quiet
  BY <1>6, WorkKeepsBase, RegisterKeepsBase, NotifyProducerKeepsBase DEF Work
<1>7. QED
  BY <1>1, <1>2, <1>3, <1>4, <1>5, <1>6 DEF Next

LEMMA WorkersFinite == Spec => []FiniteInv
<1>1. Init => FiniteInv
  <2> SUFFICES ASSUME Init, NEW l \in Levels PROVE IsFiniteSet(Workers(l))
    BY DEF FiniteInv
  <2>1. Workers(l) \subseteq {First[0]} \cup {First[1]}
    BY SchedulerAssumption DEF Init, Workers
  <2>2. IsFiniteSet({First[0]} \cup {First[1]})
    BY FS_Singleton, FS_AddElement
  <2>3. QED
    BY <2>1, <2>2, FS_Subset
<1>2. BaseInv /\ FiniteInv /\ [Next]_vars => FiniteInv'
  <2> SUFFICES ASSUME BaseInv, FiniteInv, [Next]_vars, NEW l \in Levels
               PROVE  IsFiniteSet(Workers(l)')
    BY DEF FiniteInv, Levels
  <2>1. PICK t \in Threads : Workers(l)' \subseteq Workers(l) \cup {t}
    BY WorkersGrow
  <2>2. IsFiniteSet(Workers(l) \cup {t})
    BY FS_AddElement DEF FiniteInv
  <2>3. QED
    BY <2>1, <2>2, FS_Subset
<1>3. QED
  BY <1>1, <1>2, BaseInvariant, PTL DEF Spec

\* Those who put are callers of the level and those who popped its workers.
Participants ==
  \A l \in Levels :
    /\ Scheduling(l, {"put"}) \subseteq Callers(l) /\ Popped(l) \subseteq Workers(l)
    /\ IsFiniteSet(Callers(l)) /\ IsFiniteSet(Workers(l))

LEMMA ParticipantsInvariant == Spec => [](BaseInv /\ Participants)
<1>1. BaseInv /\ FiniteInv => Participants
  <2> SUFFICES ASSUME BaseInv, FiniteInv, NEW l \in Levels
               PROVE  /\ Scheduling(l, {"put"}) \subseteq Callers(l) /\ Popped(l) \subseteq Workers(l)
                      /\ IsFiniteSet(Callers(l)) /\ IsFiniteSet(Workers(l))
    BY DEF Participants
  <2> USE SchedulerAssumption, FiniteClients
  <2>1. Scheduling(l, {"put"}) \subseteq Callers(l)
    BY DEF Scheduling, Callers, LevelOf, Levels, BaseInv, TypeOK, PlaceInv, SchedulePlaces, Workers
  <2>2. IsFiniteSet(Callers(l)) /\ IsFiniteSet(Workers(l))
    BY DEF Callers, FiniteInv, Levels
  <2>3. QED
    BY <2>1, <2>2 DEF Popped
<1>2. QED
  BY <1>1, BaseInvariant, WorkersFinite, PTL

\* While the queue has room the bound holds whoever is about to put.
LEMMA RoomIsEnough ==
  ASSUME NEW A, NEW B, NEW C, NEW D, A \subseteq B, C \subseteq D, IsFiniteSet(B), IsFiniteSet(D)
  PROVE  /\ IsFiniteSet(A) /\ IsFiniteSet(C)
         /\ \A S \in {A, B, C, D} : Cardinality(S) \in Nat
         /\ \A n \in Nat : n < MaxQueue =>
              n + Cardinality(A) + Cardinality(C) < MaxQueue + Cardinality(B) + Cardinality(D)
<1>1. IsFiniteSet(A) /\ Cardinality(A) <= Cardinality(B)
  BY FS_Subset
<1>2. IsFiniteSet(C) /\ Cardinality(C) <= Cardinality(D)
  BY FS_Subset
<1>3. /\ Cardinality(A) \in Nat /\ Cardinality(B) \in Nat
      /\ Cardinality(C) \in Nat /\ Cardinality(D) \in Nat
  BY <1>1, <1>2, FS_CardinalityType
<1>4. QED
  BY <1>1, <1>2, <1>3, SchedulerAssumption

\* The left side of the bound.
Load(l) == tasks[l] + Cardinality(Scheduling(l, {"put"})) + Cardinality(Popped(l))

\* A step keeps the bound if it adds nothing to the left side, or the queue has room.
LEMMA WithinStays ==
  ASSUME BaseInv, Participants, BaseInv', Participants', [Next]_vars, NEW l \in Levels, Within(l),
         l \notin spurious' => tasks'[l] < MaxQueue \/ (l \notin spurious /\ Load(l)' <= Load(l))
  PROVE  Within(l)'
<1> SUFFICES ASSUME l \notin spurious'
             PROVE  Load(l)' < MaxQueue + Cardinality(Callers(l)') + Cardinality(Workers(l)')
  BY DEF Within, Load
<1> DEFINE A == Scheduling(l, {"put"})'
           B == Callers(l)'
           C == Popped(l)'
           D == Workers(l)'
<1>1. tasks[l] \in Nat /\ tasks'[l] \in Nat /\ MaxQueue \in Nat
  BY SchedulerAssumption DEF BaseInv, TypeOK
<1>2. A \subseteq B /\ C \subseteq D /\ IsFiniteSet(B) /\ IsFiniteSet(D)
  BY DEF Participants
<1>3. Load(l)' = tasks'[l] + Cardinality(A) + Cardinality(C)
  BY DEF Load
<1>4. CASE tasks'[l] < MaxQueue
  <2> HIDE DEF A, B, C, D
  <2>1. tasks'[l] + Cardinality(A) + Cardinality(C) < MaxQueue + Cardinality(B) + Cardinality(D)
    BY <1>1, <1>2, <1>4, RoomIsEnough
  <2>2. QED
    BY <1>3, <2>1 DEF B, D
<1>5. CASE ~(tasks'[l] < MaxQueue)
  <2>1. l \notin spurious /\ Load(l)' <= Load(l)
    BY <1>5
  <2>2. Load(l) < MaxQueue + Cardinality(Callers(l)) + Cardinality(Workers(l))
    BY <2>1 DEF Within, Load
  <2>3. Callers(l) \subseteq B /\ Workers(l) \subseteq D
    <3>1. 0 \in Levels
      BY DEF Levels
    <3>2. QED
      BY <3>1, WorkersGrow DEF Callers
  <2> HIDE DEF A, B, C, D
  <2>4. Cardinality(Callers(l)) <= Cardinality(B) /\ Cardinality(Workers(l)) <= Cardinality(D)
    BY <1>2, <2>3, FS_Subset
  <2>5. /\ Cardinality(Callers(l)) \in Nat /\ Cardinality(Workers(l)) \in Nat
        /\ Cardinality(B) \in Nat /\ Cardinality(D) \in Nat
        /\ Cardinality(A) \in Nat /\ Cardinality(C) \in Nat
    BY <1>2, FS_CardinalityType, FS_Subset DEF Participants
  <2>6. Load(l) \in Nat
    <3>1. Cardinality(Scheduling(l, {"put"})) \in Nat /\ Cardinality(Popped(l)) \in Nat
      BY FS_CardinalityType, FS_Subset DEF Participants
    <3>2. QED
      BY <1>1, <3>1 DEF Load
  <2>7. Load(l)' \in Nat
    BY <1>1, <1>3, <2>5
  <2>8. QED
    BY <1>1, <2>1, <2>2, <2>4, <2>5, <2>6, <2>7 DEF B, D
<1>6. QED
  BY <1>4, <1>5

\* The steps of schedule: a caller that was not woken for nothing goes on to put
\* only when it saw room, and then counts as one of the tasks.
LEMMA ScheduleLoad ==
  ASSUME BaseInv, Participants, NEW l \in Levels, NEW x \in Clients \cup Threads,
         schedule(x) \/ Proceed(x) \/ SpuriousFull(x), l \notin spurious'
  PROVE  tasks'[l] < MaxQueue \/ (l \notin spurious /\ Load(l)' <= Load(l))
<1> USE SchedulerAssumption
<1> DEFINE P == Scheduling(l, {"put"})
<1>1. /\ Popped(l)' = Popped(l)
      /\ \A y \in (Clients \cup Threads) \ {x} : pc'[y] = "put" <=> pc[y] = "put"
  BY ScheduleAtLevel DEF Proceed
<1>2. tasks[l] \in Nat /\ LevelOf(x) \in Levels /\ MaxQueue \in Nat
  BY DEF BaseInv, TypeOK, LevelOf, Levels
<1>3. IsFiniteSet(P) /\ Cardinality(P) \in Nat /\ Cardinality(Popped(l)) \in Nat
  BY FS_CardinalityType, FS_Subset DEF Participants
<1>4. CASE Put(x)
  <2>1. pc'[x] = "add" /\ pc[x] = "put" /\ tasks' = [tasks EXCEPT ![LevelOf(x)] = @ + 1]
        /\ spurious' = spurious
    BY <1>4 DEF Put, Goto, BaseInv, TypeOK
  <2>2. CASE LevelOf(x) = l
    <3>1. P' = P \ {x} /\ x \in P
      BY <1>1, <2>1, <2>2 DEF Scheduling
    <3>2. tasks'[l] = tasks[l] + 1
      BY <1>2, <2>1, <2>2 DEF BaseInv, TypeOK
    <3>3. Cardinality(P') = Cardinality(P) - 1
      <4> HIDE DEF P
      <4>1. QED
        BY <1>3, <3>1, FS_RemoveElement
    <3>4. Load(l)' = Load(l)
      BY <1>1, <1>2, <1>3, <3>2, <3>3 DEF Load
    <3>5. Load(l) \in Nat
      BY <1>2, <1>3 DEF Load
    <3>6. QED
      BY <2>1, <3>4, <3>5
  <2>3. CASE LevelOf(x) # l
    <3>1. P' = P
      BY <1>1, <2>1, <2>3 DEF Scheduling
    <3>2. tasks'[l] = tasks[l]
      BY <1>2, <2>1, <2>3 DEF BaseInv, TypeOK
    <3>3. Load(l)' = Load(l) /\ Load(l) \in Nat
      BY <1>1, <1>2, <1>3, <3>1, <3>2 DEF Load
    <3>4. QED
      BY <2>1, <3>3
  <2>4. QED
    BY <2>2, <2>3
<1>5. CASE ~Put(x)
  <2>1. tasks' = tasks
    BY <1>5 DEF schedule, Proceed, CheckSize, SleepFull, SpuriousFull, CheckThreads, addThread,
                notify_one
  <2>2. CASE LevelOf(x) = l /\ pc'[x] = "put"
    <3>1. CheckSize(x) \/ SpuriousFull(x)
      <4>1. schedule(x) \/ SleepFull(x) \/ CheckThreads(x) => pc'[x] # "put"
        BY DEF schedule, SleepFull, CheckThreads, Goto, BaseInv, TypeOK, Workers
      <4>2. addThread(x) => pc'[x] # "put"
        BY DEF addThread, makeThread, Goto, BaseInv, TypeOK
      <4>3. notify_one(x) => pc'[x] # "put"
        BY DEF notify_one, Goto, BaseInv, TypeOK
      <4>4. QED
        BY <1>5, <2>2, <4>1, <4>2, <4>3 DEF Proceed
    <3>2. CASE CheckSize(x)
      <4>1. ~(tasks[l] >= MaxQueue)
        BY <2>2, <3>2 DEF CheckSize, Goto, BaseInv, TypeOK
      <4>2. QED
        BY <1>2, <2>1, <4>1
    <3>3. CASE SpuriousFull(x)
      <4>1. l \notin FullLevels(tasks)
        BY <2>2, <3>3 DEF SpuriousFull
      <4>2. QED
        BY <1>2, <2>1, <4>1 DEF FullLevels
    <3>4. QED
      BY <3>1, <3>2, <3>3
  <2>3. CASE ~(LevelOf(x) = l /\ pc'[x] = "put")
    <3>1. P' \subseteq P
      BY <1>1, <2>3 DEF Scheduling
    <3>2. Cardinality(P') <= Cardinality(P) /\ Cardinality(P') \in Nat
      <4> HIDE DEF P
      <4>1. QED
        BY <1>3, <3>1, FS_Subset, FS_CardinalityType
    <3>3. Load(l)' <= Load(l)
      BY <1>1, <1>2, <1>3, <2>1, <3>2 DEF Load
    <3>4. l \notin spurious
      BY DEF schedule, Proceed, CheckSize, SleepFull, SpuriousFull, Put, CheckThreads, addThread,
             notify_one
    <3>5. QED
      BY <3>3, <3>4
  <2>4. QED
    BY <2>2, <2>3
<1>6. QED
  BY <1>4, <1>5

\* The steps of a worker: a pop counts its task until the notification, which
\* hands the count on to the caller that it wakes.
LEMMA WorkLoad ==
  ASSUME BaseInv, Participants, NEW l \in Levels, NEW t \in Threads,
         Work(t) \/ SpuriousWakeup(t), l \notin spurious'
  PROVE  tasks'[l] < MaxQueue \/ (l \notin spurious /\ Load(l)' <= Load(l))
<1> USE SchedulerAssumption
<1> DEFINE P == Scheduling(l, {"put"})
           Q == Popped(l)
<1>0. {"put"} \in SUBSET SchedulePlaces
  BY DEF SchedulePlaces
<1>2. tasks[l] \in Nat /\ MaxQueue \in Nat
  BY DEF BaseInv, TypeOK
<1>3. /\ IsFiniteSet(P) /\ Cardinality(P) \in Nat
      /\ IsFiniteSet(Q) /\ Cardinality(Q) \in Nat
  BY FS_CardinalityType, FS_Subset DEF Participants
<1>4. Load(l) \in Nat
  BY <1>2, <1>3 DEF Load
<1>5. CASE try_pop(t)
  <2>1. P' = P /\ t \notin Q
    BY <1>0, <1>5, PopAtLevel
  <2>2. Load(l)' = Load(l)
    <3>1. CASE level[t] = l
      <4>1. Q' = Q \cup {t} /\ tasks'[l] = tasks[l] - 1 /\ tasks[l] > 0
        BY <1>5, <3>1, PopAtLevel
      <4>2. Cardinality(Q') = Cardinality(Q) + 1
        <5> HIDE DEF P, Q
        <5>1. QED
          BY <1>3, <2>1, <4>1, FS_AddElement
      <4>3. QED
        BY <1>2, <1>3, <2>1, <4>1, <4>2 DEF Load
    <3>2. CASE level[t] # l
      BY <1>5, <2>1, <3>2, PopAtLevel DEF Load
    <3>3. QED
      BY <3>1, <3>2
  <2>3. l \in spurious => tasks'[l] < MaxQueue
    <3>1. tasks'[l] \in Nat
      BY <1>5, PopAtLevel
    <3>2. l \in spurious => l \notin FullLevels(tasks')
      BY <1>5 DEF try_pop
    <3>3. QED
      BY <1>2, <3>1, <3>2 DEF FullLevels
  <2>4. QED
    BY <1>4, <2>2, <2>3
<1>6. CASE NotifyProducer(t)
  <2>1. UNCHANGED <<tasks, spurious>>
    BY <1>6, NotifyAtLevel
  <2>2. CASE level[t] = l
    <3>1. Q' = Q \ {t} /\ t \in Q
      BY <1>6, <2>2, NotifyAtLevel
    <3>2. P' = P \/ \E x : P' = P \cup {x}
      BY <1>6, <2>2, NotifyAtLevel
    <3> HIDE DEF P, Q
    <3>3. Cardinality(Q') = Cardinality(Q) - 1
      BY <1>3, <3>1, FS_RemoveElement
    <3>4. Cardinality(P') \in Nat /\ Cardinality(P') <= Cardinality(P) + 1
      <4>1. CASE P' = P
        BY <1>3, <4>1
      <4>2. ASSUME NEW x, P' = P \cup {x}
            PROVE  Cardinality(P') \in Nat /\ Cardinality(P') <= Cardinality(P) + 1
        <5>1. Cardinality(P \cup {x}) = IF x \in P THEN Cardinality(P) ELSE Cardinality(P) + 1
          BY <1>3, FS_AddElement
        <5>2. QED
          BY <1>3, <4>2, <5>1
      <4>3. QED
        BY <3>2, <4>1, <4>2
    <3>5. Load(l)' <= Load(l)
      BY <1>2, <1>3, <2>1, <3>3, <3>4 DEF Load, P, Q
    <3>6. QED
      BY <2>1, <3>5
  <2>3. CASE level[t] # l
    <3>1. Q' = Q /\ P' = P
      BY <1>6, <2>3, NotifyAtLevel
    <3>2. Load(l)' = Load(l)
      BY <2>1, <3>1 DEF Load
    <3>3. QED
      BY <1>4, <2>1, <3>2
  <2>4. QED
    BY <2>2, <2>3
<1>7. CASE ~try_pop(t) /\ ~NotifyProducer(t)
  <2>1. Q' = Q /\ P' = P /\ UNCHANGED <<tasks, spurious>>
    BY <1>0, <1>7, WorkAtLevel
  <2>2. Load(l)' = Load(l)
    BY <2>1 DEF Load
  <2>3. QED
    BY <1>4, <2>1, <2>2
<1>8. QED
  BY <1>5, <1>6, <1>7

\* The queue of a level exceeds max_size by less than its callers and its workers,
\* unless a caller woke for nothing since it last had room.
THEOREM OvershootIsBounded == Spec => []OvershootBounded
<1> DEFINE Inv == \A l \in Levels : Within(l)
<1>1. Init /\ Participants => Inv
  <2> SUFFICES ASSUME Init, Participants, NEW l \in Levels PROVE Within(l)
    OBVIOUS
  <2>1. tasks[l] = 0 /\ 0 < MaxQueue
    BY SchedulerAssumption DEF Init
  <2> DEFINE A == Scheduling(l, {"put"})
             B == Callers(l)
             C == Popped(l)
             D == Workers(l)
  <2>2. A \subseteq B /\ C \subseteq D /\ IsFiniteSet(B) /\ IsFiniteSet(D)
    BY DEF Participants
  <2>3. 0 + Cardinality(A) + Cardinality(C) < MaxQueue + Cardinality(B) + Cardinality(D)
    <3> HIDE DEF A, B, C, D
    <3>1. QED
      BY <2>1, <2>2, RoomIsEnough
  <2>4. QED
    BY <2>1, <2>3 DEF Within
<1>2. BaseInv /\ Participants /\ BaseInv' /\ Participants' /\ Inv /\ [Next]_vars => Inv'
  <2> SUFFICES ASSUME BaseInv, Participants, BaseInv', Participants', [Next]_vars,
                      NEW l \in Levels, Within(l)
               PROVE  Within(l)'
    BY DEF Levels
  <2> SUFFICES ASSUME l \notin spurious'
               PROVE  tasks'[l] < MaxQueue \/ (l \notin spurious /\ Load(l)' <= Load(l))
    BY WithinStays
  <2>1. tasks[l] \in Nat /\ Load(l) \in Nat
    <3>1. Cardinality(Scheduling(l, {"put"})) \in Nat /\ Cardinality(Popped(l)) \in Nat
      BY FS_CardinalityType, FS_Subset DEF Participants
    <3>2. QED
      BY <3>1 DEF Load, BaseInv, TypeOK
  <2>2. CASE Cancel \/ CloseProceeds
    <3>1. {"put"} \in SUBSET SchedulePlaces
      BY DEF SchedulePlaces
    <3>2. /\ Popped(l)' = Popped(l) /\ UNCHANGED <<tasks, spurious>>
          /\ Scheduling(l, {"put"})' = Scheduling(l, {"put"})
      BY <2>2, <3>1, CloseAtLevel
    <3>3. Load(l)' = Load(l)
      BY <3>2 DEF Load
    <3>4. QED
      BY <2>1, <3>2, <3>3
  <2>3. CASE UNCHANGED vars
    <3>1. spurious' = spurious /\ Load(l)' = Load(l)
      BY <2>3 DEF vars, workerVars, Load, Popped, Workers, Scheduling
    <3>2. QED
      BY <2>1, <3>1
  <2>4. QED
    BY <2>2, <2>3, ScheduleLoad, WorkLoad DEF Next
<1>3. Inv => OvershootBounded
  BY DEF OvershootBounded, Within, Callers, Popped
<1> HIDE DEF Inv
<1>4. QED
  BY <1>1, <1>2, <1>3, ParticipantsInvariant, PTL DEF Spec
===============================================================================
