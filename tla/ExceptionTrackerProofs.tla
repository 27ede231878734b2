------------------------ MODULE ExceptionTrackerProofs ------------------------
(***************************************************************************)
(* Proofs about the exception tracker, for any number of threads and of    *)
(* exceptions, any depth of the call stacks and any number of modules.     *)
(* They rest on the shape that a thread's stack of activations can take    *)
(* (Shape): a handler that traces, perhaps its ShowCallstack, a handler    *)
(* that notes an error, a handler that returns at once.  Hence how often a *)
(* thread holds the loader lock (Locks) and how many of its handlers are   *)
(* counted (Handlers) can be read off the innermost activation.            *)
(***************************************************************************)
EXTENDS ExceptionTracker, SequenceTheorems, FiniteSetTheorems, TLAPS

HandlerPlaces == {"start", "checked", "lock", "test", "record", "error", "end", "uncount",
                  "unlock"}
WalkerPlaces == {"lock", "test", "th32", "th32loop", "psapi", "psapiloop", "psapifree",
                 "after", "sym", "walk", "entry", "cleanup", "unlock"}

\* Where an exception can interrupt an activation.
Interrupted == WalkerCallsOut \cup {"record", "error", "end"}

\* The blocks and the announcements of an activation of ShowCallstack.
WalkerFrame(f) ==
    /\ f.at \in WalkerPlaces
    /\ f.strings # 0 => f.at \in {"th32loop", "psapiloop"}
    /\ f.at \in {"lock", "test", "th32", "psapi", "after", "sym", "unlock"} => f.mine = 0
    /\ f.at = "th32loop" => f.mine = f.strings
    /\ f.at = "psapiloop" => f.mine = 3 + f.strings
    /\ f.at = "psapifree" => f.mine <= 3
    /\ f.at = "walk" => f.mine = 1 /\ ~f.final
    /\ f.at = "entry" => f.mine \in {1, 2}
    /\ f.at = "cleanup" => f.mine <= 1 /\ (f.final => f.shown)
    /\ f.at \notin {"walk", "entry", "cleanup", "unlock"} => ~f.shown /\ ~f.final
    /\ CASE f.at = "cleanup" -> f.last = IF f.final THEN 1 ELSE 0
         [] f.at = "unlock" -> f.last = IF f.shown THEN 1 ELSE 0
         [] OTHER -> f.last = 0

\* The number of handlers up to the i-th activation; ShowCallstack is the second
\* activation or none.
Rank(s, i) == IF i >= 2 /\ s[2].op = "show" THEN i - 1 ELSE i

\* The handlers that the first, second and third handler of a thread turn into.
PlacesOf(rank) ==
    CASE rank = 1 -> HandlerPlaces \ {"error"}
      [] rank = 2 -> HandlerPlaces \ {"record", "end"}
      [] OTHER -> HandlerPlaces \ {"record", "error", "end"}

Shape(s) ==
    /\ s \in Seq(Frame) /\ Len(s) <= 4
    /\ \A i \in DOMAIN s :
        /\ s[i].op = "show" => i = 2 /\ s[1].at = "end" /\ WalkerFrame(s[i])
        /\ s[i].op # "show" => s[i].at \in PlacesOf(Rank(s, i)) /\ s[i].mine = 0 /\ s[i].strings = 0
        /\ i < Len(s) => s[i].at \in Interrupted

\* Acquisitions of the loader lock and counted handlers of a stack.
Locks(s) ==
    IF s = <<>> THEN 0 ELSE IF HoldsLocker(s[Len(s)]) THEN Len(s) ELSE Len(s) - 1

Handlers(s) ==
    IF s = <<>> THEN 0
    ELSE IF s[Len(s)].op = "show" \/ Counted(s[Len(s)]) THEN Rank(s, Len(s))
                                                       ELSE Rank(s, Len(s)) - 1

InDll(t) == IF t \in inDll THEN 1 ELSE 0

ThreadInv(t) ==
    /\ Shape(stack[t])
    /\ ldr => Locks(stack[t]) + InDll(t) = IF loader.owner = t THEN loader.count ELSE 0
    /\ Handlers(stack[t]) = IF loader.owner = t THEN enterCount ELSE 0
    /\ ldr /\ stack[t] # <<>> /\ Top(t).at = "test" => isLocked
    /\ t \in pending /\ stack[t] # <<>> => Top(t).at \in Interrupted

LockInv ==
    /\ loader \in [owner : Threads \cup {NoThread}, count : Nat]
    /\ enterCount \in Nat
    /\ loader.owner = NoThread => loader.count = 0 /\ enterCount = 0
    /\ loader.count = 0 => loader.owner = NoThread
    /\ {isLocked, ldr} \subseteq BOOLEAN
    /\ ~ldr => loader.owner = NoThread /\ ~isLocked /\ inDll = {}

\* Blocks of the ShowCallstack in progress: there is one at most.
Local == IF loader.owner \in Threads /\ Len(stack[loader.owner]) >= 2
         THEN stack[loader.owner][2].mine ELSE 0

HeapInv ==
    /\ heap \in [ok : BOOLEAN, live : Nat, lost : Nat]
    /\ heap.live = Owned(sw) + heap.lost + Local

LibraryInv ==
    /\ sw \in WalkerType
    /\ sw.ready \subseteq sw.held /\ sw.held \ sw.ready \subseteq {"psapi"}
    /\ main # "gone" => libs = [l \in Library |-> IF l \in sw.ready THEN 1 ELSE 0]
    /\ main = "gone" => /\ libs["dbghelp"] = 0 /\ libs["toolhelp"] = 0
                        /\ libs["psapi"] \in {-1, 0}

OwnerInv ==
    /\ {me, dontFilter, vectored} \subseteq BOOLEAN
    /\ pending \subseteq Threads /\ inDll \subseteq Threads
    /\ main = "off" => /\ ~vectored /\ filter = "program" /\ sw = NoWalker
                       /\ \A t \in Threads : stack[t] = <<>>

TrackerInv ==
    /\ stack \in [Threads -> Seq(Frame)]
    /\ \A t \in Threads : ThreadInv(t)
    /\ LockInv /\ HeapInv /\ LibraryInv /\ OwnerInv

-----------------------------------------------------------------------------
(* Activations and stacks *)

Places == HandlerPlaces \cup WalkerPlaces

LEMMA MaxOfBounds ==
  /\ Max({StackDepth, MaxModules}) \in Nat
  /\ StackDepth <= Max({StackDepth, MaxModules}) /\ MaxModules <= Max({StackDepth, MaxModules})
<1>1. \E x \in {StackDepth, MaxModules} : \A y \in {StackDepth, MaxModules} : x >= y
  BY WalkerAssumption
<1>2. QED
  BY <1>1, WalkerAssumption DEF Max

LEMMA NewActivation ==
  ASSUME NEW op \in {"vectored", "unhandled", "show"}, NEW at \in Places, NEW cpp \in BOOLEAN
  PROVE  /\ Activation(op, at, cpp) \in Frame
         /\ Activation(op, at, cpp).op = op /\ Activation(op, at, cpp).at = at
         /\ Activation(op, at, cpp).mine = 0 /\ Activation(op, at, cpp).strings = 0
         /\ Activation(op, at, cpp).last = 0
         /\ ~Activation(op, at, cpp).shown /\ ~Activation(op, at, cpp).final
BY MaxOfBounds, WalkerAssumption DEF Activation, Frame, Places, HandlerPlaces, WalkerPlaces

LEMMA MovedActivation ==
  ASSUME NEW f \in Frame, NEW at \in Places
  PROVE  /\ [f EXCEPT !.at = at] \in Frame
         /\ [f EXCEPT !.at = at].op = f.op /\ [f EXCEPT !.at = at].at = at
         /\ [f EXCEPT !.at = at].mine = f.mine /\ [f EXCEPT !.at = at].strings = f.strings
         /\ [f EXCEPT !.at = at].shown = f.shown /\ [f EXCEPT !.at = at].final = f.final
         /\ [f EXCEPT !.at = at].last = f.last
BY DEF Frame, Places, HandlerPlaces, WalkerPlaces

\* r is s with another innermost activation.
Replaced(s, r) ==
  /\ s # <<>> /\ s \in Seq(Frame) /\ r \in Seq(Frame) /\ Len(r) = Len(s)
  /\ \A i \in 1 .. Len(s) - 1 : r[i] = s[i]

Stacks == [Threads -> Seq(Frame)]

LEMMA BecomeReplaces ==
  ASSUME stack \in Stacks, NEW t \in Threads, stack[t] # <<>>, NEW f \in Frame, Become(t, f)
  PROVE  /\ stack' \in Stacks /\ \A u \in Threads \ {t} : stack'[u] = stack[u]
         /\ Replaced(stack[t], stack'[t]) /\ stack'[t][Len(stack[t])] = f
<1> DEFINE s == stack[t]
<1>1. s \in Seq(Frame) /\ Len(s) \in 1 .. Len(s)
  BY DEF Stacks
<1> HIDE DEF s
<1>2. /\ [s EXCEPT ![Len(s)] = f] \in Seq(Frame)
      /\ Len([s EXCEPT ![Len(s)] = f]) = Len(s)
      /\ [s EXCEPT ![Len(s)] = f][Len(s)] = f
      /\ \A i \in 1 .. Len(s) - 1 : [s EXCEPT ![Len(s)] = f][i] = s[i]
  BY <1>1
<1>3. stack' = [stack EXCEPT ![t] = [s EXCEPT ![Len(s)] = f]]
  BY DEF Become, s
<1>4. stack'[t] = [s EXCEPT ![Len(s)] = f] /\ \A u \in Threads \ {t} : stack'[u] = stack[u]
  BY <1>3 DEF Stacks
<1>5. stack' \in Stacks
  BY <1>2, <1>3 DEF Stacks
<1>6. QED
  BY <1>1, <1>2, <1>4, <1>5 DEF Replaced, s

LEMMA ShapeLength ==
  ASSUME NEW s, Shape(s)
  PROVE  /\ s \in Seq(Frame) /\ Len(s) \in 0 .. 4 /\ DOMAIN s = 1 .. Len(s)
         /\ s = <<>> <=> Len(s) = 0
         /\ s # <<>> => Len(s) \in 1 .. 4
<1>1. s \in Seq(Frame) /\ Len(s) <= 4
  BY DEF Shape
<1>2. s = <<>> <=> Len(s) = 0
  BY <1>1, EmptySeq
<1>3. Len(s) \in Nat /\ DOMAIN s = 1 .. Len(s)
  BY <1>1
<1>4. QED
  BY <1>1, <1>2, <1>3

\* A handler moves on.
LEMMA HandlerMoves ==
  ASSUME NEW s, NEW r, Shape(s), Replaced(s, r),
         s[Len(s)].op # "show", r[Len(s)].op = s[Len(s)].op,
         r[Len(s)].at \in PlacesOf(Rank(s, Len(s))),
         r[Len(s)].mine = 0, r[Len(s)].strings = 0
  PROVE  Shape(r) /\ Rank(r, Len(r)) = Rank(s, Len(s))
<1>1. Len(s) \in 1 .. 4 /\ DOMAIN r = DOMAIN s /\ DOMAIN s = 1 .. Len(s)
  BY DEF Shape, Replaced
<1>2. \A i \in 1 .. Len(s) : i # Len(s) => r[i] = s[i]
  <2>1. \A i \in 1 .. Len(s) - 1 : r[i] = s[i]
    BY DEF Replaced
  <2>2. ASSUME NEW n \in 1 .. 4, NEW i \in 1 .. n, i # n PROVE i \in 1 .. n - 1
    BY <2>2
  <2>3. QED
    BY <1>1, <2>1, <2>2
<1>3. \A i \in 1 .. Len(s) : r[i].op = s[i].op
  BY <1>2
<1>4. \A i \in 1 .. Len(s) : Rank(r, i) = Rank(s, i)
  BY <1>1, <1>3 DEF Rank
<1>5. ASSUME NEW i \in 1 .. Len(s)
      PROVE  /\ r[i].op = "show" => i = 2 /\ r[1].at = "end" /\ WalkerFrame(r[i])
             /\ r[i].op # "show" =>
                  r[i].at \in PlacesOf(Rank(r, i)) /\ r[i].mine = 0 /\ r[i].strings = 0
             /\ i < Len(s) => r[i].at \in Interrupted
  <2>1. CASE i = Len(s)
    BY <1>1, <1>3, <1>4, <2>1
  <2>2. CASE i # Len(s)
    <3>1. r[i] = s[i] /\ Rank(r, i) = Rank(s, i)
      BY <1>2, <1>4, <2>2
    <3>2. r[1] = s[1]
      <4>0. ASSUME NEW n \in 1 .. 4, NEW j \in 1 .. n, j # n PROVE 1 \in 1 .. n /\ 1 # n
        BY <4>0
      <4>1. 1 \in 1 .. Len(s) /\ 1 # Len(s)
        BY <1>1, <2>2, <4>0
      <4>2. QED
        BY <1>2, <4>1
    <3>3. QED
      BY <1>1, <3>1, <3>2 DEF Shape
  <2>3. QED
    BY <2>1, <2>2
<1>6. r \in Seq(Frame) /\ Len(r) <= 4 /\ Len(r) = Len(s)
  BY DEF Replaced, Shape
<1>7. Shape(r)
  BY <1>1, <1>5, <1>6 DEF Shape
<1>8. QED
  BY <1>1, <1>4, <1>6, <1>7

\* ShowCallstack moves on.
LEMMA WalkerMoves ==
  ASSUME NEW s, NEW r, Shape(s), Replaced(s, r),
         s[Len(s)].op = "show", r[Len(s)].op = "show", WalkerFrame(r[Len(s)])
  PROVE  Shape(r) /\ Rank(r, Len(r)) = Rank(s, Len(s)) /\ Len(s) = 2
<1>1. Len(s) \in 1 .. 4 /\ DOMAIN r = DOMAIN s /\ DOMAIN s = 1 .. Len(s)
  BY DEF Shape, Replaced
<1>2. \A i \in 1 .. Len(s) : i # Len(s) => r[i] = s[i]
  <2>1. \A i \in 1 .. Len(s) - 1 : r[i] = s[i]
    BY DEF Replaced
  <2>2. ASSUME NEW n \in 1 .. 4, NEW i \in 1 .. n, i # n PROVE i \in 1 .. n - 1
    BY <2>2
  <2>3. QED
    BY <1>1, <2>1, <2>2
<1>3. \A i \in 1 .. Len(s) : r[i].op = s[i].op
  BY <1>2
<1>4. \A i \in 1 .. Len(s) : Rank(r, i) = Rank(s, i)
  BY <1>1, <1>3 DEF Rank
<1>5. Len(s) = 2
  BY <1>1 DEF Shape
<1>6. QED
  BY <1>1, <1>2, <1>3, <1>4, <1>5 DEF Shape, Replaced

\* The innermost activation returns: what it interrupted, or called it, holds the
\* lock, and a handler among them is counted.
LEMMA ShapeBelow ==
  ASSUME NEW s, NEW r, Shape(s), s # <<>>, r = SubSeq(s, 1, Len(s) - 1)
  PROVE  /\ Shape(r) /\ Len(r) = Len(s) - 1
         /\ \A i \in 1 .. Len(r) : r[i] = s[i]
         /\ Locks(r) = Len(s) - 1
         /\ Handlers(r) = IF s[Len(s)].op = "show" THEN Rank(s, Len(s)) ELSE Rank(s, Len(s)) - 1
         /\ r # <<>> => r[Len(r)].at \in Interrupted
<1>1. /\ s \in Seq(Frame) /\ Len(s) \in 1 .. 4 /\ DOMAIN s = 1 .. Len(s)
  BY ShapeLength
<1>2. /\ r \in Seq(Frame) /\ Len(r) = Len(s) - 1 /\ DOMAIN r = 1 .. Len(s) - 1
      /\ \A i \in 1 .. Len(s) - 1 : r[i] = s[i]
  BY <1>1
<1>3. \A i \in 1 .. Len(r) : i \in 1 .. Len(s) /\ i < Len(s) /\ r[i] = s[i] /\ r[i].at \in Interrupted
  BY <1>1, <1>2 DEF Shape
<1>4. \A i \in 1 .. Len(r) : Rank(r, i) = Rank(s, i)
  BY <1>1, <1>2, <1>3 DEF Rank
<1>5. \A i \in 1 .. Len(r) : r[1] = s[1]
  BY <1>1, <1>2, <1>3
<1>6. Shape(r)
  <2>1. ASSUME NEW i \in 1 .. Len(r)
        PROVE  /\ r[i].op = "show" => i = 2 /\ r[1].at = "end" /\ WalkerFrame(r[i])
               /\ r[i].op # "show" =>
                    r[i].at \in PlacesOf(Rank(r, i)) /\ r[i].mine = 0 /\ r[i].strings = 0
               /\ i < Len(r) => r[i].at \in Interrupted
    <3>1. r[i] = s[i] /\ r[1] = s[1] /\ Rank(r, i) = Rank(s, i) /\ i \in DOMAIN s
          /\ r[i].at \in Interrupted
      BY <1>1, <1>3, <1>4, <1>5
    <3>2. QED
      BY <3>1 DEF Shape
  <2>2. Len(r) <= 4 /\ DOMAIN r = 1 .. Len(r)
    BY <1>1, <1>2
  <2>3. QED
    BY <1>2, <2>1, <2>2 DEF Shape
<1>7. r # <<>> => Len(r) \in 1 .. Len(r) /\ r[Len(r)].at \in Interrupted
  BY <1>1, <1>2, <1>3
<1>8. Locks(r) = Len(s) - 1
  BY <1>1, <1>2, <1>7 DEF Locks, HoldsLocker, Interrupted, WalkerCallsOut
<1>9. Handlers(r) = IF s[Len(s)].op = "show" THEN Rank(s, Len(s)) ELSE Rank(s, Len(s)) - 1
  <2>1. CASE r = <<>>
    <3>1. Len(s) = 1 /\ s[1].op # "show"
      BY <1>1, <1>2, <2>1 DEF Shape
    <3>2. QED
      BY <2>1, <3>1 DEF Handlers, Rank
  <2>2. CASE r # <<>>
    <3>1. Handlers(r) = Rank(r, Len(r))
      <4>1. r[Len(r)].op # "show" => Counted(r[Len(r)])
        <5>1. r[Len(r)].op \in {"vectored", "unhandled", "show"}
          BY <1>2, <1>7, <2>2 DEF Frame
        <5>2. r[Len(r)].op # "show" => r[Len(r)].at \in HandlerPlaces
          BY <1>2, <1>6, <1>7, <2>2 DEF Shape, PlacesOf
        <5>3. QED
          BY <1>7, <2>2, <5>1, <5>2 DEF Counted, Handler, HandlerPlaces, Interrupted, WalkerCallsOut
      <4>2. QED
        BY <2>2, <4>1 DEF Handlers
    <3>2. Rank(r, Len(r)) = IF s[Len(s)].op = "show" THEN Rank(s, Len(s)) ELSE Rank(s, Len(s)) - 1
      <4>1. Len(s) # 1 /\ Len(s) - 1 \in 1 .. Len(r)
        BY <1>1, <1>2, <1>7, <2>2
      <4>2. CASE s[Len(s)].op = "show"
        <5>1. Len(s) = 2
          BY <1>1, <4>2 DEF Shape
        <5>2. QED
          BY <1>2, <4>2, <5>1 DEF Rank
      <4>3. CASE s[Len(s)].op # "show"
        <5>1. CASE Len(s) = 2
          BY <1>2, <4>3, <5>1 DEF Rank
        <5>2. CASE Len(s) \in {3, 4}
          BY <1>2, <5>2, <4>3 DEF Rank
        <5>3. QED
          BY <1>1, <4>1, <5>1, <5>2
      <4>4. QED
        BY <4>2, <4>3
    <3>3. QED
      BY <3>1, <3>2
  <2>3. QED
    BY <2>1, <2>2
<1>10. QED
  BY <1>2, <1>3, <1>6, <1>7, <1>8, <1>9

\* An exception interrupts the innermost activation.
LEMMA ShapeAbove ==
  ASSUME NEW s, NEW f \in Frame, Shape(s), s # <<>> => s[Len(s)].at \in Interrupted,
         f.op # "show", f.at = "start", f.mine = 0, f.strings = 0
  PROVE  /\ Shape(Append(s, f))
         /\ Locks(Append(s, f)) = Locks(s)
         /\ Handlers(Append(s, f)) = Handlers(s)
<1> DEFINE r == Append(s, f)
<1>1. /\ s \in Seq(Frame) /\ Len(s) \in 0 .. 4 /\ DOMAIN s = 1 .. Len(s)
      /\ s # <<>> <=> Len(s) # 0
  BY ShapeLength
<1>2. /\ r \in Seq(Frame) /\ Len(r) = Len(s) + 1 /\ DOMAIN r = 1 .. Len(s) + 1
      /\ \A i \in 1 .. Len(s) : r[i] = s[i]
      /\ r[Len(s) + 1] = f
  BY <1>1
<1> HIDE DEF r
<1>3. \A i \in 1 .. Len(s) : s[i].at \in Interrupted
  BY <1>1 DEF Shape
<1>4. \A i \in 1 .. Len(s) : s[i].op # "show" => Rank(s, i) <= 2 /\ Counted(s[i])
  <2> SUFFICES ASSUME NEW i \in 1 .. Len(s), s[i].op # "show"
               PROVE  Rank(s, i) <= 2 /\ Counted(s[i])
    OBVIOUS
  <2>1. s[i].at \in PlacesOf(Rank(s, i)) /\ s[i].at \in Interrupted /\ s[i] \in Frame
    BY <1>1, <1>3 DEF Shape
  <2>2. s[i].at \in {"record", "error", "end"}
    BY <2>1 DEF PlacesOf, HandlerPlaces, Interrupted, WalkerCallsOut
  <2>3. Rank(s, i) \in {1, 2}
    BY <2>1, <2>2 DEF PlacesOf
  <2>4. QED
    BY <2>1, <2>2, <2>3 DEF Counted, Handler, Frame
<1>5. Len(s) <= 3 /\ (Len(s) = 3 => s[2].op = "show")
  BY <1>1, <1>4 DEF Rank, Shape
<1>6. \A i \in 1 .. Len(s) : Rank(r, i) = Rank(s, i)
  BY <1>1, <1>2 DEF Rank
<1>7. Rank(r, Len(s) + 1) \in 1 .. 3
  BY <1>1, <1>2, <1>5 DEF Rank
<1>8. ASSUME NEW i \in 1 .. Len(s) + 1
      PROVE  /\ r[i].op = "show" => i = 2 /\ r[1].at = "end" /\ WalkerFrame(r[i])
             /\ r[i].op # "show" =>
                  r[i].at \in PlacesOf(Rank(r, i)) /\ r[i].mine = 0 /\ r[i].strings = 0
             /\ i < Len(r) => r[i].at \in Interrupted
  <2>1. CASE i = Len(s) + 1
    <3>1. r[i] = f /\ ~(i < Len(r)) /\ Rank(r, i) \in 1 .. 3
      BY <1>1, <1>2, <1>7, <2>1
    <3>2. "start" \in PlacesOf(Rank(r, i))
      BY <3>1 DEF PlacesOf, HandlerPlaces
    <3>3. QED
      BY <3>1, <3>2
  <2>2. CASE i \in 1 .. Len(s)
    <3>1. r[i] = s[i] /\ Rank(r, i) = Rank(s, i) /\ r[i].at \in Interrupted /\ r[1] = s[1]
      BY <1>1, <1>2, <1>3, <1>6, <2>2
    <3>2. QED
      BY <1>1, <2>2, <3>1 DEF Shape
  <2>3. QED
    BY <1>1, <2>1, <2>2
<1>9. Shape(r)
  BY <1>1, <1>2, <1>5, <1>8 DEF Shape
<1>10. Locks(r) = Locks(s)
  BY <1>1, <1>2, <1>3 DEF Locks, HoldsLocker, Interrupted, WalkerCallsOut
<1>11. Handlers(r) = Handlers(s)
  <2>1. Handlers(r) = Rank(r, Len(s) + 1) - 1
    BY <1>1, <1>2 DEF Handlers, Counted
  <2>2. Handlers(s) = IF Len(s) = 0 THEN 0 ELSE Rank(s, Len(s))
    BY <1>1, <1>4 DEF Handlers
  <2>3. CASE Len(s) = 0
    BY <1>2, <2>1, <2>2, <2>3 DEF Rank
  <2>4. CASE Len(s) = 1
    BY <1>2, <2>1, <2>2, <2>4 DEF Rank
  <2>5. CASE Len(s) = 2
    BY <1>2, <2>1, <2>2, <2>5 DEF Rank
  <2>6. CASE Len(s) = 3
    BY <1>2, <2>1, <2>2, <2>6 DEF Rank
  <2>7. QED
    BY <1>1, <1>5, <2>3, <2>4, <2>5, <2>6
<1>12. QED
  BY <1>9, <1>10, <1>11 DEF r

\* Every activation but the innermost one is interrupted, so it holds a locker and
\* is a counted handler or ShowCallstack.
LEMMA Inner ==
  ASSUME NEW s, Shape(s), NEW i \in 1 .. Len(s), i # Len(s)
  PROVE  HoldsLocker(s[i]) /\ (s[i].op = "show" \/ Counted(s[i]))
<1>1. /\ Len(s) \in 0 .. 4 /\ DOMAIN s = 1 .. Len(s) /\ s \in Seq(Frame)
  BY ShapeLength
<1>2. /\ s[i].at \in Interrupted /\ s[i] \in Frame
      /\ s[i].op # "show" => s[i].at \in PlacesOf(Rank(s, i))
  <2>1. i \in DOMAIN s /\ i < Len(s)
    <3>1. ASSUME NEW n \in 0 .. 4, NEW j \in 1 .. n, j # n PROVE j < n
      BY <3>1
    <3>2. QED
      BY <1>1, <3>1
  <2>2. s[i].at \in Interrupted
    BY <2>1 DEF Shape
  <2>3. s[i].op # "show" => s[i].at \in PlacesOf(Rank(s, i))
    BY <2>1 DEF Shape
  <2>4. s[i] \in Frame
    BY <1>1, <2>1
  <2>5. QED
    BY <2>2, <2>3, <2>4
<1>3. s[i].op # "show" => s[i].at \in {"record", "error", "end"} /\ s[i].op \in Handler
  BY <1>2 DEF PlacesOf, HandlerPlaces, Interrupted, WalkerCallsOut, Handler, Frame
<1>4. QED
  BY <1>2, <1>3 DEF HoldsLocker, Counted, Interrupted, WalkerCallsOut

LEMMA ShowNotCounted ==
  ASSUME NEW f, f.op = "show" PROVE ~Counted(f)
BY DEF Counted, Handler

LEMMA UpTo ==
  ASSUME NEW n \in Nat PROVE IsFiniteSet(1 .. n) /\ Cardinality(1 .. n) = n
<1>1. IsFiniteSet(1 .. n) /\ Cardinality(1 .. n) = IF 1 > n THEN 0 ELSE n - 1 + 1
  BY FS_Interval
<1>2. QED
  BY <1>1

LEMMA LocksCounted ==
  ASSUME NEW s, Shape(s)
  PROVE  Cardinality({i \in DOMAIN s : HoldsLocker(s[i])}) = Locks(s) /\ Locks(s) \in 0 .. 4
<1>1. Len(s) \in 0 .. 4 /\ DOMAIN s = 1 .. Len(s) /\ (s = <<>> <=> Len(s) = 0)
  BY ShapeLength
<1>2. Locks(s) \in 0 .. 4
  BY <1>1 DEF Locks
<1>3. {i \in DOMAIN s : HoldsLocker(s[i])} = 1 .. Locks(s)
  <2>1. ASSUME NEW i \in 1 .. Len(s) PROVE HoldsLocker(s[i]) <=> i <= Locks(s)
    BY <1>1, <2>1, Inner DEF Locks
  <2>2. Locks(s) <= Len(s)
    BY <1>1 DEF Locks
  <2>3. QED
    BY <1>1, <1>2, <2>1, <2>2
<1>4. Cardinality(1 .. Locks(s)) = Locks(s)
  BY <1>2, UpTo
<1>5. QED
  BY <1>2, <1>3, <1>4

LEMMA HandlersCounted ==
  ASSUME NEW s, Shape(s)
  PROVE  /\ Cardinality({i \in DOMAIN s : Counted(s[i])}) = Handlers(s)
         /\ Handlers(s) \in 0 .. 3
         /\ {i \in DOMAIN s : Counted(s[i])} = {} <=> Handlers(s) = 0
<1> DEFINE C == {i \in DOMAIN s : Counted(s[i])}
           m == IF s = <<>> THEN 0
                ELSE IF s[Len(s)].op = "show" \/ Counted(s[Len(s)]) THEN Len(s) ELSE Len(s) - 1
<1>1. Len(s) \in 0 .. 4 /\ DOMAIN s = 1 .. Len(s) /\ (s = <<>> <=> Len(s) = 0)
  BY ShapeLength
<1>2. m \in 0 .. 4 /\ m <= Len(s)
  BY <1>1
<1>3. ASSUME NEW i \in 1 .. Len(s)
      PROVE  /\ s[i].op = "show" \/ Counted(s[i]) <=> i <= m
             /\ s[i].op = "show" => i = 2
  <2>1. s[i].op = "show" => i = 2
    BY <1>1, <1>3 DEF Shape
  <2>2. s[i].op = "show" \/ Counted(s[i]) <=> i <= m
    BY <1>1, <1>3, Inner
  <2>3. QED
    BY <2>1, <2>2
<1>4. CASE Len(s) >= 2 /\ s[2].op = "show"
  <2>1. m >= 2 /\ Handlers(s) = m - 1
    BY <1>1, <1>3, <1>4 DEF Handlers, Rank
  <2>2. C = (1 .. m) \ {2}
    <3>1. ~Counted(s[2])
      BY <1>4, ShowNotCounted
    <3>2. \A i \in 1 .. Len(s) : i # 2 => (Counted(s[i]) <=> i <= m)
      BY <1>3
    <3> HIDE DEF m
    <3>3. QED
      BY <1>1, <1>2, <3>1, <3>2
  <2>3. IsFiniteSet(1 .. m) /\ Cardinality(1 .. m) = m /\ 2 \in 1 .. m
    <3> HIDE DEF m
    <3>1. QED
      BY <1>2, <2>1, FS_Interval
  <2>4. Cardinality(C) = m - 1
    <3> HIDE DEF m, C
    <3>1. QED
      BY <2>2, <2>3, FS_RemoveElement
  <2>5. m <= 4 /\ 1 \in C
    <3> HIDE DEF m, C
    <3>1. QED
      BY <1>2, <2>1, <2>2
  <2> HIDE DEF m
  <2>6. QED
    BY <1>2, <2>1, <2>4, <2>5
<1>5. CASE ~(Len(s) >= 2 /\ s[2].op = "show")
  <2>1. \A i \in 1 .. Len(s) : s[i].op # "show"
    BY <1>1, <1>3, <1>5
  <2>2. Handlers(s) = m
    BY <1>1, <1>5 DEF Handlers, Rank
  <2>3. C = 1 .. m
    <3>1. \A i \in 1 .. Len(s) : Counted(s[i]) <=> i <= m
      BY <1>3, <2>1
    <3> HIDE DEF m
    <3>2. QED
      BY <1>1, <1>2, <3>1
  <2>4. m <= 3
    <3>1. m = 4 => Len(s) = 4 /\ s[4].op # "show" /\ s[3].op # "show"
                   /\ s[3].at \in PlacesOf(3) /\ s[3].at \in Interrupted
      <4>1. m = 4 => Len(s) = 4
        BY <1>1
      <4>2. Len(s) = 4 => 3 \in DOMAIN s /\ 4 \in DOMAIN s /\ s[3].op # "show" /\ s[4].op # "show"
                          /\ Rank(s, 3) = 3
        BY <1>1, <1>5, <2>1 DEF Rank
      <4>3. Len(s) = 4 => s[3].at \in PlacesOf(3) /\ s[3].at \in Interrupted
        BY <4>2 DEF Shape
      <4>4. QED
        BY <4>1, <4>2, <4>3
    <3>2. PlacesOf(3) \cap Interrupted = {}
      BY DEF PlacesOf, Interrupted, HandlerPlaces, WalkerCallsOut
    <3> HIDE DEF m
    <3>3. QED
      BY <1>2, <3>1, <3>2
  <2>5. Cardinality(C) = m
    <3> HIDE DEF m, C
    <3>1. QED
      BY <1>2, <2>3, UpTo
  <2> HIDE DEF m
  <2>6. QED
    BY <1>2, <2>2, <2>3, <2>4, <2>5
<1>6. QED
  BY <1>4, <1>5

LEMMA ShapeNumbers ==
  ASSUME NEW s, Shape(s) PROVE Locks(s) \in Nat /\ Handlers(s) \in Nat
<1>1. Locks(s) \in 0 .. 4 /\ Handlers(s) \in 0 .. 3
  BY LocksCounted, HandlersCounted
<1>2. QED
  BY <1>1

-----------------------------------------------------------------------------
(* One thread at a time *)

\* The blocks of the ShowCallstack of a thread.
LocalOf(t) == IF Len(stack[t]) >= 2 THEN stack[t][2].mine ELSE 0

\* A stack of two activations or more belongs to the owner of the loader lock.
LEMMA DeepStack ==
  ASSUME NEW s, Shape(s), Len(s) >= 2
  PROVE  Handlers(s) >= 1 /\ Handlers(s) \in Nat /\ s[2].mine \in Nat
<1>1. Len(s) \in 2 .. 4 /\ DOMAIN s = 1 .. Len(s) /\ s # <<>> /\ s \in Seq(Frame)
  <2>1. Len(s) \in 0 .. 4 /\ DOMAIN s = 1 .. Len(s) /\ (s = <<>> <=> Len(s) = 0) /\ s \in Seq(Frame)
    BY ShapeLength
  <2>2. QED
    BY <2>1
<1>2. s[2] \in Frame /\ (s[Len(s)].op = "show" => Len(s) = 2)
  BY <1>1 DEF Shape
<1>3. Handlers(s) >= 1 /\ Handlers(s) \in Nat
  BY <1>1, <1>2 DEF Handlers, Rank
<1>4. QED
  BY <1>2, <1>3 DEF Frame

LEMMA DeepOwns ==
  ASSUME NEW t \in Threads, ThreadInv(t), Len(stack[t]) >= 2
  PROVE  loader.owner = t
BY DeepStack DEF ThreadInv

LEMMA LocalOfOwner ==
  ASSUME TrackerInv
  PROVE  /\ Local = IF loader.owner \in Threads THEN LocalOf(loader.owner) ELSE 0
         /\ \A t \in Threads : LocalOf(t) \in Nat /\ (loader.owner # t => LocalOf(t) = 0)
<1>1. Local = IF loader.owner \in Threads THEN LocalOf(loader.owner) ELSE 0
  BY DEF Local, LocalOf
<1>2. ASSUME NEW t \in Threads PROVE LocalOf(t) \in Nat
  BY DeepStack DEF LocalOf, TrackerInv, ThreadInv
<1>3. ASSUME NEW t \in Threads, loader.owner # t PROVE LocalOf(t) = 0
  BY <1>3, DeepOwns DEF TrackerInv, LocalOf
<1>4. QED
  BY <1>1, <1>2, <1>3

\* What a thread's step needs to do to the others: nothing, and the lock is its
\* own or nobody's before and after if it changes.
StepOf(t) ==
  /\ stack' \in Stacks /\ ldr' = ldr
  /\ \A u \in Threads \ {t} :
       /\ stack'[u] = stack[u]
       /\ u \in inDll' <=> u \in inDll
       /\ u \in pending' => u \in pending
       /\ loader.owner = u => UNCHANGED <<loader, enterCount, isLocked>>
       /\ loader'.owner = u => loader.owner = u

LEMMA OtherThreads ==
  ASSUME TrackerInv, NEW t \in Threads, StepOf(t), NEW u \in Threads, u # t
  PROVE  ThreadInv(u)'
<1>1. ThreadInv(u)
  BY DEF TrackerInv
<1>2. /\ stack'[u] = stack[u] /\ InDll(u)' = InDll(u) /\ Top(u)' = Top(u)
      /\ u \in pending' => u \in pending
      /\ loader.owner = u => UNCHANGED <<loader, enterCount, isLocked>>
      /\ loader'.owner = u => loader.owner = u
      /\ ldr' = ldr
  BY DEF StepOf, InDll, Top
<1>3. ldr' => Locks(stack'[u]) + InDll(u)' = IF loader'.owner = u THEN loader'.count ELSE 0
  BY <1>1, <1>2 DEF ThreadInv
<1>4. Handlers(stack'[u]) = IF loader'.owner = u THEN enterCount' ELSE 0
  BY <1>1, <1>2 DEF ThreadInv
<1>5. ldr' /\ stack'[u] # <<>> /\ Top(u)'.at = "test" => isLocked'
  <2> SUFFICES ASSUME ldr, stack[u] # <<>>, Top(u).at = "test" PROVE isLocked'
    BY <1>2
  <2>1. isLocked
    BY <1>1 DEF ThreadInv
  <2>2. Locks(stack[u]) = Len(stack[u]) /\ Len(stack[u]) \in 1 .. 4
    BY <1>1, ShapeLength DEF ThreadInv, Locks, HoldsLocker, Top
  <2>3. loader.owner = u
    <3>1. Locks(stack[u]) + InDll(u) # 0
      <4>1. Locks(stack[u]) \in 1 .. 4
        BY <2>2
      <4>2. QED
        BY <4>1 DEF InDll
    <3>2. QED
      BY <1>1, <3>1 DEF ThreadInv
  <2>4. QED
    BY <1>2, <2>1, <2>3
<1>6. QED
  BY <1>1, <1>2, <1>3, <1>4, <1>5 DEF ThreadInv

\* A step of a thread that keeps its own part, and accounts for its blocks, keeps
\* the invariant.
LEMMA StepKeeps ==
  ASSUME TrackerInv, NEW t \in Threads, StepOf(t), ThreadInv(t)', LockInv', OwnerInv',
         heap' \in [ok : BOOLEAN, live : Int, lost : Nat],
         heap'.live - heap'.lost - LocalOf(t)' = heap.live - heap.lost - LocalOf(t),
         UNCHANGED <<sw, libs, main>>
  PROVE  TrackerInv'
<1>1. \A u \in Threads : ThreadInv(u)'
  BY OtherThreads
<1>2. LibraryInv'
  BY DEF TrackerInv, LibraryInv
<1>3. /\ \A u \in Threads : loader'.owner = u => Local' = LocalOf(u)'
      /\ loader'.owner \notin Threads => Local' = 0
  BY DEF Local, LocalOf
<1>4. loader'.owner # t => LocalOf(t)' = 0
  <2> SUFFICES ASSUME loader'.owner # t, Len(stack'[t]) >= 2 PROVE FALSE
    BY DEF LocalOf
  <2>1. QED
    BY DeepStack DEF ThreadInv
<1>5. \A u \in Threads \ {t} : LocalOf(u)' = LocalOf(u)
  BY DEF StepOf, LocalOf
<1>6. /\ Local = IF loader.owner \in Threads THEN LocalOf(loader.owner) ELSE 0
      /\ \A u \in Threads : LocalOf(u) \in Nat /\ (loader.owner # u => LocalOf(u) = 0)
  BY LocalOfOwner
<1>7. LocalOf(t)' \in Nat
  BY DeepStack DEF LocalOf, ThreadInv
<1>8. Local' \in Nat /\ Local \in Nat /\ Local' - LocalOf(t)' = Local - LocalOf(t)
  <2>0. loader.owner \in Threads \cup {NoThread} /\ loader'.owner \in Threads \cup {NoThread}
        /\ NoThread \notin Threads
    BY WalkerAssumption DEF TrackerInv, LockInv
  <2>1. CASE loader.owner \in Threads \ {t}
    <3>1. loader' = loader
      BY <2>1 DEF StepOf
    <3>2. Local' = Local /\ Local \in Nat
      BY <1>3, <1>5, <1>6, <2>1, <3>1
    <3>3. LocalOf(t)' = 0 /\ LocalOf(t) = 0
      BY <1>4, <1>6, <2>1, <3>1
    <3>4. QED
      BY <3>2, <3>3
  <2>2. CASE loader.owner \notin Threads \ {t}
    <3>1. loader'.owner \in {t, NoThread} /\ loader.owner \in {t, NoThread}
      BY <2>0, <2>2 DEF StepOf
    <3>2. Local = LocalOf(t)
      BY <1>6, <2>0, <3>1
    <3>3. Local' = LocalOf(t)'
      BY <1>3, <1>4, <2>0, <3>1
    <3>4. QED
      BY <1>6, <1>7, <3>2, <3>3
  <2>3. QED
    BY <2>1, <2>2
<1>9. HeapInv'
  <2>1. Owned(sw)' = Owned(sw) /\ Owned(sw) \in Nat
    BY DEF Owned
  <2>2. /\ heap.live = Owned(sw) + heap.lost + Local /\ heap.lost \in Nat /\ heap.live \in Nat
    BY DEF TrackerInv, HeapInv
  <2>3. heap'.live = Owned(sw)' + heap'.lost + Local'
    <3>1. heap'.live \in Int /\ heap'.lost \in Nat /\ LocalOf(t) \in Nat
      BY <1>6
    <3>2. QED
      BY <1>7, <1>8, <2>1, <2>2, <3>1
  <2>4. heap'.live \in Nat
    BY <1>8, <2>1, <2>3
  <2>5. heap' \in [ok : BOOLEAN, live : Nat, lost : Nat]
    BY <2>4
  <2>6. QED
    BY <2>3, <2>5 DEF HeapInv
<1>10. QED
  BY <1>1, <1>2, <1>9 DEF TrackerInv, StepOf, Stacks

-----------------------------------------------------------------------------
(* The steps of a thread *)

\* What no step of a thread changes.
OwnerVars == <<main, me, dontFilter, filter, vectored>>
StepFrame(t) ==
  /\ UNCHANGED <<ldr, libs, sw, OwnerVars>>
  /\ stack' \in Stacks /\ \A u \in Threads \ {t} : stack'[u] = stack[u]
  /\ pending' \subseteq pending \cup {t}
  /\ \A u \in Threads \ {t} : u \in inDll' <=> u \in inDll
  /\ inDll' \subseteq Threads
  /\ heap' \in [ok : BOOLEAN, live : Int, lost : Nat]
  /\ heap'.live - heap'.lost - LocalOf(t)' = heap.live - heap.lost - LocalOf(t)
  /\ Shape(stack'[t])
  /\ t \in pending' /\ stack'[t] # <<>> => Top(t)'.at \in Interrupted
  /\ main # "off" \/ stack'[t] = <<>>

LEMMA StepOwner ==
  ASSUME TrackerInv, NEW t \in Threads, StepFrame(t) PROVE OwnerInv'
<1>1. {me', dontFilter', vectored'} \subseteq BOOLEAN /\ pending' \subseteq Threads
      /\ inDll' \subseteq Threads
  BY DEF TrackerInv, OwnerInv, StepFrame, OwnerVars
<1>2. main' = "off" => /\ ~vectored' /\ filter' = "program" /\ sw' = NoWalker
                       /\ \A u \in Threads : stack'[u] = <<>>
  BY DEF TrackerInv, OwnerInv, StepFrame, OwnerVars
<1>3. QED
  BY <1>1, <1>2 DEF OwnerInv

\* The lock and the count stay as they are.
LEMMA PlainStep ==
  ASSUME TrackerInv, NEW t \in Threads, StepFrame(t),
         UNCHANGED <<loader, isLocked, enterCount, inDll>>,
         Locks(stack'[t]) = Locks(stack[t]), Handlers(stack'[t]) = Handlers(stack[t]),
         stack'[t] # <<>> => Top(t)'.at # "test"
  PROVE  TrackerInv'
<1>1. ThreadInv(t)'
  BY DEF TrackerInv, ThreadInv, StepFrame, InDll
<1>2. LockInv'
  BY DEF TrackerInv, LockInv, StepFrame
<1>3. StepOf(t)
  BY DEF StepOf, StepFrame
<1>4. QED
  BY <1>1, <1>2, <1>3, StepOwner, StepKeeps DEF StepFrame, OwnerVars

\* LoaderLock::lock.
LEMMA LockStep ==
  ASSUME TrackerInv, NEW t \in Threads, StepFrame(t), lock(t), UNCHANGED <<enterCount, inDll>>,
         Locks(stack'[t]) = Locks(stack[t]) + 1, Handlers(stack'[t]) = Handlers(stack[t])
  PROVE  TrackerInv'
<1> USE WalkerAssumption
<1>0. Locks(stack[t]) \in Nat /\ Handlers(stack[t]) \in Nat
  BY ShapeNumbers DEF TrackerInv, ThreadInv
<1>1. CASE ldr
  <2>1. /\ loader.owner \in {NoThread, t} /\ loader' = [owner |-> t, count |-> loader.count + 1]
        /\ isLocked' = TRUE /\ loader.count \in Nat
    BY <1>1 DEF lock, TrackerInv, LockInv
  <2>2. ThreadInv(t)'
    <3>1. Locks(stack'[t]) + InDll(t)' = loader.count + 1
      <4>1. Locks(stack[t]) + InDll(t) = loader.count
        BY <1>1, <2>1 DEF TrackerInv, ThreadInv, LockInv
      <4>2. QED
        BY <1>0, <2>1, <4>1 DEF InDll
    <3>2. Handlers(stack'[t]) = enterCount'
      BY <2>1 DEF TrackerInv, ThreadInv, LockInv
    <3>3. QED
      BY <2>1, <3>1, <3>2 DEF ThreadInv, StepFrame
  <2>3. LockInv'
    BY <1>1, <2>1 DEF TrackerInv, LockInv, StepFrame
  <2>4. StepOf(t)
    BY <2>1 DEF StepOf, StepFrame
  <2>5. QED
    BY <2>2, <2>3, <2>4, StepOwner, StepKeeps DEF StepFrame, OwnerVars
<1>2. CASE ~ldr
  <2>1. isLocked' = FALSE /\ loader' = loader /\ loader.owner = NoThread
    BY <1>2 DEF lock, TrackerInv, LockInv
  <2>2. ThreadInv(t)'
    BY <1>2, <2>1 DEF TrackerInv, ThreadInv, StepFrame
  <2>3. LockInv'
    BY <1>2, <2>1 DEF TrackerInv, LockInv, StepFrame
  <2>4. StepOf(t)
    BY <2>1 DEF StepOf, StepFrame
  <2>5. QED
    BY <2>2, <2>3, <2>4, StepOwner, StepKeeps DEF StepFrame, OwnerVars
<1>3. QED
  BY <1>1, <1>2 DEF TrackerInv, LockInv

\* LoaderLock::unlock, by an activation that holds a locker.
LEMMA UnlockStep ==
  ASSUME TrackerInv, NEW t \in Threads, StepFrame(t), unlock, UNCHANGED <<enterCount, inDll>>,
         Locks(stack[t]) = Locks(stack'[t]) + 1, Handlers(stack'[t]) = Handlers(stack[t]),
         stack'[t] # <<>> => Top(t)'.at # "test",
         Locks(stack'[t]) = 0 => Handlers(stack'[t]) = 0
  PROVE  TrackerInv'
<1> USE WalkerAssumption
<1>0. /\ Locks(stack[t]) \in Nat /\ Handlers(stack[t]) \in Nat
      /\ Locks(stack'[t]) \in Nat /\ Handlers(stack'[t]) \in Nat
  BY ShapeNumbers DEF TrackerInv, ThreadInv, StepFrame
<1>1. CASE ldr
  <2>1. /\ isLocked' = FALSE /\ loader.owner \in Threads \cup {NoThread} /\ loader.count \in Nat
        /\ loader' = [owner |-> IF loader.count = 1 THEN NoThread ELSE loader.owner,
                      count |-> loader.count - 1]
    BY <1>1 DEF unlock, Released, TrackerInv, LockInv
  <2>2. loader.owner = t /\ Locks(stack'[t]) + 1 + InDll(t) = loader.count
    <3>1. Locks(stack[t]) + InDll(t) = IF loader.owner = t THEN loader.count ELSE 0
      BY <1>1 DEF TrackerInv, ThreadInv
    <3>2. QED
      BY <1>0, <3>1 DEF InDll
  <2>3. InDll(t)' = InDll(t) /\ InDll(t) \in {0, 1}
    BY DEF InDll
  <2>4. enterCount' = Handlers(stack'[t])
    BY <2>2 DEF TrackerInv, ThreadInv
  <2>5. loader.count = 1 <=> Locks(stack'[t]) = 0 /\ InDll(t) = 0
    BY <1>0, <2>2, <2>3
  <2>6. ThreadInv(t)'
    <3>1. Locks(stack'[t]) + InDll(t)' = IF loader'.owner = t THEN loader'.count ELSE 0
      BY <1>0, <2>1, <2>2, <2>3, <2>5
    <3>2. Handlers(stack'[t]) = IF loader'.owner = t THEN enterCount' ELSE 0
      BY <2>1, <2>2, <2>4, <2>5
    <3>3. QED
      BY <2>1, <3>1, <3>2 DEF ThreadInv, StepFrame
  <2>7. LockInv'
    <3>1. loader.count \in Nat \ {0}
      BY <1>0, <2>1, <2>2, <2>3
    <3>2. loader' \in [owner : Threads \cup {NoThread}, count : Nat]
      BY <2>1, <3>1
    <3>3. loader'.count = 0 <=> loader'.owner = NoThread
      BY <2>1, <2>2, <3>1
    <3>4. loader'.owner = NoThread => enterCount' = 0
      BY <2>1, <2>2, <2>4, <2>5
    <3>5. QED
      BY <1>1, <2>1, <3>2, <3>3, <3>4 DEF TrackerInv, LockInv, StepFrame
  <2>8. StepOf(t)
    BY <2>1, <2>2 DEF StepOf, StepFrame
  <2>9. QED
    BY <2>6, <2>7, <2>8, StepOwner, StepKeeps DEF StepFrame, OwnerVars
<1>2. CASE ~ldr
  <2>1. isLocked' = FALSE /\ loader' = loader /\ loader.owner = NoThread
    BY <1>2 DEF unlock, TrackerInv, LockInv
  <2>2. ThreadInv(t)'
    BY <1>2, <2>1 DEF TrackerInv, ThreadInv, StepFrame
  <2>3. LockInv'
    BY <1>2, <2>1 DEF TrackerInv, LockInv, StepFrame
  <2>4. StepOf(t)
    BY <2>1 DEF StepOf, StepFrame
  <2>5. QED
    BY <2>2, <2>3, <2>4, StepOwner, StepKeeps DEF StepFrame, OwnerVars
<1>3. QED
  BY <1>1, <1>2 DEF TrackerInv, LockInv

\* The owner of the lock counts a handler of its own, up or down.
LEMMA CountStep ==
  ASSUME TrackerInv, NEW t \in Threads, StepFrame(t), UNCHANGED <<loader, isLocked, inDll>>,
         loader.owner = t, enterCount' = Handlers(stack'[t]),
         Locks(stack'[t]) = Locks(stack[t]), stack'[t] # <<>> => Top(t)'.at # "test"
  PROVE  TrackerInv'
<1>0. Handlers(stack'[t]) \in Nat
  BY ShapeNumbers DEF StepFrame
<1>1. ThreadInv(t)'
  BY DEF TrackerInv, ThreadInv, StepFrame, InDll
<1>2. LockInv'
  BY <1>0, WalkerAssumption DEF TrackerInv, LockInv, StepFrame
<1>3. StepOf(t)
  BY DEF StepOf, StepFrame
<1>4. QED
  BY <1>1, <1>2, <1>3, StepOwner, StepKeeps DEF StepFrame, OwnerVars

\* A handler moves on to another of its places.
LEMMA HandlerGoto ==
  ASSUME TrackerInv, NEW t \in Threads, NEW a, stack[t] # <<>>, Top(t).op # "show",
         a \in PlacesOf(Rank(stack[t], Len(stack[t]))), Goto(t, a)
  PROVE  /\ stack' \in Stacks /\ \A u \in Threads \ {t} : stack'[u] = stack[u]
         /\ Shape(stack'[t]) /\ stack'[t] # <<>> /\ Len(stack'[t]) = Len(stack[t])
         /\ Top(t)'.at = a /\ Top(t)'.op = Top(t).op
         /\ Rank(stack'[t], Len(stack'[t])) = Rank(stack[t], Len(stack[t]))
         /\ LocalOf(t)' = LocalOf(t) /\ LocalOf(t) \in Nat
<1> DEFINE s == stack[t]
           r == stack'[t]
           f == [Top(t) EXCEPT !.at = a]
<1>1. stack \in Stacks /\ Shape(s)
  BY DEF TrackerInv, ThreadInv, Stacks
<1>2. Len(s) \in 1 .. 4 /\ DOMAIN s = 1 .. Len(s) /\ s \in Seq(Frame)
  BY <1>1, ShapeLength
<1>3. Top(t) \in Frame /\ Top(t) = s[Len(s)] /\ a \in Places
  BY <1>2 DEF Top, PlacesOf, Places
<1>4. f \in Frame /\ f.op = Top(t).op /\ f.at = a /\ f.mine = Top(t).mine /\ f.strings = Top(t).strings
  BY <1>3, MovedActivation
<1>5. Top(t).mine = 0 /\ Top(t).strings = 0
  BY <1>1, <1>2, <1>3 DEF Shape
<1>6. Become(t, f)
  BY DEF Goto
<1> HIDE DEF f
<1>7. /\ stack' \in Stacks /\ \A u \in Threads \ {t} : stack'[u] = stack[u]
      /\ Replaced(s, r) /\ r[Len(s)] = f
  BY <1>1, <1>4, <1>6, BecomeReplaces
<1>8. Shape(r) /\ Rank(r, Len(r)) = Rank(s, Len(s))
  <2> HIDE DEF s, r
  <2>1. QED
    BY <1>1, <1>3, <1>4, <1>5, <1>7, HandlerMoves DEF s
<1>9. Len(r) = Len(s) /\ r # <<>>
  BY <1>2, <1>7, <1>8, ShapeLength DEF Replaced
<1>10. Top(t)' = f
  BY <1>7, <1>9 DEF Top
<1>11. LocalOf(t)' = LocalOf(t) /\ LocalOf(t) \in Nat
  <2>1. Len(s) >= 2 => r[2].mine = s[2].mine
    <3>1. CASE Len(s) = 2
      BY <1>3, <1>4, <1>5, <1>7, <3>1
    <3>2. CASE Len(s) \in {3, 4}
      <4>1. \A i \in 1 .. Len(s) - 1 : r[i] = s[i]
        BY <1>7 DEF Replaced
      <4>2. 2 \in 1 .. Len(s) - 1
        <5>1. ASSUME NEW n \in {3, 4} PROVE 2 \in 1 .. n - 1
          BY <5>1
        <5>2. QED
          BY <3>2, <5>1
      <4>3. QED
        BY <4>1, <4>2
    <3>3. QED
      BY <1>2, <3>1, <3>2
  <2>2. LocalOf(t) \in Nat
    BY LocalOfOwner
  <2>3. QED
    BY <1>9, <2>1, <2>2 DEF LocalOf
<1>12. QED
  BY <1>4, <1>7, <1>8, <1>9, <1>10, <1>11

\* The innermost activation returns.
LEMMA TopReturns ==
  ASSUME TrackerInv, NEW t \in Threads, stack[t] # <<>>, stack' = [stack EXCEPT ![t] = Below(t)]
  PROVE  /\ stack' \in Stacks /\ \A u \in Threads \ {t} : stack'[u] = stack[u]
         /\ Shape(stack'[t]) /\ Len(stack'[t]) = Len(stack[t]) - 1
         /\ Locks(stack'[t]) = Len(stack[t]) - 1
         /\ Handlers(stack'[t]) = IF Top(t).op = "show" THEN Rank(stack[t], Len(stack[t]))
                                                       ELSE Rank(stack[t], Len(stack[t])) - 1
         /\ stack'[t] # <<>> => Top(t)'.at \in Interrupted
         /\ LocalOf(t)' = LocalOf(t) - (IF Len(stack[t]) = 2 THEN Top(t).mine ELSE 0)
         /\ LocalOf(t) \in Nat
<1> DEFINE s == stack[t]
           r == SubSeq(s, 1, Len(s) - 1)
<1>1. stack \in Stacks /\ Shape(s) /\ s # <<>>
  BY DEF TrackerInv, ThreadInv, Stacks
<1>2. Len(s) \in 1 .. 4 /\ DOMAIN s = 1 .. Len(s) /\ s \in Seq(Frame)
  BY <1>1, ShapeLength
<1>3. stack'[t] = r /\ (\A u \in Threads \ {t} : stack'[u] = stack[u])
  BY <1>1 DEF Stacks, Below
<1>4. /\ Shape(r) /\ Len(r) = Len(s) - 1
      /\ \A i \in 1 .. Len(r) : r[i] = s[i]
      /\ Locks(r) = Len(s) - 1
      /\ Handlers(r) = IF s[Len(s)].op = "show" THEN Rank(s, Len(s)) ELSE Rank(s, Len(s)) - 1
      /\ r # <<>> => r[Len(r)].at \in Interrupted
  <2> HIDE DEF s
  <2>1. QED
    BY <1>1, ShapeBelow
<1>5. r \in Seq(Frame)
  BY <1>4, ShapeLength
<1> HIDE DEF r
<1>6. stack' \in Stacks
  BY <1>1, <1>3, <1>5 DEF Stacks, Below, r
<1>7. LocalOf(t)' = LocalOf(t) - (IF Len(s) = 2 THEN Top(t).mine ELSE 0)
  <2>0. LocalOf(t) \in Nat
    BY LocalOfOwner
  <2>1. CASE Len(s) = 1
    BY <1>3, <1>4, <2>0, <2>1 DEF LocalOf
  <2>2. CASE Len(s) = 2
    BY <1>3, <1>4, <2>0, <2>2 DEF LocalOf, Top
  <2>3. CASE Len(s) \in {3, 4}
    <3>1. Len(s) >= 2 /\ Len(r) >= 2 /\ 2 \in 1 .. Len(r) /\ Len(s) # 2
      <4>1. ASSUME NEW n \in {3, 4}, NEW m, m = n - 1
            PROVE  n >= 2 /\ m >= 2 /\ 2 \in 1 .. m /\ n # 2
        BY <4>1
      <4>2. QED
        BY <1>4, <2>3, <4>1
    <3>2. r[2] = s[2]
      BY <1>4, <3>1
    <3>3. LocalOf(t)' = LocalOf(t)
      BY <1>3, <3>1, <3>2 DEF LocalOf
    <3>4. QED
      BY <2>0, <3>1, <3>3
  <2>4. QED
    BY <1>2, <2>1, <2>2, <2>3
<1>8. QED
  BY <1>3, <1>4, <1>6, <1>7, LocalOfOwner DEF Top

LEMMA CommonPlaces ==
  ASSUME NEW rank PROVE {"start", "checked", "lock", "test", "uncount", "unlock"} \subseteq PlacesOf(rank)
BY DEF PlacesOf, HandlerPlaces

LEMMA HeapStays ==
  ASSUME TrackerInv, NEW t \in Threads, heap' = heap, LocalOf(t)' = LocalOf(t)
  PROVE  /\ heap' \in [ok : BOOLEAN, live : Int, lost : Nat]
         /\ heap'.live - heap'.lost - LocalOf(t)' = heap.live - heap.lost - LocalOf(t)
BY DEF TrackerInv, HeapInv

\* A thread with an activation shows that the tracker was initialized.
LEMMA NotOff ==
  ASSUME TrackerInv, NEW t \in Threads, stack[t] # <<>> \/ vectored \/ filter = "tracker"
  PROVE  main # "off"
BY DEF TrackerInv, OwnerInv

\* A handler moves on with neither lock nor count changed.
LEMMA HandlerPlain ==
  ASSUME TrackerInv, NEW t \in Threads, NEW p, NEW a, At(t, Handler, p), Goto(t, a),
         a \in {"checked", "lock", "uncount", "unlock"},
         a \in {"checked", "lock"} <=> p \in {"start", "checked", "lock"},
         a = "uncount" <=> p \in {"record", "error", "end", "uncount"},
         t \notin pending', pending' \subseteq pending,
         UNCHANGED <<loader, isLocked, ldr, heap, libs, sw, OwnerVars, enterCount, inDll>>
  PROVE  TrackerInv'
<1>1. stack[t] # <<>> /\ Top(t).op \in Handler /\ Top(t).op # "show" /\ Top(t).at = p
  BY DEF At, Handler
<1>2. a \in PlacesOf(Rank(stack[t], Len(stack[t])))
  BY CommonPlaces
<1>3. /\ stack' \in Stacks /\ \A u \in Threads \ {t} : stack'[u] = stack[u]
      /\ Shape(stack'[t]) /\ stack'[t] # <<>> /\ Len(stack'[t]) = Len(stack[t])
      /\ Top(t)'.at = a /\ Top(t)'.op = Top(t).op
      /\ Rank(stack'[t], Len(stack'[t])) = Rank(stack[t], Len(stack[t]))
      /\ LocalOf(t)' = LocalOf(t) /\ LocalOf(t) \in Nat
  BY <1>1, <1>2, HandlerGoto
<1>4. Locks(stack'[t]) = Locks(stack[t])
  BY <1>1, <1>3 DEF Locks, HoldsLocker, Top
<1>5. Handlers(stack'[t]) = Handlers(stack[t])
  BY <1>1, <1>3 DEF Handlers, Counted, Top
<1>6. StepFrame(t)
  BY <1>1, <1>3, HeapStays, NotOff DEF StepFrame, TrackerInv, OwnerInv
<1>7. QED
  BY <1>3, <1>4, <1>5, <1>6, PlainStep

\* A handler that never took the lock returns.
LEMMA HandlerGivesUp ==
  ASSUME TrackerInv, NEW t \in Threads, NEW p \in {"start", "checked"}, NEW e,
         At(t, Handler, p), Return(t, e),
         UNCHANGED <<loader, isLocked, ldr, heap, libs, sw, OwnerVars, enterCount, inDll>>
  PROVE  TrackerInv'
<1>1. stack[t] # <<>> /\ Top(t).op \in Handler /\ Top(t).op # "show" /\ Top(t).at = p
  BY DEF At, Handler
<1>2. stack' = [stack EXCEPT ![t] = Below(t)] /\ pending' \subseteq pending \cup {t}
  BY DEF Return
<1>3. Len(stack[t]) = 2 => Top(t).mine = 0
  <2>1. Shape(stack[t]) /\ Len(stack[t]) \in DOMAIN stack[t]
    BY <1>1, ShapeLength DEF TrackerInv, ThreadInv
  <2>2. QED
    BY <1>1, <2>1 DEF Shape, Top
<1>4. /\ stack' \in Stacks /\ \A u \in Threads \ {t} : stack'[u] = stack[u]
      /\ Shape(stack'[t]) /\ Locks(stack'[t]) = Len(stack[t]) - 1
      /\ Handlers(stack'[t]) = Rank(stack[t], Len(stack[t])) - 1
      /\ stack'[t] # <<>> => Top(t)'.at \in Interrupted
      /\ LocalOf(t)' = LocalOf(t) - 0 /\ LocalOf(t) \in Nat
  BY <1>1, <1>2, <1>3, TopReturns
<1>5. Locks(stack'[t]) = Locks(stack[t]) /\ Handlers(stack'[t]) = Handlers(stack[t])
  BY <1>1, <1>4 DEF Locks, Handlers, HoldsLocker, Counted, Top
<1>6. StepFrame(t)
  <2>1. LocalOf(t)' = LocalOf(t)
    BY <1>4
  <2>2. QED
    BY <1>1, <1>2, <1>4, <2>1, HeapStays, NotOff DEF StepFrame, TrackerInv, OwnerInv
<1>7. stack'[t] # <<>> => Top(t)'.at # "test"
  BY <1>4 DEF Interrupted, WalkerCallsOut
<1>8. QED
  BY <1>5, <1>6, <1>7, PlainStep

LEMMA TestMeKeeps ==
  ASSUME TrackerInv, NEW t \in Threads, TestMe(t) \/ FilterCpp(t) PROVE TrackerInv'
<1>1. UNCHANGED <<loader, isLocked, ldr, heap, libs, sw, OwnerVars, enterCount, inDll>>
  BY DEF TestMe, FilterCpp, OwnerVars
<1>2. CASE TestMe(t)
  BY <1>1, <1>2, HandlerPlain, HandlerGivesUp DEF TestMe
<1>3. CASE FilterCpp(t)
  BY <1>1, <1>3, HandlerPlain, HandlerGivesUp DEF FilterCpp, Running
<1>4. QED
  BY <1>2, <1>3

LEMMA LogKeeps ==
  ASSUME TrackerInv, NEW t \in Threads, LogError(t) \/ LogEnd(t) PROVE TrackerInv'
<1>1. UNCHANGED <<loader, isLocked, ldr, heap, libs, sw, OwnerVars, enterCount, inDll, pending>>
      /\ t \notin pending
  BY DEF LogError, LogEnd, OwnerVars, trackerVars, Running
<1>2. QED
  BY <1>1, HandlerPlain DEF LogError, LogEnd

LEMMA HandlerLockKeeps ==
  ASSUME TrackerInv, NEW t \in Threads, HandlerLock(t) PROVE TrackerInv'
<1>1. /\ stack[t] # <<>> /\ Top(t).op \in Handler /\ Top(t).op # "show" /\ Top(t).at = "lock"
      /\ Goto(t, "test") /\ lock(t) /\ t \notin pending
      /\ UNCHANGED <<ldr, heap, libs, sw, OwnerVars, enterCount, inDll, pending>>
  BY DEF HandlerLock, At, Handler, Running, trackerVars, OwnerVars
<1>2. "test" \in PlacesOf(Rank(stack[t], Len(stack[t])))
  BY CommonPlaces
<1>3. /\ stack' \in Stacks /\ \A u \in Threads \ {t} : stack'[u] = stack[u]
      /\ Shape(stack'[t]) /\ stack'[t] # <<>> /\ Len(stack'[t]) = Len(stack[t])
      /\ Top(t)'.at = "test" /\ Top(t)'.op = Top(t).op
      /\ Rank(stack'[t], Len(stack'[t])) = Rank(stack[t], Len(stack[t]))
      /\ LocalOf(t)' = LocalOf(t) /\ LocalOf(t) \in Nat
  BY <1>1, <1>2, HandlerGoto
<1>4. Len(stack[t]) \in 1 .. 4
  BY <1>1, ShapeLength DEF TrackerInv, ThreadInv
<1>5. Locks(stack'[t]) = Locks(stack[t]) + 1
  BY <1>1, <1>3, <1>4 DEF Locks, HoldsLocker, Top
<1>6. Handlers(stack'[t]) = Handlers(stack[t])
  BY <1>1, <1>3 DEF Handlers, Counted, Top
<1>7. StepFrame(t)
  BY <1>1, <1>3, HeapStays, NotOff DEF StepFrame, TrackerInv, OwnerInv
<1>8. QED
  BY <1>1, <1>5, <1>6, <1>7, LockStep

\* A handler past the lock belongs to its owner, and is the first, the second or
\* the third of its thread.
LEMMA OwnerAt ==
  ASSUME TrackerInv, NEW t \in Threads, stack[t] # <<>>, HoldsLocker(Top(t)), ldr
  PROVE  loader.owner = t /\ Handlers(stack[t]) = enterCount
<1>1. Len(stack[t]) \in 1 .. 4 /\ Locks(stack[t]) = Len(stack[t])
  BY ShapeLength DEF TrackerInv, ThreadInv, Locks, Top
<1>2. Locks(stack[t]) + InDll(t) # 0
  <2>1. Locks(stack[t]) \in 1 .. 4
    BY <1>1
  <2>2. QED
    BY <2>1 DEF InDll
<1>3. QED
  BY <1>2 DEF TrackerInv, ThreadInv

LEMMA TopRank ==
  ASSUME TrackerInv, NEW t \in Threads, stack[t] # <<>>, Top(t).op # "show"
  PROVE  /\ Rank(stack[t], Len(stack[t])) \in 1 .. 3
         /\ Handlers(stack[t]) = IF Counted(Top(t)) THEN Rank(stack[t], Len(stack[t]))
                                 ELSE Rank(stack[t], Len(stack[t])) - 1
<1> DEFINE s == stack[t]
<1>1. Shape(s) /\ Len(s) \in 1 .. 4 /\ DOMAIN s = 1 .. Len(s)
  BY ShapeLength DEF TrackerInv, ThreadInv
<1>2. Handlers(s) = IF Counted(Top(t)) THEN Rank(s, Len(s)) ELSE Rank(s, Len(s)) - 1
  BY DEF Handlers, Top
<1>3. Rank(s, Len(s)) \in 1 .. 4
  BY <1>1 DEF Rank, Top
<1>4. Rank(s, Len(s)) # 4
  <2> SUFFICES ASSUME Rank(s, Len(s)) = 4 PROVE FALSE
    OBVIOUS
  <2>1. Len(s) = 4 /\ s[2].op # "show"
    <3>1. ASSUME NEW n \in 1 .. 4, Rank(s, n) = 4 PROVE n = 4 /\ s[2].op # "show"
      BY <3>1 DEF Rank
    <3>2. QED
      BY <1>1, <3>1
  <2>2. 3 \in DOMAIN s /\ 3 < Len(s) /\ Rank(s, 3) = 3
    BY <1>1, <2>1 DEF Rank
  <2>3. s[3].op # "show" /\ s[3].at \in PlacesOf(3) /\ s[3].at \in Interrupted
    BY <1>1, <2>2 DEF Shape
  <2>4. QED
    BY <2>3 DEF PlacesOf, Interrupted, HandlerPlaces, WalkerCallsOut
<1>5. QED
  BY <1>2, <1>3, <1>4

\* The first handler traces, the second notes an error, the third returns; a
\* handler that has the lock finds the flag set.
LEMMA TestLockedKeeps ==
  ASSUME TrackerInv, NEW t \in Threads, TestLocked(t) PROVE TrackerInv'
<1> DEFINE k == Rank(stack[t], Len(stack[t]))
           a == CASE enterCount' >= 3 -> "uncount"
                  [] enterCount' = 2 -> "error"
                  [] OTHER -> "record"
<1>1. /\ stack[t] # <<>> /\ Top(t).op \in Handler /\ Top(t).op # "show" /\ Top(t).at = "test"
      /\ t \notin pending
      /\ UNCHANGED <<loader, isLocked, ldr, heap, libs, sw, OwnerVars, inDll, pending>>
  BY DEF TestLocked, At, Handler, Running, OwnerVars
<1>2. CASE isLocked
  <2>1. ldr /\ enterCount' = enterCount + 1 /\ Goto(t, a)
    BY <1>2 DEF TestLocked, TrackerInv, LockInv
  <2>2. loader.owner = t /\ Handlers(stack[t]) = enterCount
    BY <1>1, <2>1, OwnerAt DEF HoldsLocker
  <2>3. k \in 1 .. 3 /\ enterCount = k - 1
    BY <1>1, <2>2, TopRank DEF Counted
  <2>4. enterCount' = k
    BY <2>1, <2>3
  <2>5. a \in PlacesOf(k) /\ a \in {"record", "error", "uncount"}
    <3> HIDE DEF k
    <3>1. CASE k = 1
      BY <2>4, <3>1 DEF PlacesOf, HandlerPlaces
    <3>2. CASE k = 2
      BY <2>4, <3>2 DEF PlacesOf, HandlerPlaces
    <3>3. CASE k = 3
      BY <2>4, <3>3 DEF PlacesOf, HandlerPlaces
    <3>4. QED
      BY <2>3, <3>1, <3>2, <3>3
  <2> HIDE DEF a
  <2>6. /\ stack' \in Stacks /\ \A u \in Threads \ {t} : stack'[u] = stack[u]
        /\ Shape(stack'[t]) /\ stack'[t] # <<>> /\ Len(stack'[t]) = Len(stack[t])
        /\ Top(t)'.at = a /\ Top(t)'.op = Top(t).op
        /\ Rank(stack'[t], Len(stack'[t])) = k
        /\ LocalOf(t)' = LocalOf(t) /\ LocalOf(t) \in Nat
    BY <1>1, <2>1, <2>5, HandlerGoto
  <2>7. Locks(stack'[t]) = Locks(stack[t])
    BY <1>1, <2>5, <2>6 DEF Locks, HoldsLocker, Top
  <2>8. Handlers(stack'[t]) = k
    BY <1>1, <2>5, <2>6 DEF Handlers, Counted, Top
  <2>9. StepFrame(t)
    BY <1>1, <2>6, HeapStays, NotOff DEF StepFrame, TrackerInv, OwnerInv
  <2>10. QED
    BY <1>1, <2>2, <2>4, <2>5, <2>6, <2>7, <2>8, <2>9, CountStep
<1>3. CASE ~isLocked
  <2>1. enterCount' = enterCount /\ Goto(t, "unlock")
    BY <1>3 DEF TestLocked
  <2>2. "unlock" \in PlacesOf(k)
    BY CommonPlaces
  <2>3. /\ stack' \in Stacks /\ \A u \in Threads \ {t} : stack'[u] = stack[u]
        /\ Shape(stack'[t]) /\ stack'[t] # <<>> /\ Len(stack'[t]) = Len(stack[t])
        /\ Top(t)'.at = "unlock" /\ Top(t)'.op = Top(t).op
        /\ Rank(stack'[t], Len(stack'[t])) = k
        /\ LocalOf(t)' = LocalOf(t) /\ LocalOf(t) \in Nat
    BY <1>1, <2>1, <2>2, HandlerGoto
  <2>4. Locks(stack'[t]) = Locks(stack[t])
    BY <1>1, <2>3 DEF Locks, HoldsLocker, Top
  <2>5. Handlers(stack'[t]) = Handlers(stack[t])
    BY <1>1, <2>3 DEF Handlers, Counted, Top
  <2>6. StepFrame(t)
    BY <1>1, <2>3, HeapStays, NotOff DEF StepFrame, TrackerInv, OwnerInv
  <2>7. QED
    BY <1>1, <2>1, <2>3, <2>4, <2>5, <2>6, PlainStep
<1>4. QED
  BY <1>2, <1>3 DEF TrackerInv, LockInv

LEMMA UncountKeeps ==
  ASSUME TrackerInv, NEW t \in Threads, Uncount(t) PROVE TrackerInv'
<1> DEFINE k == Rank(stack[t], Len(stack[t]))
<1>1. /\ stack[t] # <<>> /\ Top(t).op \in Handler /\ Top(t).op # "show" /\ Top(t).at = "uncount"
      /\ t \notin pending /\ Goto(t, "unlock")
      /\ enterCount' = IF enterCount > 0 THEN enterCount - 1 ELSE enterCount
      /\ UNCHANGED <<loader, isLocked, ldr, heap, libs, sw, OwnerVars, inDll, pending>>
  BY DEF Uncount, At, Handler, Running, OwnerVars
<1>2. k \in 1 .. 3 /\ Handlers(stack[t]) = k
  BY <1>1, TopRank DEF Counted
<1>3. loader.owner = t /\ enterCount = k
  BY <1>2 DEF TrackerInv, ThreadInv
<1>4. enterCount' = k - 1
  BY <1>1, <1>2, <1>3
<1>5. "unlock" \in PlacesOf(k)
  BY CommonPlaces
<1>6. /\ stack' \in Stacks /\ \A u \in Threads \ {t} : stack'[u] = stack[u]
      /\ Shape(stack'[t]) /\ stack'[t] # <<>> /\ Len(stack'[t]) = Len(stack[t])
      /\ Top(t)'.at = "unlock" /\ Top(t)'.op = Top(t).op
      /\ Rank(stack'[t], Len(stack'[t])) = k
      /\ LocalOf(t)' = LocalOf(t) /\ LocalOf(t) \in Nat
  BY <1>1, <1>5, HandlerGoto
<1>7. Locks(stack'[t]) = Locks(stack[t])
  BY <1>1, <1>6 DEF Locks, HoldsLocker, Top
<1>8. Handlers(stack'[t]) = k - 1
  BY <1>1, <1>6 DEF Handlers, Counted, Top
<1>9. StepFrame(t)
  BY <1>1, <1>6, HeapStays, NotOff DEF StepFrame, TrackerInv, OwnerInv
<1>10. QED
  BY <1>1, <1>3, <1>4, <1>6, <1>7, <1>8, <1>9, CountStep

\* An activation of either kind gives its locker back and returns.
LEMMA ReturnUnlocks ==
  ASSUME TrackerInv, NEW t \in Threads, stack[t] # <<>>, Top(t).at = "unlock", unlock,
         stack' = [stack EXCEPT ![t] = Below(t)], pending' \subseteq pending \cup {t},
         UNCHANGED <<ldr, heap, libs, sw, OwnerVars, enterCount, inDll>>
  PROVE  TrackerInv'
<1> DEFINE s == stack[t]
<1>1. Shape(s) /\ Len(s) \in 1 .. 4 /\ DOMAIN s = 1 .. Len(s) /\ s # <<>>
  BY ShapeLength DEF TrackerInv, ThreadInv
<1>2. Top(t).mine = 0
  <2>1. Len(s) \in DOMAIN s
    BY <1>1
  <2>2. QED
    BY <1>1, <2>1 DEF Shape, Top, WalkerFrame
<1>3. /\ stack' \in Stacks /\ \A u \in Threads \ {t} : stack'[u] = stack[u]
      /\ Shape(stack'[t]) /\ Len(stack'[t]) = Len(s) - 1 /\ Locks(stack'[t]) = Len(s) - 1
      /\ Handlers(stack'[t]) = IF Top(t).op = "show" THEN Rank(s, Len(s)) ELSE Rank(s, Len(s)) - 1
      /\ stack'[t] # <<>> => Top(t)'.at \in Interrupted
      /\ LocalOf(t)' = LocalOf(t) - (IF Len(s) = 2 THEN Top(t).mine ELSE 0)
      /\ LocalOf(t) \in Nat
  BY TopReturns
<1>4. LocalOf(t)' = LocalOf(t)
  BY <1>2, <1>3
<1>5. Locks(s) = Locks(stack'[t]) + 1
  <2>1. Locks(s) = Len(s)
    BY DEF Locks, HoldsLocker, Top
  <2>2. QED
    BY <1>1, <1>3, <2>1
<1>6. Handlers(stack'[t]) = Handlers(s)
  BY <1>3 DEF Handlers, Counted, Top
<1>7. Locks(stack'[t]) = 0 => Handlers(stack'[t]) = 0
  <2>1. Locks(stack'[t]) = 0 => stack'[t] = <<>>
    BY <1>3, ShapeLength
  <2>2. QED
    BY <2>1 DEF Handlers
<1>8. StepFrame(t)
  BY <1>3, <1>4, HeapStays, NotOff DEF StepFrame, TrackerInv, OwnerInv
<1>9. stack'[t] # <<>> => Top(t)'.at # "test"
  BY <1>3 DEF Interrupted, WalkerCallsOut
<1>10. QED
  BY <1>5, <1>6, <1>7, <1>8, <1>9, UnlockStep

LEMMA HandlerReturnsKeeps ==
  ASSUME TrackerInv, NEW t \in Threads, HandlerReturns(t) PROVE TrackerInv'
<1>1. /\ stack[t] # <<>> /\ Top(t).at = "unlock" /\ unlock
      /\ stack' = [stack EXCEPT ![t] = Below(t)] /\ pending' \subseteq pending \cup {t}
      /\ UNCHANGED <<ldr, heap, libs, sw, OwnerVars, enterCount, inDll>>
  BY DEF HandlerReturns, At, Return, OwnerVars
<1>2. QED
  BY <1>1, ReturnUnlocks

\* An exception pushes a handler.
LEMMA HandlerStarts ==
  ASSUME TrackerInv, NEW t \in Threads, NEW op \in Handler, NEW cpp \in BOOLEAN,
         stack[t] # <<>> => Top(t).at \in Interrupted, main # "off",
         stack' = [stack EXCEPT ![t] = Append(stack[t], Activation(op, "start", cpp))],
         t \notin pending', pending' \subseteq pending,
         UNCHANGED <<loader, isLocked, ldr, heap, libs, sw, OwnerVars, enterCount, inDll>>
  PROVE  TrackerInv'
<1> DEFINE s == stack[t]
           f == Activation(op, "start", cpp)
           r == Append(s, f)
<1>1. stack \in Stacks /\ Shape(s) /\ Len(s) \in 0 .. 4 /\ s \in Seq(Frame)
  BY ShapeLength DEF TrackerInv, ThreadInv, Stacks
<1>2. f \in Frame /\ f.op # "show" /\ f.at = "start" /\ f.mine = 0 /\ f.strings = 0
  BY NewActivation DEF Handler, Places, HandlerPlaces
<1> HIDE DEF f
<1>3. /\ r \in Seq(Frame) /\ Len(r) = Len(s) + 1 /\ r[Len(s) + 1] = f /\ r # <<>>
      /\ \A i \in 1 .. Len(s) : r[i] = s[i]
  <2> HIDE DEF s
  <2>1. /\ r \in Seq(Frame) /\ Len(r) = Len(s) + 1 /\ r[Len(s) + 1] = f
        /\ \A i \in 1 .. Len(s) : r[i] = s[i]
    BY <1>1, <1>2, AppendProperties
  <2>2. r # <<>>
    BY <1>1, <1>2, AppendProperties
  <2>3. QED
    BY <2>1, <2>2
<1>4. Shape(r) /\ Locks(r) = Locks(s) /\ Handlers(r) = Handlers(s)
  BY <1>1, <1>2, ShapeAbove DEF Top
<1> HIDE DEF r
<1>5. /\ stack'[t] = r /\ stack' \in Stacks
      /\ \A u \in Threads \ {t} : stack'[u] = stack[u]
  BY <1>1, <1>3 DEF Stacks, r, f
<1>6. Top(t)' = f
  BY <1>1, <1>3, <1>5 DEF Top
<1>7. LocalOf(t)' = LocalOf(t)
  <2>1. CASE Len(s) = 0
    BY <1>3, <1>5, <2>1 DEF LocalOf
  <2>2. CASE Len(s) = 1
    BY <1>2, <1>3, <1>5, <2>2 DEF LocalOf
  <2>3. CASE Len(s) \in {2, 3, 4}
    <3>1. ASSUME NEW n \in {2, 3, 4} PROVE n >= 2 /\ n + 1 >= 2 /\ 2 \in 1 .. n
      BY <3>1
    <3>2. Len(s) >= 2 /\ Len(r) >= 2 /\ r[2] = s[2]
      BY <1>3, <2>3, <3>1
    <3>3. QED
      BY <1>5, <3>2 DEF LocalOf
  <2>4. QED
    BY <1>1, <2>1, <2>2, <2>3
<1>8. StepFrame(t)
  BY <1>4, <1>5, <1>7, HeapStays DEF StepFrame, TrackerInv, OwnerInv
<1>9. QED
  BY <1>2, <1>4, <1>5, <1>6, <1>8, PlainStep

\* Exceptions become pending, or are taken, where activations are interrupted.
LEMMA PendingChanges ==
  ASSUME TrackerInv, pending' \subseteq Threads,
         \A u \in Threads : u \in pending' /\ stack[u] # <<>> => Top(u).at \in Interrupted,
         UNCHANGED <<walkerVars, OwnerVars, enterCount, inDll>>
  PROVE  TrackerInv'
<1>1. UNCHANGED <<stack, loader, isLocked, ldr, heap, libs, sw, main, me, dontFilter, filter,
                  vectored, enterCount, inDll>>
  BY DEF walkerVars, OwnerVars
<1>2. \A u \in Threads : ThreadInv(u)'
  BY <1>1 DEF TrackerInv, ThreadInv, InDll, Top
<1>3. LockInv' /\ LibraryInv' /\ OwnerInv'
  BY <1>1 DEF TrackerInv, LockInv, LibraryInv, OwnerInv
<1>4. HeapInv'
  BY <1>1 DEF TrackerInv, HeapInv, Local
<1>5. QED
  BY <1>1, <1>2, <1>3, <1>4 DEF TrackerInv

LEMMA StateUnchanged ==
  ASSUME TrackerInv, UNCHANGED <<walkerVars, OwnerVars, enterCount, inDll, pending>>
  PROVE  TrackerInv'
BY PendingChanges DEF TrackerInv, OwnerInv, ThreadInv

LEMMA RaiseKeeps ==
  ASSUME TrackerInv, NEW t \in Threads, Raise(t) PROVE TrackerInv'
<1>1. stack[t] # <<>> => Top(t).at \in Interrupted
  BY DEF Raise, CallsOut, Interrupted
<1>2. /\ t \notin pending
      /\ UNCHANGED <<loader, isLocked, ldr, heap, libs, sw, OwnerVars, enterCount, inDll>>
  BY DEF Raise, OwnerVars
<1>3. CASE vectored
  <2>1. PICK cpp \in BOOLEAN :
          stack' = [stack EXCEPT ![t] = Append(stack[t], Activation("vectored", "start", cpp))]
    BY <1>3 DEF Raise
  <2>2. pending' = pending /\ main # "off"
    BY <1>3, NotOff DEF Raise
  <2>3. "vectored" \in Handler
    BY DEF Handler
  <2>4. QED
    BY <1>1, <1>2, <2>1, <2>2, <2>3, HandlerStarts
<1>4. CASE ~vectored
  <2>1. pending' = pending \cup {t} /\ stack' = stack
    BY <1>4 DEF Raise
  <2>2. QED
    BY <1>1, <1>2, <2>1, PendingChanges DEF walkerVars, TrackerInv, OwnerInv, ThreadInv
<1>5. QED
  BY <1>3, <1>4

LEMMA HandledKeeps ==
  ASSUME TrackerInv, NEW t \in Threads, Handled(t) PROVE TrackerInv'
BY PendingChanges DEF Handled, OwnerVars, TrackerInv, OwnerInv, ThreadInv

LEMMA NotHandledKeeps ==
  ASSUME TrackerInv, NEW t \in Threads, NotHandled(t) PROVE TrackerInv'
<1>1. /\ UNCHANGED <<loader, isLocked, ldr, heap, libs, sw, OwnerVars, enterCount, inDll>>
      /\ stack[t] = <<>>
  BY DEF NotHandled, OwnerVars
<1>2. CASE filter = "tracker"
  <2>1. /\ stack' = [stack EXCEPT ![t] = <<Activation("unhandled", "start", FALSE)>>]
        /\ pending' = pending \ {t}
    BY <1>2 DEF NotHandled
  <2>2. Append(stack[t], Activation("unhandled", "start", FALSE))
          = <<Activation("unhandled", "start", FALSE)>>
    BY <1>1
  <2>3. main # "off" /\ "unhandled" \in Handler /\ FALSE \in BOOLEAN
    BY <1>2, NotOff DEF Handler
  <2>4. QED
    BY <1>1, <2>1, <2>2, <2>3, HandlerStarts
<1>3. CASE filter # "tracker"
  <2>1. UNCHANGED <<stack, pending>>
    BY <1>3 DEF NotHandled
  <2>2. QED
    BY <1>1, <2>1, StateUnchanged DEF walkerVars
<1>4. QED
  BY <1>2, <1>3

LEMMA EnterDllMainKeeps ==
  ASSUME TrackerInv, NEW t \in Threads, EnterDllMain(t) PROVE TrackerInv'
<1> USE WalkerAssumption
<1>1. /\ UNCHANGED <<stack, isLocked, ldr, heap, libs, sw, OwnerVars, enterCount, pending>>
      /\ stack[t] = <<>> /\ t \notin inDll /\ loader.owner = NoThread /\ ldr
      /\ loader' = [owner |-> t, count |-> 1] /\ inDll' = inDll \cup {t}
  BY DEF EnterDllMain, OwnerVars
<1>2. Shape(stack[t]) /\ stack \in Stacks /\ enterCount = 0
  BY <1>1 DEF TrackerInv, ThreadInv, Stacks, LockInv
<1>3. ThreadInv(t)'
  BY <1>1, <1>2 DEF ThreadInv, InDll, Locks, Handlers
<1>4. LockInv'
  BY <1>1 DEF TrackerInv, LockInv
<1>5. StepOf(t)
  BY <1>1, <1>2 DEF StepOf
<1>6. StepFrame(t)
  <2>1. LocalOf(t)' = LocalOf(t)
    BY <1>1 DEF LocalOf
  <2>2. QED
    BY <1>1, <1>2, <2>1, HeapStays DEF StepFrame, TrackerInv, OwnerInv
<1>7. QED
  BY <1>3, <1>4, <1>5, <1>6, StepOwner, StepKeeps DEF StepFrame, OwnerVars

LEMMA LeaveDllMainKeeps ==
  ASSUME TrackerInv, NEW t \in Threads, LeaveDllMain(t) PROVE TrackerInv'
<1> USE WalkerAssumption
<1>1. /\ UNCHANGED <<stack, isLocked, ldr, heap, libs, sw, OwnerVars, enterCount, pending>>
      /\ stack[t] = <<>> /\ t \in inDll
      /\ loader' = [owner |-> IF loader.count = 1 THEN NoThread ELSE loader.owner,
                    count |-> loader.count - 1]
      /\ inDll' = inDll \ {t}
  BY DEF LeaveDllMain, OwnerVars, Released
<1>2. Shape(stack[t]) /\ stack \in Stacks
  BY <1>1 DEF TrackerInv, ThreadInv, Stacks, LockInv
<1>3. ldr /\ loader.owner = t /\ loader.count = 1 /\ enterCount = 0
  <2>1. ldr
    BY <1>1 DEF TrackerInv, LockInv
  <2>2. Locks(stack[t]) + InDll(t) = 1 /\ Handlers(stack[t]) = 0
    BY <1>1 DEF Locks, InDll, Handlers
  <2>3. QED
    BY <2>1, <2>2 DEF TrackerInv, ThreadInv
<1>4. loader' = [owner |-> NoThread, count |-> 0]
  BY <1>1, <1>3
<1>5. ThreadInv(t)'
  BY <1>1, <1>2, <1>3, <1>4 DEF ThreadInv, InDll, Locks, Handlers
<1>6. LockInv'
  BY <1>1, <1>3, <1>4 DEF TrackerInv, LockInv
<1>7. StepOf(t)
  BY <1>1, <1>2, <1>3, <1>4 DEF StepOf
<1>8. StepFrame(t)
  <2>1. LocalOf(t)' = LocalOf(t)
    BY <1>1 DEF LocalOf
  <2>2. QED
    BY <1>1, <1>2, <2>1, HeapStays DEF StepFrame, TrackerInv, OwnerInv
<1>9. QED
  BY <1>5, <1>6, <1>7, <1>8, StepOwner, StepKeeps DEF StepFrame, OwnerVars

LEMMA TopFacts ==
  ASSUME NEW s, Shape(s), s # <<>>
  PROVE  /\ s[Len(s)] \in Frame
         /\ s[Len(s)].op = "show" =>
              /\ Len(s) = 2 /\ WalkerFrame(s[Len(s)])
              /\ s[1] \in Frame /\ s[1].at = "end" /\ s[1].op # "show"
              /\ s[1].mine = 0 /\ s[1].strings = 0
         /\ s[Len(s)].op # "show" => /\ s[Len(s)].at \in PlacesOf(Rank(s, Len(s)))
                                     /\ s[Len(s)].mine = 0 /\ s[Len(s)].strings = 0
<1>1. Len(s) \in 1 .. 4 /\ DOMAIN s = 1 .. Len(s) /\ s \in Seq(Frame)
  BY ShapeLength
<1>2. Len(s) \in DOMAIN s /\ 1 \in DOMAIN s
  BY <1>1
<1>3. s[Len(s)] \in Frame /\ s[1] \in Frame
  BY <1>1, <1>2
<1>4. s[1].op # "show" /\ s[1].mine = 0 /\ s[1].strings = 0
  BY <1>2 DEF Shape
<1>5. QED
  BY <1>2, <1>3, <1>4 DEF Shape

\* Only the first handler writes a record; it calls ShowCallstack.
LEMMA LogRecordKeeps ==
  ASSUME TrackerInv, NEW t \in Threads, LogRecord(t) PROVE TrackerInv'
<1> DEFINE s == stack[t]
           e == [Top(t) EXCEPT !.at = "end"]
           g == Activation("show", "lock", FALSE)
           r == Append(Below(t), e) \o <<g>>
<1>1. /\ s # <<>> /\ Top(t).op \in Handler /\ Top(t).op # "show" /\ Top(t).at = "record"
      /\ t \notin pending
      /\ stack' = [stack EXCEPT ![t] = Append(Below(t), e) \o <<g>>]
      /\ UNCHANGED <<loader, isLocked, ldr, heap, libs, sw, OwnerVars, enterCount, inDll, pending>>
  BY DEF LogRecord, At, Handler, Running, trackerVars, OwnerVars
<1>2. stack \in Stacks /\ Shape(s) /\ Len(s) \in 1 .. 4 /\ s \in Seq(Frame) /\ DOMAIN s = 1 .. Len(s)
  BY <1>1, ShapeLength DEF TrackerInv, ThreadInv, Stacks
<1>3. Len(s) = 1
  <2>1. Top(t).at \in PlacesOf(Rank(s, Len(s))) /\ Rank(s, Len(s)) \in 1 .. 3
    BY <1>1, <1>2, TopRank, TopFacts DEF Top
  <2>2. Rank(s, Len(s)) = 1
    BY <1>1, <2>1 DEF PlacesOf
  <2>3. QED
    BY <1>1, <1>2, <2>2 DEF Rank, Top
<1>4. /\ Top(t) \in Frame /\ Top(t) = s[1] /\ Top(t).mine = 0 /\ Top(t).strings = 0
  BY <1>1, <1>2, <1>3 DEF Top, Shape
<1>5. e \in Frame /\ e.op = Top(t).op /\ e.at = "end" /\ e.mine = 0 /\ e.strings = 0
  BY <1>4, MovedActivation DEF Places, HandlerPlaces
<1>6. /\ g \in Frame /\ g.op = "show" /\ g.at = "lock" /\ g.mine = 0 /\ g.strings = 0
      /\ g.last = 0 /\ ~g.shown /\ ~g.final
  BY NewActivation DEF Places, HandlerPlaces
<1> HIDE DEF e, g
<1>7. stack'[t] = r
  BY <1>1, <1>2 DEF Stacks
<1>8. r \in Seq(Frame) /\ Len(r) = 2 /\ r[1] = e /\ r[2] = g /\ DOMAIN r = {1, 2} /\ r # <<>>
  <2> DEFINE b == Append(Below(t), e)
             c == <<g>>
  <2>1. Below(t) = <<>> /\ Below(t) \in Seq(Frame)
    BY <1>2, <1>3 DEF Below
  <2>2. b \in Seq(Frame) /\ Len(b) = 1 /\ b[1] = e
    BY <1>5, <2>1
  <2>3. c \in Seq(Frame) /\ Len(c) = 1 /\ c[1] = g
    BY <1>6
  <2> HIDE DEF b, c
  <2>4. b \o c \in Seq(Frame) /\ Len(b \o c) = 2 /\ (b \o c)[1] = e /\ (b \o c)[2] = g
    <3>1. /\ b \o c \in Seq(Frame) /\ Len(b \o c) = 1 + 1
          /\ \A i \in 1 .. 1 + 1 : (b \o c)[i] = IF i <= 1 THEN b[i] ELSE c[i - 1]
      BY <2>2, <2>3, ConcatProperties
    <3>2. QED
      BY <2>2, <2>3, <3>1
  <2>5. DOMAIN (b \o c) = {1, 2} /\ (b \o c) # <<>>
    <3>1. DOMAIN (b \o c) = 1 .. 2
      BY <2>4
    <3>2. QED
      BY <2>4, <3>1
  <2>6. QED
    BY <2>4, <2>5 DEF b, c
<1> HIDE DEF r
<1>9. stack' \in Stacks /\ (\A u \in Threads \ {t} : stack'[u] = stack[u])
  <2>1. stack' = [stack EXCEPT ![t] = r]
    BY <1>1, <1>2, <1>7 DEF Stacks
  <2>2. QED
    BY <1>2, <1>8, <2>1 DEF Stacks
<1>10. Shape(r)
  <2>1. WalkerFrame(g)
    BY <1>6 DEF WalkerFrame, WalkerPlaces
  <2>2. e.at \in PlacesOf(Rank(r, 1)) /\ e.at \in Interrupted /\ e.op # "show"
    BY <1>1, <1>5, <1>8 DEF Rank, PlacesOf, HandlerPlaces, Interrupted
  <2>3. QED
    BY <1>5, <1>6, <1>8, <2>1, <2>2 DEF Shape
<1>11. Locks(r) = 1 /\ Locks(s) = 1
  BY <1>1, <1>3, <1>4, <1>6, <1>8 DEF Locks, HoldsLocker
<1>12. Handlers(r) = 1 /\ Handlers(s) = 1
  BY <1>1, <1>3, <1>4, <1>6, <1>8 DEF Handlers, Counted, Rank
<1>13. Top(t)' = g /\ LocalOf(t)' = 0 /\ LocalOf(t) = 0
  BY <1>3, <1>6, <1>7, <1>8 DEF Top, LocalOf
<1>14. StepFrame(t)
  BY <1>1, <1>7, <1>9, <1>10, <1>13, HeapStays, NotOff DEF StepFrame, TrackerInv, OwnerInv
<1>15. QED
  BY <1>1, <1>6, <1>7, <1>11, <1>12, <1>13, <1>14, PlainStep

\* The catch(...) of trackerHandler: the handler whose tracing was interrupted goes
\* on to its end, and the blocks of ShowCallstack are lost.
LEMMA UnwindKeeps ==
  ASSUME TrackerInv, NEW t \in Threads, Unwind(t) PROVE TrackerInv'
<1> DEFINE s == stack[t]
<1>1. /\ s # <<>> /\ t \in pending /\ pending' = pending \ {t}
      /\ UNCHANGED <<ldr, libs, sw, OwnerVars, enterCount, inDll>>
      /\ heap' = [heap EXCEPT !.lost = @ + Top(t).mine]
  BY DEF Unwind, OwnerVars
<1>2. stack \in Stacks /\ Shape(s) /\ Len(s) \in 1 .. 4 /\ s \in Seq(Frame) /\ DOMAIN s = 1 .. Len(s)
  BY <1>1, ShapeLength DEF TrackerInv, ThreadInv, Stacks
<1>3. Top(t).at \in Interrupted /\ Top(t) \in Frame /\ Top(t) = s[Len(s)]
  BY <1>1, <1>2 DEF TrackerInv, ThreadInv, Top
<1>4. heap.lost \in Nat /\ heap.live \in Nat /\ heap.ok \in BOOLEAN
      /\ heap \in [ok : BOOLEAN, live : Nat, lost : Nat]
  BY DEF TrackerInv, HeapInv
<1>5. CASE Top(t).op = "show"
  <2> DEFINE g == [s[1] EXCEPT !.at = "uncount"]
             r == Append(SubSeq(s, 1, 0), g)
  <2>1. Len(s) = 2 /\ s[1].at = "end" /\ s[1].op # "show" /\ s[1] \in Frame /\ s[1].mine = 0
        /\ s[1].strings = 0
    BY <1>1, <1>2, <1>3, <1>5, TopFacts
  <2>2. g \in Frame /\ g.op = s[1].op /\ g.at = "uncount" /\ g.mine = 0 /\ g.strings = 0
    BY <2>1, MovedActivation DEF Places, HandlerPlaces
  <2>3. unlock /\ stack' = [stack EXCEPT ![t] = Append(SubSeq(s, 1, 0), g)]
    BY <1>5, <2>1 DEF Unwind
  <2> HIDE DEF g
  <2>4. SubSeq(s, 1, 0) = <<>> /\ SubSeq(s, 1, 0) \in Seq(Frame)
    BY <1>2
  <2>5. r \in Seq(Frame) /\ Len(r) = 1 /\ r[1] = g /\ DOMAIN r = {1} /\ r # <<>>
    <3>1. r \in Seq(Frame) /\ Len(r) = 1 /\ r[1] = g
      BY <2>2, <2>4
    <3> HIDE DEF r
    <3>2. DOMAIN r = 1 .. 1
      BY <3>1
    <3>3. QED
      BY <3>1, <3>2
  <2> HIDE DEF r
  <2>6. /\ stack'[t] = r /\ stack' \in Stacks
        /\ \A u \in Threads \ {t} : stack'[u] = stack[u]
    BY <1>2, <2>3, <2>5 DEF Stacks, r
  <2>7. Shape(r)
    <3>1. Rank(r, 1) = 1
      BY DEF Rank
    <3>2. QED
      BY <2>1, <2>2, <2>5, <3>1, CommonPlaces DEF Shape
  <2>8. Locks(r) = 1 /\ Locks(s) = 2
    BY <1>1, <1>3, <2>1, <2>2, <2>5 DEF Locks, HoldsLocker, Interrupted, WalkerCallsOut
  <2>9. Handlers(r) = 1 /\ Handlers(s) = 1
    <3>1. g.op \in Handler
      BY <2>1, <2>2 DEF Handler, Frame
    <3>2. QED
      BY <1>1, <1>3, <1>5, <2>1, <2>2, <2>5, <3>1 DEF Handlers, Counted, Rank
  <2>10. Top(t)' = g /\ LocalOf(t)' = 0 /\ LocalOf(t) = Top(t).mine /\ Top(t).mine \in Nat
    <3>1. Top(t)' = g
      BY <2>5, <2>6 DEF Top
    <3>5. LocalOf(t)' = 0
      <4>0. Len(stack'[t]) = 1
        BY <2>5, <2>6
      <4>1. ~(Len(stack'[t]) >= 2)
        BY <4>0
      <4>2. QED
        BY <4>1 DEF LocalOf
    <3>2. LocalOf(t) = Top(t).mine
      BY <1>3, <2>1 DEF LocalOf
    <3>3. Top(t).mine \in Nat
      BY <1>3 DEF Frame
    <3>4. QED
      BY <3>1, <3>2, <3>3, <3>5
  <2>11. /\ heap' \in [ok : BOOLEAN, live : Int, lost : Nat]
         /\ heap'.live - heap'.lost - LocalOf(t)' = heap.live - heap.lost - LocalOf(t)
    BY <1>1, <1>4, <2>10
  <2>12. StepFrame(t)
    BY <1>1, <2>6, <2>7, <2>11, NotOff DEF StepFrame, TrackerInv, OwnerInv
  <2>13. QED
    <3>1. /\ Locks(stack[t]) = Locks(stack'[t]) + 1 /\ Handlers(stack'[t]) = Handlers(stack[t])
          /\ stack'[t] # <<>> => Top(t)'.at # "test"
          /\ Locks(stack'[t]) = 0 => Handlers(stack'[t]) = 0
      BY <2>2, <2>6, <2>8, <2>9, <2>10
    <3>2. QED
      BY <1>1, <2>3, <2>12, <3>1, UnlockStep
<1>6. CASE Top(t).op # "show"
  <2> DEFINE g == [s[Len(s)] EXCEPT !.at = "uncount"]
  <2>1. Top(t).mine = 0 /\ Top(t).at \in {"record", "error", "end"} /\ Top(t).op \in Handler
    <3>1. Top(t).mine = 0 /\ Top(t).at \in PlacesOf(Rank(s, Len(s)))
      BY <1>1, <1>2, <1>3, <1>6, TopFacts
    <3>2. Top(t).at \in HandlerPlaces
      BY <3>1 DEF PlacesOf
    <3>3. QED
      BY <1>3, <1>6, <3>1, <3>2 DEF HandlerPlaces, Interrupted, WalkerCallsOut, Handler, Frame
  <2>2. heap' = heap
    BY <1>1, <1>4, <2>1
  <2>3. UNCHANGED <<loader, isLocked>>
        /\ stack' = [stack EXCEPT ![t] = Append(SubSeq(s, 1, Len(s) - 1), g)]
    BY <1>6 DEF Unwind
  <2>4. g \in Frame
    BY <1>3, MovedActivation DEF Places, HandlerPlaces
  <2>5. Append(SubSeq(s, 1, Len(s) - 1), g) = [s EXCEPT ![Len(s)] = g]
    <3> HIDE DEF s, g
    <3> DEFINE a == Append(SubSeq(s, 1, Len(s) - 1), g)
               b == [s EXCEPT ![Len(s)] = g]
    <3>1. a \in Seq(Frame) /\ Len(a) = Len(s) /\ \A i \in 1 .. Len(s) : a[i] = b[i]
      <4> DEFINE q == SubSeq(s, 1, Len(s) - 1)
      <4>1. q \in Seq(Frame) /\ Len(q) = Len(s) - 1 /\ \A i \in 1 .. Len(s) - 1 : q[i] = s[i]
        BY <1>2
      <4> HIDE DEF q
      <4>2. /\ Append(q, g) \in Seq(Frame) /\ Len(Append(q, g)) = Len(s)
            /\ \A i \in 1 .. Len(s) - 1 : Append(q, g)[i] = s[i]
            /\ Append(q, g)[Len(s)] = g
        <5>1. /\ Append(q, g) \in Seq(Frame) /\ Len(Append(q, g)) = Len(q) + 1
              /\ \A i \in 1 .. Len(q) : Append(q, g)[i] = q[i]
              /\ Append(q, g)[Len(q) + 1] = g
          BY <2>4, <4>1, AppendProperties
        <5>2. Len(q) + 1 = Len(s)
          BY <1>2, <4>1
        <5>3. QED
          BY <4>1, <5>1, <5>2
      <4>3. b[Len(s)] = g /\ \A i \in 1 .. Len(s) - 1 : b[i] = s[i]
        BY <1>2
      <4> HIDE DEF b
      <4>4. \A i \in 1 .. Len(s) : i \in 1 .. Len(s) - 1 \/ i = Len(s)
        <5>1. ASSUME NEW n \in 1 .. 4, NEW i \in 1 .. n PROVE i \in 1 .. n - 1 \/ i = n
          BY <5>1
        <5>2. QED
          BY <1>2, <5>1
      <4>5. \A i \in 1 .. Len(s) : Append(q, g)[i] = b[i]
        BY <4>2, <4>3, <4>4
      <4>6. QED
        BY <4>2, <4>5 DEF q
    <3>2. b \in Seq(Frame) /\ Len(b) = Len(s)
      BY <1>2, <2>4
    <3> HIDE DEF a, b
    <3>3. a = b
      BY <3>1, <3>2, SeqEqual
    <3>4. QED
      BY <3>3 DEF a, b
  <2>6. Goto(t, "uncount")
    BY <2>3, <2>5 DEF Goto, Become, Top
  <2>7. At(t, Handler, Top(t).at)
    BY <1>1, <2>1 DEF At
  <2>8. QED
    BY <1>1, <2>1, <2>2, <2>3, <2>6, <2>7, HandlerPlain
<1>7. QED
  BY <1>5, <1>6

-----------------------------------------------------------------------------
(* ShowCallstack *)

\* A stage of ShowCallstack under the lock: the heap changes by what the activation
\* takes and gives back.
LEMMA WalkerPlain ==
  ASSUME TrackerInv, NEW t \in Threads, stack[t] # <<>>, Top(t).op = "show", Top(t).at # "lock",
         NEW f \in Frame, f.op = "show", WalkerFrame(f), f.at \notin {"lock", "test"}, Become(t, f),
         heap' = [heap EXCEPT !.live = @ + (f.mine - Top(t).mine)],
         t \notin pending, UNCHANGED <<loader, isLocked, ldr, libs, sw, trackerVars>>
  PROVE  TrackerInv'
<1> DEFINE s == stack[t]
           r == stack'[t]
<1>1. stack \in Stacks /\ Shape(s) /\ Len(s) \in 1 .. 4 /\ s \in Seq(Frame)
  BY ShapeLength DEF TrackerInv, ThreadInv, Stacks
<1>2. /\ stack' \in Stacks /\ \A u \in Threads \ {t} : stack'[u] = stack[u]
      /\ Replaced(s, r) /\ r[Len(s)] = f
  BY <1>1, BecomeReplaces
<1>3. Top(t) = s[Len(s)] /\ Len(s) = 2 /\ Top(t) \in Frame /\ WalkerFrame(Top(t))
  BY <1>1, TopFacts DEF Top
<1>4. Shape(r) /\ Rank(r, Len(r)) = Rank(s, Len(s))
  <2> HIDE DEF s, r
  <2>1. QED
    BY <1>1, <1>2, <1>3, WalkerMoves
<1>5. Len(r) = 2 /\ r # <<>> /\ Top(t)' = f
  <2>1. Len(r) = 2
    BY <1>2, <1>3 DEF Replaced
  <2>2. QED
    BY <1>2, <1>3, <1>4, <2>1, ShapeLength DEF Top
<1>6. Locks(r) = 2 /\ Locks(s) = 2
  <2>1. HoldsLocker(f) /\ HoldsLocker(Top(t))
    BY <1>3 DEF HoldsLocker, WalkerFrame, WalkerPlaces
  <2>2. QED
    BY <1>2, <1>3, <1>5, <2>1 DEF Locks
<1>7. Handlers(r) = Handlers(s)
  BY <1>2, <1>3, <1>4, <1>5 DEF Handlers
<1>8. LocalOf(t)' = f.mine /\ LocalOf(t) = Top(t).mine /\ f.mine \in Nat /\ Top(t).mine \in Nat
  <2>1. LocalOf(t)' = f.mine /\ LocalOf(t) = Top(t).mine
    BY <1>2, <1>3, <1>5 DEF LocalOf
  <2>2. QED
    BY <1>3, <2>1 DEF Frame
<1>9. /\ heap' \in [ok : BOOLEAN, live : Int, lost : Nat]
      /\ heap'.live - heap'.lost - LocalOf(t)' = heap.live - heap.lost - LocalOf(t)
  <2>1. heap \in [ok : BOOLEAN, live : Nat, lost : Nat]
    BY DEF TrackerInv, HeapInv
  <2>2. /\ heap' = [ok |-> heap.ok, live |-> heap.live + (f.mine - Top(t).mine), lost |-> heap.lost]
        /\ heap.ok \in BOOLEAN /\ heap.live \in Nat /\ heap.lost \in Nat
    BY <2>1
  <2>3. /\ heap'.ok = heap.ok /\ heap'.live = heap.live + (f.mine - Top(t).mine)
        /\ heap'.lost = heap.lost
    BY <2>2
  <2>4. heap.live + (f.mine - Top(t).mine) \in Int
    BY <1>8, <2>2
  <2>5. heap' \in [ok : BOOLEAN, live : Int, lost : Nat]
    BY <2>2, <2>4
  <2>6. heap'.live - heap'.lost - f.mine = heap.live - heap.lost - Top(t).mine
    <3> DEFINE m == f.mine
               n == Top(t).mine
               a == heap.live
               b == heap.lost
               c == heap'.live
               d == heap'.lost
    <3>1. m \in Nat /\ n \in Nat /\ a \in Nat /\ b \in Nat /\ c = a + (m - n) /\ d = b
      BY <1>8, <2>2, <2>3
    <3> HIDE DEF m, n, a, b, c, d
    <3>2. c - d - m = a - b - n
      BY <3>1
    <3>3. QED
      BY <3>2 DEF m, n, a, b, c, d
  <2>7. QED
    BY <1>8, <2>5, <2>6
<1>10. UNCHANGED <<OwnerVars, enterCount, inDll, pending>>
  BY DEF trackerVars, OwnerVars
<1>11. StepFrame(t)
  BY <1>2, <1>4, <1>9, <1>10, NotOff DEF StepFrame, TrackerInv, OwnerInv
<1>12. QED
  BY <1>5, <1>6, <1>7, <1>10, <1>11, PlainStep

LEMMA ShowLockKeeps ==
  ASSUME TrackerInv, NEW t \in Threads, ShowLock(t), t \notin pending, UNCHANGED trackerVars
  PROVE  TrackerInv'
<1> DEFINE s == stack[t]
           r == stack'[t]
           f == [Top(t) EXCEPT !.at = "test"]
<1>1. /\ s # <<>> /\ Top(t).op = "show" /\ Top(t).at = "lock" /\ lock(t) /\ Become(t, f)
      /\ UNCHANGED <<ldr, heap, libs, sw, OwnerVars, enterCount, inDll, pending>>
  BY DEF ShowLock, At, Goto, trackerVars, OwnerVars
<1>2. stack \in Stacks /\ Shape(s) /\ Len(s) \in 1 .. 4 /\ s \in Seq(Frame)
  BY <1>1, ShapeLength DEF TrackerInv, ThreadInv, Stacks
<1>3. Top(t) = s[Len(s)] /\ Len(s) = 2 /\ Top(t) \in Frame /\ WalkerFrame(Top(t))
  BY <1>1, <1>2, TopFacts DEF Top
<1>4. /\ f \in Frame /\ f.op = "show" /\ f.at = "test" /\ f.mine = Top(t).mine
      /\ f.strings = Top(t).strings /\ f.shown = Top(t).shown /\ f.final = Top(t).final
      /\ f.last = Top(t).last
  BY <1>1, <1>3, MovedActivation DEF Places, HandlerPlaces
<1> HIDE DEF f
<1>5. WalkerFrame(f)
  BY <1>1, <1>3, <1>4 DEF WalkerFrame, WalkerPlaces
<1>6. /\ stack' \in Stacks /\ \A u \in Threads \ {t} : stack'[u] = stack[u]
      /\ Replaced(s, r) /\ r[Len(s)] = f
  BY <1>1, <1>2, <1>4, BecomeReplaces
<1>7. Shape(r) /\ Rank(r, Len(r)) = Rank(s, Len(s))
  <2>1. /\ s[Len(s)].op = "show" /\ r[Len(s)].op = "show" /\ WalkerFrame(r[Len(s)])
        /\ Replaced(s, r) /\ Shape(s)
    BY <1>1, <1>2, <1>3, <1>4, <1>5, <1>6
  <2> HIDE DEF s, r
  <2>2. QED
    BY <2>1, WalkerMoves
<1>8. Len(r) = 2 /\ r # <<>> /\ Top(t)' = f
  <2>1. Len(r) = 2
    BY <1>3, <1>6 DEF Replaced
  <2>2. QED
    BY <1>3, <1>6, <1>7, <2>1, ShapeLength DEF Top
<1>9. Locks(r) = 2 /\ Locks(s) = 1
  BY <1>1, <1>3, <1>4, <1>6, <1>8 DEF Locks, HoldsLocker
<1>10. Handlers(r) = Handlers(s)
  BY <1>1, <1>3, <1>4, <1>6, <1>7, <1>8 DEF Handlers
<1>11. LocalOf(t)' = LocalOf(t)
  BY <1>3, <1>4, <1>6, <1>8 DEF LocalOf
<1>12. StepFrame(t)
  BY <1>1, <1>6, <1>7, <1>11, HeapStays, NotOff DEF StepFrame, TrackerInv, OwnerInv
<1>13. Locks(r) = Locks(s) + 1
  BY <1>9
<1>14. QED
  BY <1>1, <1>10, <1>12, <1>13, LockStep

\* A stage of ShowCallstack between the test of the lock and its release.
Stage(t) ==
  \E f \in Frame : /\ f.op = "show" /\ WalkerFrame(f) /\ f.at \notin {"lock", "test"}
                  /\ Become(t, f)
                  /\ heap' = [heap EXCEPT !.live = @ + (f.mine - Top(t).mine)]

LEMMA ShowTop ==
  ASSUME TrackerInv, NEW t \in Threads, NEW p, At(t, {"show"}, p)
  PROVE  /\ stack[t] # <<>> /\ Top(t) \in Frame /\ WalkerFrame(Top(t))
         /\ Top(t).op = "show" /\ Top(t).at = p
<1>1. stack[t] # <<>> /\ Top(t).op = "show" /\ Top(t).at = p /\ Shape(stack[t])
  BY DEF At, TrackerInv, ThreadInv
<1>2. QED
  BY <1>1, TopFacts DEF Top

\* A stage that neither takes nor frees a block.
LEMMA QuietStage ==
  ASSUME TrackerInv, NEW t \in Threads, NEW f \in Frame, Top(t) \in Frame,
         f.op = "show", WalkerFrame(f), f.at \notin {"lock", "test"}, Become(t, f),
         f.mine = Top(t).mine, heap' = heap
  PROVE  Stage(t)
<1>1. f.mine - Top(t).mine = 0
  BY DEF Frame
<1>2. heap \in [ok : BOOLEAN, live : Nat, lost : Nat]
  BY DEF TrackerInv, HeapInv
<1>3. heap = [heap EXCEPT !.live = @ + 0]
  BY <1>2
<1>4. QED
  BY <1>1, <1>3 DEF Stage

\* A stage that goes to another place, its locals as they were.
LEMMA MovingStage ==
  ASSUME TrackerInv, NEW t \in Threads, NEW p, NEW a \in WalkerPlaces \ {"lock", "test"},
         At(t, {"show"}, p), Goto(t, a), heap' = heap,
         ASSUME NEW f, WalkerFrame(Top(t)), f.at = a, f.op = "show", f.mine = Top(t).mine,
                f.strings = Top(t).strings, f.shown = Top(t).shown,
                f.final = Top(t).final, f.last = Top(t).last
         PROVE  WalkerFrame(f)
  PROVE  Stage(t)
<1> DEFINE f == [Top(t) EXCEPT !.at = a]
<1>1. Top(t) \in Frame /\ WalkerFrame(Top(t)) /\ Top(t).op = "show" /\ Become(t, f)
  BY ShowTop DEF Goto
<1>2. /\ f \in Frame /\ f.op = "show" /\ f.at = a /\ f.mine = Top(t).mine
      /\ f.strings = Top(t).strings /\ f.shown = Top(t).shown
      /\ f.final = Top(t).final /\ f.last = Top(t).last
  BY <1>1, MovedActivation DEF Places
<1> HIDE DEF f
<1>3. WalkerFrame(f)
  BY <1>1, <1>2
<1>4. QED
  BY <1>1, <1>2, <1>3, QuietStage


LEMMA ShowTestStage ==
  ASSUME TrackerInv, NEW t \in Threads, ShowTest(t) PROVE Stage(t)
<1> DEFINE a == IF sw.initialized /\ isLocked THEN "th32" ELSE "unlock"
<1>1. At(t, {"show"}, "test") /\ Goto(t, a) /\ heap' = heap
  BY DEF ShowTest
<1>2. Top(t) \in Frame /\ Top(t).at = "test"
  BY <1>1, ShowTop
<1>3. a \in {"th32", "unlock"}
  OBVIOUS
<1> HIDE DEF a
<1>4. ASSUME NEW f, WalkerFrame(Top(t)), f.at = a, f.op = "show", f.mine = Top(t).mine,
             f.strings = Top(t).strings, f.shown = Top(t).shown,
             f.final = Top(t).final, f.last = Top(t).last
      PROVE  WalkerFrame(f)
  BY <1>2, <1>3, <1>4 DEF WalkerFrame, WalkerPlaces, Frame
<1>5. a \in WalkerPlaces \ {"lock", "test"}
  BY <1>3 DEF WalkerPlaces
<1>6. QED
  BY <1>1, <1>4, <1>5, MovingStage

LEMMA AfterLoadModulesStage ==
  ASSUME TrackerInv, NEW t \in Threads, AfterLoadModules(t) PROVE Stage(t)
<1> DEFINE a == IF "dbghelp" \in sw.held THEN "sym" ELSE "unlock"
<1>1. At(t, {"show"}, "after") /\ Goto(t, a) /\ heap' = heap
  BY DEF AfterLoadModules
<1>2. Top(t) \in Frame /\ Top(t).at = "after"
  BY <1>1, ShowTop
<1>3. a \in {"sym", "unlock"}
  OBVIOUS
<1> HIDE DEF a
<1>4. ASSUME NEW f, WalkerFrame(Top(t)), f.at = a, f.op = "show", f.mine = Top(t).mine,
             f.strings = Top(t).strings, f.shown = Top(t).shown,
             f.final = Top(t).final, f.last = Top(t).last
      PROVE  WalkerFrame(f)
  BY <1>2, <1>3, <1>4 DEF WalkerFrame, WalkerPlaces, Frame
<1>5. a \in WalkerPlaces \ {"lock", "test"}
  BY <1>3 DEF WalkerPlaces
<1>6. QED
  BY <1>1, <1>4, <1>5, MovingStage

LEMMA EnumEndsStage ==
  ASSUME TrackerInv, NEW t \in Threads, EnumEnds(t) PROVE Stage(t)
<1>1. /\ At(t, {"show"}, "psapiloop") /\ Goto(t, "psapifree") /\ heap' = heap
      /\ Top(t).strings = 0
  BY DEF EnumEnds
<1>2. Top(t) \in Frame /\ Top(t).at = "psapiloop"
  BY <1>1, ShowTop
<1>3. ASSUME NEW f, WalkerFrame(Top(t)), f.at = "psapifree", f.op = "show", f.mine = Top(t).mine,
             f.strings = Top(t).strings, f.shown = Top(t).shown,
             f.final = Top(t).final, f.last = Top(t).last
      PROVE  WalkerFrame(f)
  BY <1>1, <1>2, <1>3 DEF WalkerFrame, WalkerPlaces, Frame
<1>4. "psapifree" \in WalkerPlaces \ {"lock", "test"}
  BY DEF WalkerPlaces
<1>5. QED
  BY <1>1, <1>3, <1>4, MovingStage

LEMMA WalkStopsStage ==
  ASSUME TrackerInv, NEW t \in Threads, WalkStops(t) PROVE Stage(t)
<1>1. At(t, {"show"}, "walk") /\ Goto(t, "cleanup") /\ heap' = heap
  BY DEF WalkStops
<1>2. Top(t) \in Frame /\ Top(t).at = "walk"
  BY <1>1, ShowTop
<1>3. ASSUME NEW f, WalkerFrame(Top(t)), f.at = "cleanup", f.op = "show", f.mine = Top(t).mine,
             f.strings = Top(t).strings, f.shown = Top(t).shown,
             f.final = Top(t).final, f.last = Top(t).last
      PROVE  WalkerFrame(f)
  BY <1>1, <1>2, <1>3 DEF WalkerFrame, WalkerPlaces, Frame
<1>4. "cleanup" \in WalkerPlaces \ {"lock", "test"}
  BY DEF WalkerPlaces
<1>5. QED
  BY <1>1, <1>3, <1>4, MovingStage

LEMMA SnapshotStage ==
  ASSUME TrackerInv, NEW t \in Threads, Snapshot(t) PROVE Stage(t)
<1>1. At(t, {"show"}, "th32") /\ heap' = heap
  BY DEF Snapshot
<1>2. /\ Top(t) \in Frame /\ Top(t).at = "th32" /\ Top(t).op = "show"
      /\ WalkerFrame(Top(t))
  BY <1>1, ShowTop
<1>3. CASE Goto(t, "psapi")
  <2>1. ASSUME NEW f, WalkerFrame(Top(t)), f.at = "psapi", f.op = "show", f.mine = Top(t).mine,
               f.strings = Top(t).strings, f.shown = Top(t).shown,
               f.final = Top(t).final, f.last = Top(t).last
        PROVE  WalkerFrame(f)
    BY <1>2, <2>1 DEF WalkerFrame, WalkerPlaces, Frame
  <2>2. "psapi" \in WalkerPlaces \ {"lock", "test"}
    BY DEF WalkerPlaces
  <2>3. QED
    BY <1>1, <1>3, <2>1, <2>2, MovingStage
<1>4. ASSUME NEW n \in 0 .. MaxModules,
             Become(t, [Top(t) EXCEPT !.at = "th32loop", !.snap = TRUE,
                                      !.left = n, !.cnt = n > 0])
      PROVE  Stage(t)
  <2> DEFINE g == Top(t)
             f == [g EXCEPT !.at = "th32loop", !.snap = TRUE, !.left = n, !.cnt = n > 0]
  <2>1. g \in Frame /\ g.at = "th32" /\ g.op = "show" /\ WalkerFrame(g)
    BY <1>2
  <2>2. n \in 0 .. Max({StackDepth, MaxModules}) /\ (n > 0) \in BOOLEAN
    BY MaxOfBounds, WalkerAssumption
  <2> HIDE DEF g
  <2>3. /\ f \in Frame /\ f.op = "show" /\ f.at = "th32loop" /\ f.mine = g.mine
        /\ f.strings = g.strings /\ f.shown = g.shown /\ f.final = g.final /\ f.last = g.last
    BY <2>1, <2>2 DEF Frame
  <2> HIDE DEF f
  <2>4. WalkerFrame(f)
    BY <2>1, <2>3 DEF WalkerFrame, WalkerPlaces, Frame
  <2>5. Become(t, f)
    BY <1>4 DEF f, g
  <2>6. g = Top(t)
    BY DEF g
  <2>7. QED
    BY <1>1, <1>2, <2>3, <2>4, <2>5, <2>6, QuietStage
<1>5. QED
  BY <1>3, <1>4 DEF Snapshot

LEMMA SnapshotEndsStage ==
  ASSUME TrackerInv, NEW t \in Threads, SnapshotEnds(t) PROVE Stage(t)
<1> DEFINE g == Top(t)
           a == IF g.cnt THEN "after" ELSE "psapi"
           f == [g EXCEPT !.at = a, !.snap = FALSE]
<1>1. /\ At(t, {"show"}, "th32loop") /\ heap' = heap /\ g.strings = 0 /\ Become(t, f)
  BY DEF SnapshotEnds
<1>2. g = Top(t) /\ g \in Frame /\ g.at = "th32loop" /\ g.op = "show" /\ WalkerFrame(g)
  BY <1>1, ShowTop
<1>3. a \in {"after", "psapi"}
  OBVIOUS
<1> HIDE DEF g, a
<1>4. /\ f \in Frame /\ f.op = "show" /\ f.at = a /\ f.mine = g.mine
      /\ f.strings = g.strings /\ f.shown = g.shown /\ f.final = g.final /\ f.last = g.last
  BY <1>2, <1>3 DEF Frame
<1> HIDE DEF f
<1>5. WalkerFrame(f) /\ f.at \notin {"lock", "test"}
  BY <1>1, <1>2, <1>3, <1>4 DEF WalkerFrame, WalkerPlaces, Frame
<1>6. QED
  BY <1>1, <1>2, <1>4, <1>5, QuietStage


\* A stage that takes or frees blocks.
LEMMA HeapStage ==
  ASSUME NEW t \in Threads, NEW f \in Frame, f.op = "show", WalkerFrame(f),
         f.at \notin {"lock", "test"}, Become(t, f), NEW n, InUse(n), f.mine - Top(t).mine = n
  PROVE  Stage(t)
BY DEF Stage, InUse

LEMMA Allocated ==
  ASSUME NEW k \in Nat, NEW n \in Allocate(k) PROVE n \in 0 .. k
BY DEF Allocate

\* Activations with other blocks, places and announcements.
LEMMA LoadingActivation ==
  ASSUME NEW g \in Frame, NEW m \in 0 .. 6, NEW n \in 0 .. 3,
         NEW l \in 0 .. Max({StackDepth, MaxModules})
  PROVE  [g EXCEPT !.mine = m, !.strings = n, !.left = l] \in Frame
BY DEF Frame

LEMMA LoadedActivation ==
  ASSUME NEW g \in Frame, NEW m \in 0 .. 6, NEW n \in 0 .. 3
  PROVE  [g EXCEPT !.mine = m, !.strings = n] \in Frame
BY DEF Frame

LEMMA FreeingActivation ==
  ASSUME NEW g \in Frame, NEW at \in Places, NEW m \in 0 .. 6
  PROVE  [g EXCEPT !.at = at, !.mine = m] \in Frame
BY DEF Frame, Places, HandlerPlaces, WalkerPlaces

LEMMA EndingActivation ==
  ASSUME NEW g \in Frame, NEW at \in Places, NEW m \in 0 .. 6, NEW k \in 0 .. 2
  PROVE  [g EXCEPT !.at = at, !.mine = m, !.last = k] \in Frame
BY DEF Frame, Places, HandlerPlaces, WalkerPlaces

LEMMA ShowingActivation ==
  ASSUME NEW g \in Frame, NEW at \in Places, NEW m \in 0 .. 6, NEW k \in 0 .. 2
  PROVE  [g EXCEPT !.at = at, !.mine = m, !.shown = TRUE, !.last = k] \in Frame
BY DEF Frame, Places, HandlerPlaces, WalkerPlaces

LEMMA LoadModuleStage ==
  ASSUME TrackerInv, NEW t \in Threads, LoadModule(t) PROVE Stage(t)
<1>1. PICK at \in {"th32loop", "psapiloop"} : At(t, {"show"}, at)
  BY DEF LoadModule
<1>2. PICK n \in Allocate(3) :
        InUse(n) /\ Become(t, [Top(t) EXCEPT !.mine = @ + n, !.strings = n, !.left = @ - 1])
  BY DEF LoadModule
<1>3. n \in 0 .. 3
  BY Allocated
<1> DEFINE g == Top(t)
           m == g.mine + n
           l == g.left - 1
           f == [g EXCEPT !.mine = m, !.strings = n, !.left = l]
<1>4. /\ g = Top(t) /\ g \in Frame /\ g.at = at /\ g.op = "show" /\ WalkerFrame(g)
      /\ g.strings = 0 /\ g.left > 0 /\ Become(t, f)
  BY <1>1, <1>2, ShowTop DEF LoadModule
<1> HIDE DEF g
<1>5. g.mine \in 0 .. 3 /\ g.left - 1 \in 0 .. Max({StackDepth, MaxModules})
  <2>1. g.mine \in Nat /\ g.mine \in {0, 3}
    BY <1>4 DEF WalkerFrame, Frame
  <2>2. g.left \in 0 .. Max({StackDepth, MaxModules})
    BY <1>4 DEF Frame
  <2>3. QED
    BY <1>4, <2>1, <2>2, MaxOfBounds
<1>6. m \in 0 .. 6 /\ l \in 0 .. Max({StackDepth, MaxModules}) /\ m = g.mine + n
  BY <1>3, <1>5
<1> HIDE DEF m, l
<1>7. /\ f \in Frame /\ f.op = "show" /\ f.at = at /\ f.mine = m
      /\ f.strings = n /\ f.shown = g.shown /\ f.final = g.final /\ f.last = g.last
  <2>1. m \in 0 .. 6 /\ n \in 0 .. 3 /\ l \in 0 .. Max({StackDepth, MaxModules})
    BY <1>3, <1>4, <1>6 DEF Places, WalkerPlaces
  <2>2. f \in Frame
    BY <1>4, <2>1, LoadingActivation
  <2>3. QED
    BY <1>4, <2>2 DEF Frame
<1> HIDE DEF f
<1>8. WalkerFrame(f) /\ f.at \notin {"lock", "test"}
  BY <1>3, <1>4, <1>5, <1>6, <1>7 DEF WalkerFrame, WalkerPlaces
<1>9. f.mine - g.mine = n
  BY <1>3, <1>5, <1>6, <1>7
<1>10. QED
  BY <1>2, <1>4, <1>7, <1>8, <1>9, HeapStage

LEMMA ModuleLoadedStage ==
  ASSUME TrackerInv, NEW t \in Threads, ModuleLoaded(t) PROVE Stage(t)
<1>1. PICK at \in {"th32loop", "psapiloop"} : At(t, {"show"}, at)
  BY DEF ModuleLoaded
<1> DEFINE g == Top(t)
           m == g.mine - g.strings
           f == [g EXCEPT !.mine = m, !.strings = 0]
<1>2. /\ g = Top(t) /\ g \in Frame /\ g.at = at /\ g.op = "show" /\ WalkerFrame(g)
      /\ InUse(-g.strings) /\ Become(t, f)
  BY <1>1, ShowTop DEF ModuleLoaded
<1> HIDE DEF g
<1>3. /\ g.mine \in 0 .. 6 /\ g.strings \in 0 .. 3
      /\ at = "th32loop" => g.mine - g.strings = 0
      /\ at = "psapiloop" => g.mine - g.strings = 3
  <2>1. g.mine \in 0 .. 6 /\ g.strings \in 0 .. 3
    BY <1>2 DEF Frame
  <2>2. (at = "th32loop" => g.mine = g.strings) /\ (at = "psapiloop" => g.mine = 3 + g.strings)
    BY <1>2 DEF WalkerFrame
  <2>3. QED
    BY <2>1, <2>2
<1>4. m \in 0 .. 6 /\ m = g.mine - g.strings
  BY <1>3
<1> HIDE DEF m
<1>5. /\ f \in Frame /\ f.op = "show" /\ f.at = at /\ f.mine = m
      /\ f.strings = 0 /\ f.shown = g.shown /\ f.final = g.final /\ f.last = g.last
  <2>1. m \in 0 .. 6 /\ 0 \in 0 .. 3
    BY <1>2, <1>4 DEF Places, WalkerPlaces
  <2>2. f \in Frame
    BY <1>2, <2>1, LoadedActivation
  <2>3. QED
    BY <1>2, <2>2 DEF Frame
<1> HIDE DEF f
<1>6. WalkerFrame(f) /\ f.at \notin {"lock", "test"}
  BY <1>2, <1>3, <1>4, <1>5 DEF WalkerFrame, WalkerPlaces
<1>7. f.mine - g.mine = -g.strings
  BY <1>3, <1>4, <1>5
<1>8. QED
  BY <1>2, <1>5, <1>6, <1>7, HeapStage

LEMMA EnumModulesStage ==
  ASSUME TrackerInv, NEW t \in Threads, EnumModules(t) PROVE Stage(t)
<1> DEFINE g == Top(t)
<1>1. At(t, {"show"}, "psapi")
  BY DEF EnumModules
<1>2. g = Top(t) /\ g \in Frame /\ g.at = "psapi" /\ g.op = "show" /\ WalkerFrame(g)
  BY <1>1, ShowTop
<1>3. CASE Goto(t, "after") /\ heap' = heap
  <2>1. ASSUME NEW f, WalkerFrame(Top(t)), f.at = "after", f.op = "show", f.mine = Top(t).mine,
               f.strings = Top(t).strings, f.shown = Top(t).shown,
               f.final = Top(t).final, f.last = Top(t).last
        PROVE  WalkerFrame(f)
    BY <1>2, <2>1 DEF WalkerFrame, WalkerPlaces, Frame
  <2>2. "after" \in WalkerPlaces \ {"lock", "test"}
    BY DEF WalkerPlaces
  <2>3. QED
    BY <1>1, <1>3, <2>1, <2>2, MovingStage
<1>4. g.mine = 0 /\ g.strings = 0
  BY <1>2 DEF WalkerFrame
<1>5. ASSUME NEW n \in Allocate(3), InUse(n), Become(t, [g EXCEPT !.at = "psapifree", !.mine = n])
      PROVE  Stage(t)
  <2> DEFINE f == [g EXCEPT !.at = "psapifree", !.mine = n]
  <2>1. n \in 0 .. 3 /\ n \in 0 .. 6
    BY Allocated
  <2> HIDE DEF g
  <2>2. /\ f \in Frame /\ f.op = "show" /\ f.at = "psapifree" /\ f.mine = n
        /\ f.strings = g.strings /\ f.shown = g.shown /\ f.final = g.final /\ f.last = g.last
    BY <1>2, <2>1 DEF Frame
  <2>3. Become(t, f)
    BY <1>5
  <2> HIDE DEF f
  <2>4. WalkerFrame(f) /\ f.at \notin {"lock", "test"}
    BY <1>2, <1>4, <2>1, <2>2 DEF WalkerFrame, WalkerPlaces
  <2>5. f.mine - g.mine = n
    BY <1>4, <2>1, <2>2
  <2>6. QED
    BY <1>2, <1>5, <2>2, <2>3, <2>4, <2>5, HeapStage
<1>6. ASSUME NEW n \in Allocate(3), InUse(n), n = 3, NEW m \in 0 .. MaxModules,
             Become(t, [g EXCEPT !.at = "psapiloop", !.mine = n, !.left = m])
      PROVE  Stage(t)
  <2> DEFINE f == [g EXCEPT !.at = "psapiloop", !.mine = n, !.left = m]
  <2>1. n \in 0 .. 6 /\ m \in 0 .. Max({StackDepth, MaxModules})
    BY <1>6, MaxOfBounds, WalkerAssumption
  <2> HIDE DEF g
  <2>2. /\ f \in Frame /\ f.op = "show" /\ f.at = "psapiloop" /\ f.mine = n
        /\ f.strings = g.strings /\ f.shown = g.shown /\ f.final = g.final /\ f.last = g.last
    BY <1>2, <2>1 DEF Frame
  <2>3. Become(t, f)
    BY <1>6
  <2> HIDE DEF f
  <2>4. WalkerFrame(f) /\ f.at \notin {"lock", "test"}
    BY <1>2, <1>4, <1>6, <2>2 DEF WalkerFrame, WalkerPlaces
  <2>5. f.mine - g.mine = n
    BY <1>4, <2>1, <2>2
  <2>6. QED
    BY <1>2, <1>6, <2>2, <2>3, <2>4, <2>5, HeapStage
<1>7. QED
  BY <1>3, <1>5, <1>6 DEF EnumModules


LEMMA FreeEnumBuffersStage ==
  ASSUME TrackerInv, NEW t \in Threads, FreeEnumBuffers(t) PROVE Stage(t)
<1> DEFINE g == Top(t)
           f == [g EXCEPT !.at = "after", !.mine = 0]
<1>1. At(t, {"show"}, "psapifree") /\ InUse(-g.mine) /\ Become(t, f)
  BY DEF FreeEnumBuffers
<1>2. g = Top(t) /\ g \in Frame /\ g.at = "psapifree" /\ g.op = "show" /\ WalkerFrame(g)
  BY <1>1, ShowTop
<1> HIDE DEF g
<1>3. /\ f \in Frame /\ f.op = "show" /\ f.at = "after" /\ f.mine = 0
      /\ f.strings = g.strings /\ f.shown = g.shown /\ f.final = g.final /\ f.last = g.last
  <2>1. "after" \in Places /\ 0 \in 0 .. 6
    BY <1>2 DEF Places, WalkerPlaces
  <2>2. f \in Frame
    BY <1>2, <2>1, FreeingActivation
  <2>3. QED
    BY <1>2, <2>2 DEF Frame
<1> HIDE DEF f
<1>4. WalkerFrame(f) /\ f.at \notin {"lock", "test"}
  BY <1>2, <1>3 DEF WalkerFrame, WalkerPlaces
<1>5. f.mine - g.mine = -g.mine
  <2>1. g.mine \in 0 .. 6
    BY <1>2 DEF Frame
  <2>2. QED
    BY <1>3, <2>1
<1>6. QED
  BY <1>1, <1>2, <1>3, <1>4, <1>5, HeapStage

LEMMA AllocateSymbolStage ==
  ASSUME TrackerInv, NEW t \in Threads, AllocateSymbol(t) PROVE Stage(t)
<1> DEFINE g == Top(t)
<1>1. At(t, {"show"}, "sym")
  BY DEF AllocateSymbol
<1>2. g = Top(t) /\ g \in Frame /\ g.at = "sym" /\ g.op = "show" /\ WalkerFrame(g)
  BY <1>1, ShowTop
<1>3. PICK n \in Allocate(1) :
        /\ InUse(n)
        /\ \E d \in 0 .. StackDepth :
             Become(t, [g EXCEPT !.at = IF n = 1 THEN "walk" ELSE "cleanup",
                                 !.mine = n, !.left = d])
  BY DEF AllocateSymbol
<1>4. PICK d \in 0 .. StackDepth :
        Become(t, [g EXCEPT !.at = IF n = 1 THEN "walk" ELSE "cleanup", !.mine = n, !.left = d])
  BY <1>3
<1> DEFINE a == IF n = 1 THEN "walk" ELSE "cleanup"
           f == [g EXCEPT !.at = a, !.mine = n, !.left = d]
<1>5. n \in 0 .. 1 /\ n \in 0 .. 6 /\ d \in 0 .. Max({StackDepth, MaxModules})
  BY Allocated, MaxOfBounds, WalkerAssumption
<1>6. a \in {"walk", "cleanup"} /\ (a = "walk" <=> n = 1) /\ Become(t, f)
  BY <1>4
<1> HIDE DEF g, a
<1>7. /\ f \in Frame /\ f.op = "show" /\ f.at = a /\ f.mine = n
      /\ f.strings = g.strings /\ f.shown = g.shown /\ f.final = g.final /\ f.last = g.last
  BY <1>2, <1>5, <1>6 DEF Frame
<1> HIDE DEF f
<1>8. g.mine = 0 /\ g.strings = 0 /\ ~g.shown /\ ~g.final /\ g.last = 0
  BY <1>2 DEF WalkerFrame
<1>9. WalkerFrame(f) /\ f.at \notin {"lock", "test"}
  BY <1>5, <1>6, <1>7, <1>8 DEF WalkerFrame, WalkerPlaces
<1>10. f.mine - g.mine = n
  BY <1>5, <1>7, <1>8
<1>11. QED
  BY <1>2, <1>3, <1>6, <1>7, <1>9, <1>10, HeapStage

LEMMA WalkFrameStage ==
  ASSUME TrackerInv, NEW t \in Threads, WalkFrame(t) PROVE Stage(t)
<1> DEFINE g == Top(t)
<1>1. At(t, {"show"}, "walk")
  BY DEF WalkFrame
<1>2. g = Top(t) /\ g \in Frame /\ g.at = "walk" /\ g.op = "show" /\ WalkerFrame(g)
  BY <1>1, ShowTop
<1>3. PICK same \in BOOLEAN, final \in BOOLEAN, n \in Allocate(1) :
        /\ same => g.rec <= MaxRecursionCount
        /\ ~same => g.left > 0
        /\ InUse(n)
        /\ Become(t, [g EXCEPT !.at = "entry", !.mine = @ + n, !.final = final,
                               !.rec = IF same THEN @ + 1 ELSE 0,
                               !.left = IF same THEN @ ELSE @ - 1])
  BY DEF WalkFrame
<1> DEFINE m == g.mine + n
           r == IF same THEN g.rec + 1 ELSE 0
           l == IF same THEN g.left ELSE g.left - 1
           f == [g EXCEPT !.at = "entry", !.mine = m, !.final = final, !.rec = r, !.left = l]
<1>4. Become(t, f)
  BY <1>3
<1>5. n \in 0 .. 1
  BY Allocated
<1> HIDE DEF g
<1>6. g.mine = 1 /\ g.strings = 0 /\ g.last = 0
  BY <1>2 DEF WalkerFrame
<1>7. m \in 1 .. 2 /\ m \in 0 .. 6 /\ m - g.mine = n
  BY <1>5, <1>6
<1>8. r \in 0 .. MaxRecursionCount + 1
  <2>1. g.rec \in 0 .. MaxRecursionCount + 1
    BY <1>2 DEF Frame
  <2>2. QED
    BY <1>3, <2>1, WalkerAssumption
<1>9. l \in 0 .. Max({StackDepth, MaxModules})
  <2>1. g.left \in 0 .. Max({StackDepth, MaxModules})
    BY <1>2 DEF Frame
  <2>2. QED
    BY <1>3, <2>1, MaxOfBounds
<1> HIDE DEF m, r, l
<1>10. /\ f \in Frame /\ f.op = "show" /\ f.at = "entry" /\ f.mine = m
       /\ f.strings = g.strings /\ f.last = g.last
  BY <1>2, <1>7, <1>8, <1>9 DEF Frame
<1> HIDE DEF f
<1>11. WalkerFrame(f) /\ f.at \notin {"lock", "test"}
  BY <1>6, <1>7, <1>10 DEF WalkerFrame, WalkerPlaces
<1>12. f.mine - g.mine = n
  BY <1>7, <1>10
<1>13. QED
  BY <1>2, <1>3, <1>4, <1>10, <1>11, <1>12, HeapStage

LEMMA ShowEntryStage ==
  ASSUME TrackerInv, NEW t \in Threads, ShowEntry(t) PROVE Stage(t)
<1> DEFINE g == Top(t)
           a == IF g.final THEN "cleanup" ELSE "walk"
           k == IF g.final THEN g.last + 1 ELSE g.last
           f == [g EXCEPT !.at = a, !.mine = 1, !.shown = TRUE, !.last = k]
<1>1. At(t, {"show"}, "entry") /\ InUse(1 - g.mine) /\ Become(t, f)
  BY DEF ShowEntry
<1>2. g = Top(t) /\ g \in Frame /\ g.at = "entry" /\ g.op = "show" /\ WalkerFrame(g)
  BY <1>1, ShowTop
<1> HIDE DEF g
<1>3. g.last = 0 /\ g.strings = 0 /\ g.mine \in {1, 2}
  BY <1>2 DEF WalkerFrame
<1>4. a \in {"walk", "cleanup"} /\ (a = "cleanup" <=> g.final) /\ k = IF g.final THEN 1 ELSE 0
  BY <1>3
<1> HIDE DEF a, k
<1>5. /\ f \in Frame /\ f.op = "show" /\ f.at = a /\ f.mine = 1 /\ f.shown
      /\ f.strings = g.strings /\ f.final = g.final /\ f.last = k
  <2>1. a \in Places /\ 1 \in 0 .. 6 /\ k \in 0 .. 2
    BY <1>2, <1>4 DEF Places, WalkerPlaces
  <2>2. f \in Frame
    BY <1>2, <2>1, ShowingActivation
  <2>3. QED
    BY <1>2, <2>2 DEF Frame
<1> HIDE DEF f
<1>6. WalkerFrame(f) /\ f.at \notin {"lock", "test"}
  BY <1>3, <1>4, <1>5 DEF WalkerFrame, WalkerPlaces
<1>7. f.mine - g.mine = 1 - g.mine
  BY <1>5
<1>8. QED
  BY <1>1, <1>2, <1>5, <1>6, <1>7, HeapStage

LEMMA CleanupStage ==
  ASSUME TrackerInv, NEW t \in Threads, Cleanup(t) PROVE Stage(t)
<1> DEFINE g == Top(t)
           k == IF g.shown /\ ~g.final THEN g.last + 1 ELSE g.last
           f == [g EXCEPT !.at = "unlock", !.mine = 0, !.last = k]
<1>1. At(t, {"show"}, "cleanup") /\ InUse(-g.mine) /\ Become(t, f)
  BY DEF Cleanup
<1>2. g = Top(t) /\ g \in Frame /\ g.at = "cleanup" /\ g.op = "show" /\ WalkerFrame(g)
  BY <1>1, ShowTop
<1> HIDE DEF g
<1>3. g.last = (IF g.final THEN 1 ELSE 0) /\ g.strings = 0 /\ (g.final => g.shown)
  BY <1>2 DEF WalkerFrame
<1>4. k = IF g.shown THEN 1 ELSE 0
  BY <1>3
<1> HIDE DEF k
<1>5. /\ f \in Frame /\ f.op = "show" /\ f.at = "unlock" /\ f.mine = 0 /\ f.shown = g.shown
      /\ f.strings = g.strings /\ f.final = g.final /\ f.last = k
  <2>1. "unlock" \in Places /\ 0 \in 0 .. 6 /\ k \in 0 .. 2
    BY <1>2, <1>4 DEF Places, WalkerPlaces
  <2>2. f \in Frame
    BY <1>2, <2>1, EndingActivation
  <2>3. QED
    BY <1>2, <2>2 DEF Frame
<1> HIDE DEF f
<1>6. WalkerFrame(f) /\ f.at \notin {"lock", "test"}
  BY <1>3, <1>4, <1>5 DEF WalkerFrame, WalkerPlaces
<1>7. f.mine - g.mine = -g.mine
  <2>1. g.mine \in 0 .. 6
    BY <1>2 DEF Frame
  <2>2. QED
    BY <1>5, <2>1
<1>8. QED
  BY <1>1, <1>2, <1>5, <1>6, <1>7, HeapStage


LEMMA StageKeeps ==
  ASSUME TrackerInv, NEW t \in Threads, NEW p, At(t, {"show"}, p), p # "lock", Stage(t),
         t \notin pending, UNCHANGED <<loader, isLocked, ldr, libs, sw, trackerVars>>
  PROVE  TrackerInv'
<1>1. PICK f \in Frame : /\ f.op = "show" /\ WalkerFrame(f) /\ f.at \notin {"lock", "test"}
                        /\ Become(t, f)
                        /\ heap' = [heap EXCEPT !.live = @ + (f.mine - Top(t).mine)]
  BY DEF Stage
<1>2. stack[t] # <<>> /\ Top(t).op = "show" /\ Top(t).at # "lock"
  BY ShowTop
<1>3. QED
  BY <1>1, <1>2, WalkerPlain

LEMMA ShowReturnsKeeps ==
  ASSUME TrackerInv, NEW t \in Threads, ShowReturns(t), UNCHANGED trackerVars
  PROVE  TrackerInv'
<1>1. /\ stack[t] # <<>> /\ Top(t).at = "unlock" /\ unlock
      /\ stack' = [stack EXCEPT ![t] = Below(t)] /\ pending' \subseteq pending \cup {t}
      /\ UNCHANGED <<ldr, heap, libs, sw, OwnerVars, enterCount, inDll>>
  BY DEF ShowReturns, At, trackerVars, OwnerVars
<1>2. QED
  BY <1>1, ReturnUnlocks

LEMMA WalkKeeps ==
  ASSUME TrackerInv, NEW t \in Threads, Walk(t) PROVE TrackerInv'
<1>1. t \notin pending /\ ShowCallstack(t) /\ UNCHANGED trackerVars
  BY DEF Walk, Running
<1>2. CASE ShowLock(t)
  BY <1>1, <1>2, ShowLockKeeps
<1>3. CASE ShowReturns(t)
  BY <1>1, <1>3, ShowReturnsKeeps
<1>4. CASE ShowTest(t)
  <2>1. /\ \E p : p # "lock" /\ At(t, {"show"}, p)
        /\ UNCHANGED <<loader, isLocked, ldr, libs, sw>>
    BY <1>4 DEF ShowTest
  <2>2. QED
    BY <1>1, <1>4, <2>1, ShowTestStage, StageKeeps
<1>5. CASE Snapshot(t)
  <2>1. /\ \E p : p # "lock" /\ At(t, {"show"}, p)
        /\ UNCHANGED <<loader, isLocked, ldr, libs, sw>>
    BY <1>5 DEF Snapshot
  <2>2. QED
    BY <1>1, <1>5, <2>1, SnapshotStage, StageKeeps
<1>6. CASE LoadModule(t)
  <2>1. /\ \E p : p # "lock" /\ At(t, {"show"}, p)
        /\ UNCHANGED <<loader, isLocked, ldr, libs, sw>>
    BY <1>6 DEF LoadModule
  <2>2. QED
    BY <1>1, <1>6, <2>1, LoadModuleStage, StageKeeps
<1>7. CASE ModuleLoaded(t)
  <2>1. /\ \E p : p # "lock" /\ At(t, {"show"}, p)
        /\ UNCHANGED <<loader, isLocked, ldr, libs, sw>>
    BY <1>7 DEF ModuleLoaded
  <2>2. QED
    BY <1>1, <1>7, <2>1, ModuleLoadedStage, StageKeeps
<1>8. CASE SnapshotEnds(t)
  <2>1. /\ \E p : p # "lock" /\ At(t, {"show"}, p)
        /\ UNCHANGED <<loader, isLocked, ldr, libs, sw>>
    BY <1>8 DEF SnapshotEnds
  <2>2. QED
    BY <1>1, <1>8, <2>1, SnapshotEndsStage, StageKeeps
<1>9. CASE EnumModules(t)
  <2>1. /\ \E p : p # "lock" /\ At(t, {"show"}, p)
        /\ UNCHANGED <<loader, isLocked, ldr, libs, sw>>
    BY <1>9 DEF EnumModules
  <2>2. QED
    BY <1>1, <1>9, <2>1, EnumModulesStage, StageKeeps
<1>10. CASE EnumEnds(t)
  <2>1. /\ \E p : p # "lock" /\ At(t, {"show"}, p)
        /\ UNCHANGED <<loader, isLocked, ldr, libs, sw>>
    BY <1>10 DEF EnumEnds
  <2>2. QED
    BY <1>1, <1>10, <2>1, EnumEndsStage, StageKeeps
<1>11. CASE FreeEnumBuffers(t)
  <2>1. /\ \E p : p # "lock" /\ At(t, {"show"}, p)
        /\ UNCHANGED <<loader, isLocked, ldr, libs, sw>>
    BY <1>11 DEF FreeEnumBuffers
  <2>2. QED
    BY <1>1, <1>11, <2>1, FreeEnumBuffersStage, StageKeeps
<1>12. CASE AfterLoadModules(t)
  <2>1. /\ \E p : p # "lock" /\ At(t, {"show"}, p)
        /\ UNCHANGED <<loader, isLocked, ldr, libs, sw>>
    BY <1>12 DEF AfterLoadModules
  <2>2. QED
    BY <1>1, <1>12, <2>1, AfterLoadModulesStage, StageKeeps
<1>13. CASE AllocateSymbol(t)
  <2>1. /\ \E p : p # "lock" /\ At(t, {"show"}, p)
        /\ UNCHANGED <<loader, isLocked, ldr, libs, sw>>
    BY <1>13 DEF AllocateSymbol
  <2>2. QED
    BY <1>1, <1>13, <2>1, AllocateSymbolStage, StageKeeps
<1>14. CASE WalkStops(t)
  <2>1. /\ \E p : p # "lock" /\ At(t, {"show"}, p)
        /\ UNCHANGED <<loader, isLocked, ldr, libs, sw>>
    BY <1>14 DEF WalkStops
  <2>2. QED
    BY <1>1, <1>14, <2>1, WalkStopsStage, StageKeeps
<1>15. CASE WalkFrame(t)
  <2>1. /\ \E p : p # "lock" /\ At(t, {"show"}, p)
        /\ UNCHANGED <<loader, isLocked, ldr, libs, sw>>
    BY <1>15 DEF WalkFrame
  <2>2. QED
    BY <1>1, <1>15, <2>1, WalkFrameStage, StageKeeps
<1>16. CASE ShowEntry(t)
  <2>1. /\ \E p : p # "lock" /\ At(t, {"show"}, p)
        /\ UNCHANGED <<loader, isLocked, ldr, libs, sw>>
    BY <1>16 DEF ShowEntry
  <2>2. QED
    BY <1>1, <1>16, <2>1, ShowEntryStage, StageKeeps
<1>17. CASE Cleanup(t)
  <2>1. /\ \E p : p # "lock" /\ At(t, {"show"}, p)
        /\ UNCHANGED <<loader, isLocked, ldr, libs, sw>>
    BY <1>17 DEF Cleanup
  <2>2. QED
    BY <1>1, <1>17, <2>1, CleanupStage, StageKeeps
<1>18. QED
  BY <1>1, <1>2, <1>3, <1>4, <1>5, <1>6, <1>7, <1>8, <1>9, <1>10, <1>11, <1>12, <1>13, <1>14, <1>15, <1>16, <1>17 DEF ShowCallstack

LEMMA HandlerStepKeeps ==
  ASSUME TrackerInv, NEW t \in Threads, HandlerStep(t) PROVE TrackerInv'
<1>1. CASE TestMe(t) \/ FilterCpp(t)
  BY <1>1, TestMeKeeps
<1>2. CASE HandlerLock(t)
  BY <1>2, HandlerLockKeeps
<1>3. CASE TestLocked(t)
  BY <1>3, TestLockedKeeps
<1>4. CASE LogError(t) \/ LogEnd(t)
  BY <1>4, LogKeeps
<1>5. CASE LogRecord(t)
  BY <1>5, LogRecordKeeps
<1>6. CASE Uncount(t)
  BY <1>6, UncountKeeps
<1>7. CASE HandlerReturns(t)
  BY <1>7, HandlerReturnsKeeps
<1>8. CASE Walk(t)
  BY <1>8, WalkKeeps
<1>9. CASE Unwind(t)
  BY <1>9, UnwindKeeps
<1>10. CASE UseAfterDestroy(t)
  BY <1>10, StateUnchanged DEF UseAfterDestroy, walkerVars, OwnerVars
<1>11. QED
  BY <1>1, <1>2, <1>3, <1>4, <1>5, <1>6, <1>7, <1>8, <1>9, <1>10 DEF HandlerStep

-----------------------------------------------------------------------------
(* The owner of the tracker *)

\* The owner installs or removes the handlers.
LEMMA OwnerMoves ==
  ASSUME TrackerInv, main # "gone", main' \notin {"off", "gone"},
         {me, dontFilter, vectored}' \subseteq BOOLEAN,
         UNCHANGED <<walkerVars, enterCount, pending, inDll>>
  PROVE  TrackerInv'
<1>1. UNCHANGED <<stack, loader, isLocked, ldr, heap, libs, sw, enterCount, pending, inDll>>
  BY DEF walkerVars
<1>2. \A u \in Threads : ThreadInv(u)'
  BY <1>1 DEF TrackerInv, ThreadInv, InDll, Top
<1>3. LockInv'
  BY <1>1 DEF TrackerInv, LockInv
<1>4. LibraryInv'
  BY <1>1 DEF TrackerInv, LibraryInv
<1>5. OwnerInv'
  BY <1>1 DEF TrackerInv, OwnerInv
<1>6. HeapInv'
  BY <1>1 DEF TrackerInv, HeapInv, Local
<1>7. QED
  BY <1>1, <1>2, <1>3, <1>4, <1>5, <1>6 DEF TrackerInv

\* What Initialize leaves of the members: a library whose entry points were all
\* found is held, and only psapi.dll is held otherwise.
SoundWalker(w) ==
  w \in WalkerType /\ w.ready \subseteq w.held /\ w.held \ w.ready \subseteq {"psapi"}

LEMMA InitDbgHelpSound ==
  ASSUME NEW w, SoundWalker(w), NEW found, NEW copied \in BOOLEAN
  PROVE  SoundWalker(InitDbgHelp(w, found, copied))
BY DEF SoundWalker, InitDbgHelp, WalkerType, Library

LEMMA InitTH32Sound ==
  ASSUME NEW w, SoundWalker(w), NEW found PROVE SoundWalker(InitTH32(w, found))
BY DEF SoundWalker, InitTH32, WalkerType, Library

LEMMA InitPSAPISound ==
  ASSUME NEW w, SoundWalker(w), NEW found \in {"absent", "partial", "complete"}
  PROVE  SoundWalker(InitPSAPI(w, found))
BY DEF SoundWalker, InitPSAPI, WalkerType, Library

LEMMA InitializedSound ==
  ASSUME NEW w, SoundWalker(w), NEW buffer \in BOOLEAN, NEW copied \in BOOLEAN,
         NEW dbg, NEW th, NEW ps \in {"absent", "partial", "complete"}
  PROVE  SoundWalker(Initialized(w, buffer, dbg, copied, th, ps))
<1> DEFINE w1 == InitDbgHelp(w, dbg, copied)
           w2 == InitLoadingOfModules(w1, th, ps)
           w3 == [w2 EXCEPT !.initialized = TRUE]
<1>1. SoundWalker(w1)
  BY InitDbgHelpSound
<1> HIDE DEF w1
<1>2. SoundWalker(w2)
  BY <1>1, InitTH32Sound, InitPSAPISound DEF InitLoadingOfModules
<1> HIDE DEF w2
<1>3. SoundWalker(w3)
  BY <1>2 DEF SoundWalker, WalkerType
<1> HIDE DEF w3
<1>4. Initialized(w, buffer, dbg, copied, th, ps) \in {w, w1, w2, w3}
  BY DEF Initialized, w1, w2, w3
<1>5. QED
  BY <1>1, <1>2, <1>3, <1>4

LEMMA NoWalkerSound == SoundWalker(NoWalker)
BY DEF SoundWalker, NoWalker, WalkerType, Library


LEMMA InitializeKeeps ==
  ASSUME TrackerInv, initialize PROVE TrackerInv'
<1>1. PICK ok, exists, buffer, copied \in BOOLEAN,
           dbg, th, ps \in {"absent", "partial", "complete"} :
        LET w == [NoWalker EXCEPT !.exists = exists]
            i == Initialized(w, buffer, dbg, copied, th, ps)
        IN  /\ (exists \/ buffer \/ copied) => ok
            /\ loader.owner = NoThread
            /\ sw' = i
            /\ heap' = [ok |-> ok, live |-> Owned(i), lost |-> 0]
            /\ libs' = [l \in Library |-> IF l \in i.ready THEN 1 ELSE 0]
            /\ isLocked' = FALSE
            /\ UNCHANGED <<stack, loader, ldr>>
  BY Zenon DEF initialize, MakeWalker
<1> DEFINE w == [NoWalker EXCEPT !.exists = exists]
           i == Initialized(w, buffer, dbg, copied, th, ps)
<1>2. /\ main = "off" /\ main' = "built" /\ dontFilter' \in BOOLEAN
      /\ UNCHANGED <<me, filter, vectored, enterCount, pending, inDll>>
  BY DEF initialize
<1>3. SoundWalker(i)
  <2>1. SoundWalker(w)
    BY DEF SoundWalker, NoWalker, WalkerType, Library
  <2> HIDE DEF w
  <2>2. QED
    BY <2>1, InitializedSound
<1>4. /\ loader.owner = NoThread /\ sw' = i
      /\ heap' = [ok |-> ok, live |-> Owned(i), lost |-> 0]
      /\ libs' = [l \in Library |-> IF l \in i.ready THEN 1 ELSE 0]
      /\ isLocked' = FALSE
      /\ UNCHANGED <<stack, loader, ldr>>
  BY <1>1
<1> HIDE DEF i, w
<1>5. \A u \in Threads : stack[u] = <<>> /\ ThreadInv(u)
  BY <1>2 DEF TrackerInv, OwnerInv
<1>6. \A u \in Threads : ThreadInv(u)'
  BY <1>2, <1>4, <1>5 DEF ThreadInv, InDll
<1>7. LockInv'
  BY <1>2, <1>4 DEF TrackerInv, LockInv
<1>8. HeapInv'
  <2>1. Local' = 0
    BY <1>4, WalkerAssumption DEF Local
  <2>2. Owned(i) \in Nat
    BY DEF Owned
  <2>3. heap' \in [ok : BOOLEAN, live : Nat, lost : Nat] /\ heap'.live = Owned(i) /\ heap'.lost = 0
    BY <1>4, <2>2
  <2>4. Owned(sw)' = Owned(i)
    BY <1>4 DEF Owned
  <2>5. heap'.live = Owned(sw)' + heap'.lost + Local'
    BY <2>1, <2>2, <2>3, <2>4
  <2>6. QED
    BY <2>3, <2>5 DEF HeapInv
<1>9. LibraryInv'
  BY <1>2, <1>3, <1>4 DEF LibraryInv, SoundWalker
<1>10. OwnerInv'
  BY <1>2 DEF TrackerInv, OwnerInv
<1>11. QED
  BY <1>4, <1>6, <1>7, <1>8, <1>9, <1>10 DEF TrackerInv

LEMMA DestroyKeeps ==
  ASSUME TrackerInv, Destroy PROVE TrackerInv'
<1>1. /\ main = "cleared" /\ main' = "gone"
      /\ libs' = [l \in Library |-> IF l \in sw.held THEN libs[l] - 1 ELSE libs[l]]
      /\ heap' = [heap EXCEPT !.live = @ - Owned(sw)]
      /\ sw' = NoWalker
      /\ UNCHANGED <<stack, loader, isLocked, ldr, me, dontFilter, filter, vectored, enterCount,
                     pending, inDll>>
  BY DEF Destroy, DestroyWalker
<1>2. \A u \in Threads : ThreadInv(u)'
  BY <1>1 DEF TrackerInv, ThreadInv, InDll, Top
<1>3. LockInv' /\ OwnerInv'
  BY <1>1 DEF TrackerInv, LockInv, OwnerInv
<1>4. LibraryInv'
  <2>1. /\ libs = [l \in Library |-> IF l \in sw.ready THEN 1 ELSE 0]
        /\ sw.ready \subseteq sw.held /\ sw.held \ sw.ready \subseteq {"psapi"}
    BY <1>1 DEF TrackerInv, LibraryInv
  <2>2. \A l \in Library : libs'[l] = IF l \in sw.held THEN libs[l] - 1 ELSE libs[l]
    BY <1>1
  <2>3. \A l \in Library : libs[l] = IF l \in sw.ready THEN 1 ELSE 0
    BY <2>1
  <2>4. /\ libs'["dbghelp"] = 0 /\ libs'["toolhelp"] = 0 /\ libs'["psapi"] \in {-1, 0}
    BY <2>1, <2>2, <2>3 DEF Library
  <2>5. SoundWalker(sw')
    BY <1>1, NoWalkerSound
  <2>6. QED
    BY <1>1, <2>4, <2>5 DEF LibraryInv, SoundWalker
<1>5. HeapInv'
  <2>1. /\ heap \in [ok : BOOLEAN, live : Nat, lost : Nat]
        /\ heap.live = Owned(sw) + heap.lost + Local
    BY DEF TrackerInv, HeapInv
  <2>2. Local' = Local /\ Local \in Nat
    BY <1>1, LocalOfOwner DEF Local
  <2>3. Owned(sw)' = 0 /\ Owned(sw) \in Nat
    BY <1>1 DEF Owned, NoWalker
  <2>4. /\ heap'.ok = heap.ok /\ heap'.live = heap.live - Owned(sw) /\ heap'.lost = heap.lost
        /\ heap' = [ok |-> heap.ok, live |-> heap.live - Owned(sw), lost |-> heap.lost]
    BY <1>1, <2>1
  <2>5. heap.live - Owned(sw) = heap.lost + Local /\ heap.lost \in Nat /\ heap.ok \in BOOLEAN
    BY <2>1, <2>2, <2>3
  <2>6. heap'.live = heap.lost + Local /\ heap' \in [ok : BOOLEAN, live : Nat, lost : Nat]
    BY <2>2, <2>4, <2>5
  <2>7. heap'.live = Owned(sw)' + heap'.lost + Local'
    BY <2>2, <2>3, <2>4, <2>5, <2>6
  <2>8. QED
    BY <2>6, <2>7 DEF HeapInv
<1>6. QED
  BY <1>1, <1>2, <1>3, <1>4, <1>5 DEF TrackerInv

LEMMA MainStepKeeps ==
  ASSUME TrackerInv, MainStep PROVE TrackerInv'
<1>1. {me, dontFilter, vectored} \subseteq BOOLEAN
  BY DEF TrackerInv, OwnerInv
<1>2. CASE initialize
  BY <1>2, InitializeKeeps
<1>3. CASE Destroy
  BY <1>3, DestroyKeeps
<1>4. CASE SetFilter
  BY <1>1, <1>4, OwnerMoves DEF SetFilter
<1>5. CASE AddVectored
  BY <1>1, <1>5, OwnerMoves DEF AddVectored
<1>6. CASE SetMe
  BY <1>1, <1>6, OwnerMoves DEF SetMe
<1>7. CASE RestoreFilter
  BY <1>1, <1>7, OwnerMoves DEF RestoreFilter
<1>8. CASE RemoveVectored
  BY <1>1, <1>8, OwnerMoves DEF RemoveVectored
<1>9. CASE ClearMe
  BY <1>1, <1>9, OwnerMoves DEF ClearMe
<1>10. QED
  BY <1>2, <1>3, <1>4, <1>5, <1>6, <1>7, <1>8, <1>9 DEF MainStep

-----------------------------------------------------------------------------
(* The invariant *)

LEMMA InitHolds == Init => TrackerInv
<1> SUFFICES ASSUME Init PROVE TrackerInv
  OBVIOUS
<1>1. /\ stack = [t \in Threads |-> <<>>] /\ loader = [owner |-> NoThread, count |-> 0]
      /\ isLocked = FALSE /\ ldr \in BOOLEAN /\ heap = [ok |-> FALSE, live |-> 0, lost |-> 0]
      /\ libs = [l \in Library |-> 0] /\ sw = NoWalker /\ main = "off" /\ me = FALSE
      /\ dontFilter = FALSE /\ filter = "program" /\ vectored = FALSE /\ enterCount = 0
      /\ pending = {} /\ inDll = {}
  BY DEF Init
<1>2. Shape(<<>>) /\ <<>> \in Seq(Frame)
  BY DEF Shape
<1>3. ASSUME NEW t \in Threads PROVE ThreadInv(t)
  <2>1. stack[t] = <<>> /\ loader.owner # t
    BY <1>1, WalkerAssumption
  <2>2. Locks(stack[t]) = 0 /\ Handlers(stack[t]) = 0 /\ InDll(t) = 0
    BY <1>1, <2>1 DEF Locks, Handlers, InDll
  <2>3. QED
    BY <1>1, <1>2, <2>1, <2>2 DEF ThreadInv
<1>4. LockInv
  BY <1>1 DEF LockInv
<1>5. HeapInv
  <2>1. Local = 0 /\ Owned(sw) = 0
    BY <1>1, WalkerAssumption DEF Local, Owned, NoWalker
  <2>2. QED
    BY <1>1, <2>1 DEF HeapInv
<1>6. LibraryInv
  <2>1. SoundWalker(sw) /\ sw.ready = {}
    BY <1>1, NoWalkerSound DEF NoWalker
  <2>2. libs = [l \in Library |-> IF l \in sw.ready THEN 1 ELSE 0]
    BY <1>1, <2>1
  <2>3. QED
    BY <1>1, <2>1, <2>2 DEF LibraryInv, SoundWalker
<1>7. OwnerInv
  BY <1>1 DEF OwnerInv
<1>8. stack \in [Threads -> Seq(Frame)]
  BY <1>1, <1>2
<1>9. QED
  BY <1>3, <1>4, <1>5, <1>6, <1>7, <1>8 DEF TrackerInv

LEMMA NextKeeps == TrackerInv /\ [Next]_vars => TrackerInv'
<1> SUFFICES ASSUME TrackerInv, [Next]_vars PROVE TrackerInv'
  OBVIOUS
<1>1. CASE UNCHANGED vars
  BY <1>1, StateUnchanged DEF vars, trackerVars, OwnerVars
<1>2. CASE MainStep
  BY <1>2, MainStepKeeps
<1>3. ASSUME NEW t \in Threads,
             EnterDllMain(t) \/ LeaveDllMain(t) \/ Raise(t) \/ Handled(t) \/ NotHandled(t)
      PROVE  TrackerInv'
  BY <1>3, EnterDllMainKeeps, LeaveDllMainKeeps, RaiseKeeps, HandledKeeps, NotHandledKeeps
<1>4. ASSUME NEW t \in Threads, HandlerStep(t) PROVE TrackerInv'
  BY <1>4, HandlerStepKeeps
<1>5. CASE Done
  BY <1>1, <1>5 DEF Done
<1>6. QED
  BY <1>1, <1>2, <1>3, <1>4, <1>5 DEF Next

LEMMA TrackerInvariant == Spec => []TrackerInv
BY InitHolds, NextKeeps, PTL DEF Spec


-----------------------------------------------------------------------------
(* The theorems *)

\* The variables of the tracker and of the walker keep their types; the recursion
\* count of ShowCallstack stays within m_MaxRecursionCount + 1.
THEOREM TrackerTypes == Spec => []TypeOK
<1>1. ASSUME TrackerInv PROVE TypeOK
  <2>1. ASSUME NEW t \in Threads, NEW i \in DOMAIN stack[t] PROVE stack[t][i] \in Frame
    BY <1>1 DEF TrackerInv
  <2>2. loader.owner \in Threads \cup {NoThread} /\ loader.count \in Nat /\ enterCount \in Nat
    BY <1>1 DEF TrackerInv, LockInv
  <2>3. {isLocked, ldr, me, dontFilter, vectored} \subseteq BOOLEAN
    BY <1>1 DEF TrackerInv, LockInv, OwnerInv
  <2>4. heap.live \in Nat /\ heap.lost \in Nat
    BY <1>1 DEF TrackerInv, HeapInv
  <2>5. sw \in WalkerType /\ pending \subseteq Threads /\ inDll \subseteq Threads
    BY <1>1 DEF TrackerInv, LibraryInv, OwnerInv
  <2>6. QED
    BY <2>1, <2>2, <2>3, <2>4, <2>5 DEF TypeOK
<1>2. QED
  BY <1>1, TrackerInvariant, PTL

\* trackerHandler: _enterCount is the number of counted handlers of the thread that
\* holds the loader lock, no other thread has one, and there are three at most.
THEOREM TracesOneAtATime == Spec => []EnterCountExact
<1>1. ASSUME TrackerInv PROVE EnterCountExact
  <2>1. ASSUME NEW t \in Threads
        PROVE  /\ Handlers(stack[t]) = IF loader.owner = t THEN enterCount ELSE 0
               /\ Cardinality(CountedOn(t)) = Handlers(stack[t])
               /\ Handlers(stack[t]) \in 0 .. 3
               /\ CountedOn(t) = {} <=> Handlers(stack[t]) = 0
    <3>1. Shape(stack[t]) /\ Handlers(stack[t]) = IF loader.owner = t THEN enterCount ELSE 0
      BY <1>1 DEF TrackerInv, ThreadInv
    <3>2. QED
      BY <3>1, HandlersCounted DEF CountedOn
  <2>2. /\ loader.owner \in Threads \cup {NoThread}
        /\ loader.owner = NoThread => enterCount = 0
    BY <1>1 DEF TrackerInv, LockInv
  <2>3. ASSUME NEW t \in Threads, CountedOn(t) # {}
        PROVE  loader.owner = t /\ enterCount = Cardinality(CountedOn(t))
    BY <2>1, <2>3
  <2>4. ASSUME \A t \in Threads : CountedOn(t) = {} PROVE enterCount = 0
    BY <2>1, <2>2, <2>4
  <2>5. enterCount <= 3
    BY <2>1, <2>2
  <2>6. QED
    BY <2>3, <2>4, <2>5 DEF EnterCountExact
<1>2. QED
  BY <1>1, TrackerInvariant, PTL

\* LoaderLock: whoever tests the flag under the lock finds it set, although every
\* inner unlock clears it.
THEOREM FlagSetWhenTested == Spec => []LockedFlagReliable
<1>1. ASSUME TrackerInv PROVE LockedFlagReliable
  BY <1>1 DEF TrackerInv, ThreadInv, LockedFlagReliable, At
<1>2. QED
  BY <1>1, TrackerInvariant, PTL

\* lock and unlock: the loader lock is held once for each locker on the stack of its
\* owner and for DllMain, and by nobody else.
THEOREM LoaderLockGivenBack == Spec => []LoaderLockBalanced
<1>1. ASSUME TrackerInv PROVE LoaderLockBalanced
  <2>1. ASSUME NEW t \in Threads, ldr
        PROVE  Cardinality({i \in DOMAIN stack[t] : HoldsLocker(stack[t][i])})
                 + (IF t \in inDll THEN 1 ELSE 0) = IF loader.owner = t THEN loader.count ELSE 0
    <3>1. Shape(stack[t])
      BY <1>1 DEF TrackerInv, ThreadInv
    <3>2. Locks(stack[t]) + InDll(t) = IF loader.owner = t THEN loader.count ELSE 0
      BY <1>1, <2>1 DEF TrackerInv, ThreadInv
    <3>3. Cardinality({i \in DOMAIN stack[t] : HoldsLocker(stack[t][i])}) = Locks(stack[t])
      BY <3>1, LocksCounted
    <3>4. QED
      BY <3>2, <3>3 DEF InDll
  <2>2. QED
    BY <2>1 DEF LoaderLockBalanced
<1>2. QED
  BY <1>1, TrackerInvariant, PTL

\* WinHeap: every block in use belongs to a member of the walker, to the one
\* ShowCallstack in progress, or was lost by an unwinding exception.
THEOREM NoBlockLeaks == Spec => []HeapAccounted
<1>1. ASSUME TrackerInv PROVE HeapAccounted
  <2> DEFINE o == loader.owner
  <2>1. ASSUME NEW u \in Threads, NEW i \in DOMAIN stack[u], stack[u][i].mine > 0
        PROVE  u = o /\ i = 2
    <3>1. ThreadInv(u) /\ Shape(stack[u])
      BY <1>1 DEF TrackerInv, ThreadInv
    <3>2. stack[u][i].mine # 0
      BY <2>1
    <3>3. i = 2 /\ DOMAIN stack[u] = 1 .. Len(stack[u]) /\ Len(stack[u]) \in Nat
      BY <3>1, <3>2, ShapeLength DEF Shape
    <3>4. Len(stack[u]) >= 2
      BY <3>3
    <3>5. QED
      BY <3>1, <3>3, <3>4, DeepOwns
  <2>2. BlockHolders \subseteq {<<o, 2>>}
    <3> SUFFICES ASSUME NEW a \in BlockHolders PROVE a = <<o, 2>>
      OBVIOUS
    <3>1. PICK u \in Threads : a \in {u} \X DOMAIN stack[u] /\ stack[a[1]][a[2]].mine > 0
      BY DEF BlockHolders
    <3>2. PICK i \in DOMAIN stack[u] : a = <<u, i>>
      BY <3>1
    <3>3. stack[u][i].mine > 0
      BY <3>1, <3>2
    <3>4. QED
      BY <2>1, <3>2, <3>3
  <2>3. heap.live - Owned(sw) - heap.lost = Local
    <3>1. /\ heap.live = Owned(sw) + heap.lost + Local /\ heap.live \in Nat /\ heap.lost \in Nat
      BY <1>1 DEF TrackerInv, HeapInv
    <3>2. Owned(sw) \in Nat
      BY DEF Owned
    <3>3. Local \in Nat
      BY <1>1, LocalOfOwner
    <3>4. QED
      BY <3>1, <3>2, <3>3
  <2>4. CASE Local = 0
    <3>1. <<o, 2>> \notin BlockHolders
      <4> SUFFICES ASSUME <<o, 2>> \in BlockHolders PROVE FALSE
        OBVIOUS
      <4>1. PICK u \in Threads : <<o, 2>> \in {u} \X DOMAIN stack[u] /\ stack[o][2].mine > 0
        BY DEF BlockHolders
      <4>2. o \in Threads /\ 2 \in DOMAIN stack[o]
        BY <4>1
      <4>3. Len(stack[o]) >= 2
        <5>1. DOMAIN stack[o] = 1 .. Len(stack[o]) /\ Len(stack[o]) \in Nat
          BY <1>1, <4>2, ShapeLength DEF TrackerInv, ThreadInv
        <5>2. QED
          BY <4>2, <5>1
      <4>4. Local = stack[o][2].mine
        BY <4>2, <4>3 DEF Local
      <4>5. QED
        BY <2>4, <4>1, <4>4
    <3>2. BlockHolders = {}
      BY <2>2, <3>1
    <3>3. QED
      BY <2>3, <2>4, <3>2 DEF HeapAccounted
  <2>5. CASE Local # 0
    <3>1. o \in Threads /\ Len(stack[o]) >= 2 /\ Local = stack[o][2].mine
      BY <2>5 DEF Local
    <3>2. 2 \in DOMAIN stack[o]
      <4>1. DOMAIN stack[o] = 1 .. Len(stack[o]) /\ Len(stack[o]) \in Nat
        BY <1>1, <3>1, ShapeLength DEF TrackerInv, ThreadInv
      <4>2. QED
        BY <3>1, <4>1
    <3>3. stack[o][2].mine > 0
      <4>1. Local \in Nat
        BY <1>1, LocalOfOwner
      <4>2. QED
        BY <2>5, <3>1, <4>1
    <3> DEFINE a == <<o, 2>>
    <3>4. a \in {o} \X DOMAIN stack[o] /\ a[1] = o /\ a[2] = 2
      BY <3>2
    <3>5. a \in BlockHolders
      BY <3>1, <3>3, <3>4 DEF BlockHolders
    <3>6. BlockHolders = {a}
      BY <2>2, <3>5
    <3>7. heap.live - Owned(sw) - heap.lost = stack[a[1]][a[2]].mine
      BY <2>3, <3>1, <3>4
    <3> HIDE DEF a
    <3>8. QED
      BY <3>5, <3>6, <3>7 DEF HeapAccounted
  <2>6. QED
    BY <2>4, <2>5
<1>2. QED
  BY <1>1, TrackerInvariant, PTL

\* ~StackWalkerInternal frees dbghelp.dll and toolhelp as often as Initialize loaded
\* them, psapi.dll at most once too often.
THEOREM LibrariesGivenBack == Spec => []LibrariesReleased
<1>1. TrackerInv => LibrariesReleased
  BY DEF TrackerInv, LibraryInv, LibrariesReleased
<1>2. QED
  BY <1>1, TrackerInvariant, PTL

\* ShowCallstack announces the last entry once if it showed an entry, and not
\* otherwise.
THEOREM LastEntryAnnounced == Spec => []LastEntryOnce
<1>1. ASSUME TrackerInv PROVE LastEntryOnce
  <2>1. ASSUME NEW t \in Threads, At(t, {"show"}, "unlock")
        PROVE  Top(t).last = IF Top(t).shown THEN 1 ELSE 0
    <3>1. WalkerFrame(Top(t)) /\ Top(t).at = "unlock"
      BY <1>1, <2>1, ShowTop
    <3>2. QED
      BY <3>1 DEF WalkerFrame
  <2>2. QED
    BY <2>1 DEF LastEntryOnce
<1>2. QED
  BY <1>1, TrackerInvariant, PTL

===============================================================================
