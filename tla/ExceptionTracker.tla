-------------------------- MODULE ExceptionTracker --------------------------
(***************************************************************************)
(* The exception tracker of src/Tx/StackWalker/ExceptionsUtils: while it   *)
(* is installed, every exception of every thread runs its handler, which   *)
(* writes the stack of the thread to a log.  The handler serialises itself *)
(* with the loader lock, and is itself interrupted by the exceptions that  *)
(* the tracing raises: _enterCount tells how deep.                         *)
(*                                                                         *)
(* An exception is raised by a thread of the program (which may hold the   *)
(* loader lock, inside DllMain) or by foreign code that the handler or the *)
(* walker calls.  Once the handlers have returned EXCEPTION_CONTINUE_SEARCH*)
(* it is handled where it was raised, or unwinds: a tracing activation     *)
(* to the catch(...) of trackerHandler, the program's thread to the        *)
(* unhandled exception filter.                                             *)
(***************************************************************************)
EXTENDS StackWalker

CONSTANT MaxEvents      \* BOUND: exceptions raised and calls of DllMain

ASSUME TrackerAssumption == MaxEvents \in Nat

VARIABLES
    main,       \* how far the owner of the tracker has got
    me,         \* ExceptionTracker::_me # NULL
    dontFilter, \* _dontFilterCPPException
    filter,     \* who the unhandled exception filter is, the program or the tracker
    vectored,   \* the vectored handler is installed
    enterCount, \* _enterCount
    pending,    \* threads whose exception has passed the handlers
    inDll,      \* threads inside DllMain, with the loader lock
    events,     \* exceptions raised and calls of DllMain so far
    process     \* "running", "ended" by an unhandled exception, "crashed"

trackerVars == <<main, me, dontFilter, filter, vectored, enterCount, pending,
                 inDll, events, process>>
vars == <<walkerVars, trackerVars>>

Handler == {"vectored", "unhandled"}

\* The activations of trackerHandler that have counted themselves.
Counted(f) == f.op \in Handler /\ f.at \in {"record", "error", "end", "uncount"}

CountedOn(t) == {i \in DOMAIN stack[t] : Counted(stack[t][i])}

\* The tracker is still there for the handlers that use it.
Alive == main # "gone"
Running(t) == process = "running" /\ t \notin pending /\ Alive

-----------------------------------------------------------------------------
(* initialize, deinitialize and the destructor.                             *)

\* initialize up to the walker: heap, log, walker.
initialize ==
    /\ main = "off" /\ ~me /\ process = "running"
    /\ MakeWalker
    /\ \E d \in BOOLEAN : dontFilter' = d
    /\ main' = "built"
    /\ UNCHANGED <<me, filter, vectored, enterCount, pending, inDll, events, process>>

SetFilter ==
    /\ main = "built" /\ process = "running"
    /\ filter' = "tracker"
    /\ main' = "filter"
    /\ UNCHANGED <<walkerVars, me, dontFilter, vectored, enterCount, pending,
                   inDll, events, process>>

AddVectored ==
    /\ main = "filter" /\ process = "running"
    /\ vectored' = TRUE
    /\ main' = "vectored"
    /\ UNCHANGED <<walkerVars, me, dontFilter, filter, enterCount, pending,
                   inDll, events, process>>

SetMe ==
    /\ main = "vectored" /\ process = "running"
    /\ me' = TRUE
    /\ main' = "on"
    /\ UNCHANGED <<walkerVars, dontFilter, filter, vectored, enterCount, pending,
                   inDll, events, process>>

RestoreFilter ==
    /\ main = "on" /\ me /\ process = "running"
    /\ filter' = "program"
    /\ main' = "unfilter"
    /\ UNCHANGED <<walkerVars, me, dontFilter, vectored, enterCount, pending,
                   inDll, events, process>>

RemoveVectored ==
    /\ main = "unfilter" /\ process = "running"
    /\ vectored' = FALSE
    /\ main' = "unvectored"
    /\ UNCHANGED <<walkerVars, me, dontFilter, filter, enterCount, pending,
                   inDll, events, process>>

ClearMe ==
    /\ main = "unvectored" /\ process = "running"
    /\ me' = FALSE
    /\ main' = "cleared"
    /\ UNCHANGED <<walkerVars, dontFilter, filter, vectored, enterCount, pending,
                   inDll, events, process>>

\* The members are destroyed; a handler that is still at work is not awaited.
Destroy ==
    /\ main = "cleared" /\ process = "running"
    /\ DestroyWalker
    /\ main' = "gone"
    /\ UNCHANGED <<me, dontFilter, filter, vectored, enterCount, pending, inDll,
                   events, process>>

-----------------------------------------------------------------------------
(* The program and the operating system (external).                         *)

EnterDllMain(t) ==
    /\ process = "running" /\ stack[t] = <<>> /\ t \notin inDll \cup pending
    /\ loader.owner = NoThread /\ ldr /\ events < MaxEvents
    /\ loader' = [owner |-> t, count |-> 1]
    /\ inDll' = inDll \cup {t}
    /\ events' = events + 1
    /\ UNCHANGED <<stack, isLocked, ldr, heap, libs, sw, main, me, dontFilter,
                   filter, vectored, enterCount, pending, process>>

LeaveDllMain(t) ==
    /\ process = "running" /\ stack[t] = <<>> /\ t \in inDll \ pending
    /\ loader' = Released(loader)
    /\ inDll' = inDll \ {t}
    /\ UNCHANGED <<stack, isLocked, ldr, heap, libs, sw, main, me, dontFilter,
                   filter, vectored, enterCount, pending, events, process>>

\* The points at which an exception can be raised on thread t.
CallsOut(t) ==
    \/ stack[t] = <<>>
    \/ /\ stack[t] # <<>>
       /\ \/ Top(t).op = "show" /\ Top(t).at \in WalkerCallsOut
          \/ Top(t).op \in Handler /\ Top(t).at \in {"record", "error", "end"}

Raise(t) ==
    /\ process = "running" /\ t \notin pending
    /\ events < MaxEvents
    /\ CallsOut(t)
    /\ events' = events + 1
    /\ IF vectored
       THEN /\ \E cpp \in BOOLEAN :
                 stack' = [stack EXCEPT ![t] = Append(@, Activation("vectored", "start", cpp))]
            /\ UNCHANGED pending
       ELSE pending' = pending \cup {t} /\ UNCHANGED stack
    /\ UNCHANGED <<loader, isLocked, ldr, heap, libs, sw, main, me, dontFilter,
                   filter, vectored, enterCount, inDll, process>>

\* A handler of the program, or of the foreign code, takes the exception.
Handled(t) ==
    /\ process = "running" /\ t \in pending
    /\ pending' = pending \ {t}
    /\ UNCHANGED <<walkerVars, main, me, dontFilter, filter, vectored, enterCount,
                   inDll, events, process>>

\* Nobody takes an exception of the program.
NotHandled(t) ==
    /\ process = "running" /\ t \in pending /\ stack[t] = <<>>
    /\ IF filter = "tracker"
       THEN /\ stack' = [stack EXCEPT ![t] = <<Activation("unhandled", "start", FALSE)>>]
            /\ pending' = pending \ {t}
            /\ UNCHANGED process
       ELSE process' = "ended" /\ UNCHANGED <<stack, pending>>
    /\ UNCHANGED <<loader, isLocked, ldr, heap, libs, sw, main, me, dontFilter,
                   filter, vectored, enterCount, inDll, events>>

-----------------------------------------------------------------------------
(* VectoredHandler, UnhandledExceptionStackTraceFilter and trackerHandler.  *)

\* The handler returns: the search for someone who takes the exception goes on,
\* and after the unhandled filter (and the one it chains to) the process ends,
\* as "end" says.
Return(t, end) ==
    /\ stack' = [stack EXCEPT ![t] = Below(t)]
    /\ IF Top(t).op = "unhandled"
       THEN process' = end /\ UNCHANGED pending
       ELSE pending' = pending \cup {t} /\ UNCHANGED process

\* _me is a static member: it can be read after the destruction.
TestMe(t) ==
    /\ process = "running" /\ t \notin pending
    /\ At(t, Handler, "start")
    /\ IF me THEN Goto(t, "checked") /\ UNCHANGED <<pending, process>>
             ELSE Return(t, "ended")
    /\ UNCHANGED <<loader, isLocked, ldr, heap, libs, sw, main, me, dontFilter,
                   filter, vectored, enterCount, inDll, events>>

\* _me is read again: C++ exceptions are left out unless they are asked for.
FilterCpp(t) ==
    /\ Running(t) /\ me
    /\ At(t, Handler, "checked")
    /\ IF Top(t).op = "vectored" /\ Top(t).cpp /\ ~dontFilter
       THEN Return(t, "ended")
       ELSE Goto(t, "lock") /\ UNCHANGED <<pending, process>>
    /\ UNCHANGED <<loader, isLocked, ldr, heap, libs, sw, main, me, dontFilter,
                   filter, vectored, enterCount, inDll, events>>

HandlerLock(t) ==
    /\ Running(t)
    /\ At(t, Handler, "lock")
    /\ lock(t)
    /\ Goto(t, "test")
    /\ UNCHANGED <<ldr, heap, libs, sw, trackerVars>>

\* The first handler of the thread traces, the second notes the error, the
\* third returns at once.
TestLocked(t) ==
    /\ Running(t)
    /\ At(t, Handler, "test")
    /\ IF isLocked
       THEN /\ enterCount' = enterCount + 1
            /\ Goto(t, CASE enterCount' >= 3 -> "uncount"
                         [] enterCount' = 2 -> "error"
                         [] OTHER -> "record")
       ELSE Goto(t, "unlock") /\ UNCHANGED enterCount
    /\ UNCHANGED <<loader, isLocked, ldr, heap, libs, sw, main, me, dontFilter,
                   filter, vectored, pending, inDll, events, process>>

LogError(t) ==
    /\ Running(t)
    /\ At(t, Handler, "error")
    /\ Goto(t, "uncount")
    /\ UNCHANGED <<loader, isLocked, ldr, heap, libs, sw, trackerVars>>

\* The record of the exception is written and ShowCallstack called.
LogRecord(t) ==
    /\ Running(t)
    /\ At(t, Handler, "record")
    /\ stack' = [stack EXCEPT ![t] = Append(Below(t), [Top(t) EXCEPT !.at = "end"])
                                     \o <<Activation("show", "lock", FALSE)>>]
    /\ UNCHANGED <<loader, isLocked, ldr, heap, libs, sw, trackerVars>>

\* "End stack trace."
LogEnd(t) ==
    /\ Running(t)
    /\ At(t, Handler, "end")
    /\ Goto(t, "uncount")
    /\ UNCHANGED <<loader, isLocked, ldr, heap, libs, sw, trackerVars>>

\* Mutant: a handler that was not the first leaves the count as it is.
Uncount_Nested(t) ==
    /\ Running(t)
    /\ At(t, Handler, "uncount")
    /\ enterCount' = IF enterCount = 1 THEN 0 ELSE enterCount
    /\ Goto(t, "unlock")
    /\ UNCHANGED <<loader, isLocked, ldr, heap, libs, sw, main, me, dontFilter,
                   filter, vectored, pending, inDll, events, process>>

\* The scope guard of _enterCount.
Uncount(t) ==
    /\ Running(t)
    /\ At(t, Handler, "uncount")
    /\ enterCount' = IF enterCount > 0 THEN enterCount - 1 ELSE enterCount
    /\ Goto(t, "unlock")
    /\ UNCHANGED <<loader, isLocked, ldr, heap, libs, sw, main, me, dontFilter,
                   filter, vectored, pending, inDll, events, process>>

HandlerReturns(t) ==
    /\ Running(t)
    /\ At(t, Handler, "unlock")
    /\ unlock
    /\ Return(t, IF me THEN "ended" ELSE "crashed")
    /\ UNCHANGED <<ldr, heap, libs, sw, main, me, dontFilter, filter, vectored,
                   enterCount, inDll, events>>

Walk(t) ==
    /\ Running(t)
    /\ ShowCallstack(t)
    /\ UNCHANGED trackerVars

\* An exception that nobody takes unwinds to the catch(...) of trackerHandler:
\* the locker of ShowCallstack is released, its blocks are not.
Unwind(t) ==
    /\ process = "running" /\ Alive /\ t \in pending /\ stack[t] # <<>>
    /\ LET walker == Top(t).op = "show"
           f == stack[t][IF walker THEN Len(stack[t]) - 1 ELSE Len(stack[t])]
           rest == SubSeq(stack[t], 1, Len(stack[t]) - (IF walker THEN 2 ELSE 1))
       IN  /\ stack' = [stack EXCEPT ![t] = Append(rest, [f EXCEPT !.at = "uncount"])]
           /\ heap' = [heap EXCEPT !.lost = @ + Top(t).mine]
           /\ IF walker THEN unlock ELSE UNCHANGED <<loader, isLocked>>
    /\ pending' = pending \ {t}
    /\ UNCHANGED <<ldr, libs, sw, main, me, dontFilter, filter, vectored, enterCount,
                   inDll, events, process>>

\* A handler goes on with a tracker that is destroyed, or dereferences _me
\* after it was cleared.
UseAfterDestroy(t) ==
    /\ process = "running" /\ stack[t] # <<>> /\ t \notin pending
    /\ IF Top(t).at = "checked" THEN ~me ELSE ~Alive
    /\ Top(t).at # "start"
    /\ process' = "crashed"
    /\ UNCHANGED <<walkerVars, main, me, dontFilter, filter, vectored, enterCount,
                   pending, inDll, events>>

\* Nothing is left to do.
Done ==
    /\ \/ process # "running"
       \/ /\ main = "gone" /\ events = MaxEvents
          /\ pending = {} /\ \A t \in Threads : stack[t] = <<>>
    /\ UNCHANGED vars

HandlerStep(t) ==
    \/ TestMe(t) \/ FilterCpp(t) \/ HandlerLock(t) \/ TestLocked(t)
    \/ LogError(t) \/ LogRecord(t) \/ LogEnd(t) \/ Uncount(t)
    \/ HandlerReturns(t) \/ Walk(t) \/ Unwind(t) \/ UseAfterDestroy(t)

MainStep ==
    \/ initialize \/ SetFilter \/ AddVectored \/ SetMe
    \/ RestoreFilter \/ RemoveVectored \/ ClearMe \/ Destroy

Next ==
    \/ MainStep
    \/ \E t \in Threads :
        \/ EnterDllMain(t) \/ LeaveDllMain(t) \/ Raise(t)
        \/ Handled(t) \/ NotHandled(t) \/ HandlerStep(t)
    \/ Done

Init ==
    /\ stack = [t \in Threads |-> <<>>]
    /\ loader = [owner |-> NoThread, count |-> 0]
    /\ isLocked = FALSE
    /\ ldr \in BOOLEAN
    /\ heap = [ok |-> FALSE, live |-> 0, lost |-> 0]
    /\ libs = [l \in Library |-> 0]
    /\ sw = NoWalker
    /\ main = "off" /\ me = FALSE /\ dontFilter = FALSE
    /\ filter = "program" /\ vectored = FALSE
    /\ enterCount = 0 /\ pending = {} /\ inDll = {} /\ events = 0
    /\ process = "running"

\* The scheduler runs every thread that can run, somebody takes or drops a
\* pending exception, and DllMain returns.  Nothing is assumed of the owner of
\* the tracker, nor that an exception is raised.
Fairness ==
    \A t \in Threads : /\ WF_vars(HandlerStep(t))
                       /\ WF_vars(Handled(t) \/ NotHandled(t))
                       /\ WF_vars(LeaveDllMain(t))

Spec == Init /\ [][Next]_vars /\ Fairness

-----------------------------------------------------------------------------
(* Properties.                                                              *)

\* The variables have their types; the bounds of the walk keep to theirs.
TypeOK ==
    /\ \A t \in Threads : \A i \in DOMAIN stack[t] : stack[t][i] \in Frame
    /\ loader.owner \in Threads \cup {NoThread} /\ loader.count \in Nat
    /\ {isLocked, ldr, me, dontFilter, vectored} \subseteq BOOLEAN
    /\ heap.live \in Nat /\ heap.lost \in Nat
    /\ sw \in WalkerType
    /\ enterCount \in Nat
    /\ pending \subseteq Threads /\ inDll \subseteq Threads

\* _enterCount (trackerHandler, which counts up and down under a lock that is
\* taken anew by every nested handler) is the number of handlers that are in
\* the counted part; all of them belong to the thread that holds the loader
\* lock, so that no two threads write their traces at the same time, and the
\* handlers never nest deeper than three.
EnterCountExact ==
    process = "running" =>
        /\ \A t \in Threads : CountedOn(t) # {} => /\ loader.owner = t
                                                   /\ enterCount = Cardinality(CountedOn(t))
        /\ (\A t \in Threads : CountedOn(t) = {}) => enterCount = 0
        /\ enterCount <= 3

\* LoaderLock::_Locked is one flag for all lockers, cleared by every inner
\* unlock; yet no handler and no ShowCallstack that has taken the lock is
\* turned away by it.
LockedFlagReliable ==
    ldr => \A t \in Threads : At(t, Handler \cup {"show"}, "test") => isLocked

\* Every way out of the handlers, the unwinding ones too, gives the loader
\* lock back as often as it was taken.
LoaderLockBalanced ==
    process = "running" /\ ldr =>
        \A t \in Threads :
            LET lockers == Cardinality({i \in DOMAIN stack[t] : HoldsLocker(stack[t][i])})
                           + (IF t \in inDll THEN 1 ELSE 0)
            IN  lockers = IF loader.owner = t THEN loader.count ELSE 0

\* The activations whose local variables point to blocks of the private heap.
BlockHolders ==
    {a \in UNION {{t} \X DOMAIN stack[t] : t \in Threads} : stack[a[1]][a[2]].mine > 0}

\* A block of the private heap is pointed to by a member, by a local variable
\* of an activation, or was lost by an exception that unwound through
\* ShowCallstack: no failure path of the walker leaks one or frees one twice.
\* The activation is the only one, on whatever thread.
HeapAccounted ==
    LET others == heap.live - Owned(sw) - heap.lost
    IN  \/ BlockHolders = {} /\ others = 0
        \/ \E a \in BlockHolders : /\ BlockHolders = {a}
                                   /\ others = stack[a[1]][a[2]].mine

\* The destructor frees each library as often as it was loaded; psapi.dll once
\* too often when it lacks an entry point, as InitPSAPI keeps its handle.
LibrariesReleased ==
    main = "gone" => /\ libs["dbghelp"] = 0 /\ libs["toolhelp"] = 0
                     /\ libs["psapi"] \in {-1, 0}

\* ShowCallstack announces the last entry exactly once if it showed an entry,
\* whether the walk reached the outermost frame, failed or ran in circles.
LastEntryOnce ==
    \A t \in Threads :
        At(t, {"show"}, "unlock") => Top(t).last = IF Top(t).shown THEN 1 ELSE 0

\* Every handler returns, however often the tracing is interrupted by further
\* exceptions and however broken the stack it walks is, or the process ends.
HandlersReturn ==
    \A t \in Threads : stack[t] # <<>> ~> (stack[t] = <<>> \/ process # "running")
=============================================================================
