---------------------------- MODULE StackWalker ----------------------------
(***************************************************************************)
(* The stack tracer of src/Tx/StackWalker: the loader lock it serialises   *)
(* itself with (LoaderLock), the private heap it allocates from (WinHeap), *)
(* the libraries it loads (StackWalkerInternal) and one activation of      *)
(* ShowCallstack per thread.  The activations live on the threads' call    *)
(* stacks, together with the exception handlers of ExceptionTracker, which *)
(* call them and can interrupt them at every call of a foreign function.   *)
(*                                                                         *)
(* Foreign code (dbghelp, toolhelp, psapi, HeapAlloc) is a choice over     *)
(* what it may answer: an allocation returns NULL or a block, a library is *)
(* absent, lacks an entry point or is complete, StackWalk64 returns FALSE, *)
(* a frame that returns to itself, a further frame or the outermost one.   *)
(* Strings, symbol names and what is logged are left out.                  *)
(***************************************************************************)
EXTENDS Integers, Sequences, FiniteSets, FiniteSetsExt

CONSTANTS
    Threads,            \* threads that raise exceptions and are traced
    NoThread,           \* nobody holds the loader lock
    MaxRecursionCount,  \* m_MaxRecursionCount (1000 in the code)
    StackDepth,         \* BOUND: frames of a sound call stack
    MaxModules          \* BOUND: modules a snapshot lists

ASSUME WalkerAssumption ==
    /\ NoThread \notin Threads
    /\ MaxRecursionCount \in Nat \ {0}
    /\ StackDepth \in Nat
    /\ MaxModules \in Nat

VARIABLES
    stack,      \* the activations on each thread's call stack, innermost last
    loader,     \* the operating system's loader lock, a recursive lock
    isLocked,   \* LoaderLock::_Locked, one flag for all activations
    ldr,        \* the entry points LdrLockLoaderLock, LdrUnlockLoaderLock exist
    heap,       \* the private heap: was it created, blocks in use, blocks lost
    libs,       \* LoadLibrary minus FreeLibrary calls, per library
    sw          \* members of StackWalker and StackWalkerInternal

walkerVars == <<stack, loader, isLocked, ldr, heap, libs, sw>>

Library == {"dbghelp", "toolhelp", "psapi"}

\* No walker has been constructed.
NoWalker == [exists |-> FALSE, held |-> {}, ready |-> {}, path |-> FALSE,
             initialized |-> FALSE]

WalkerType ==
    [exists : BOOLEAN,               \* m_sw # NULL
     held : SUBSET Library,          \* m_hDbhHelp, hToolhelp, hPsapi # NULL
     ready : SUBSET Library,         \* every entry point it needs was found
     path : BOOLEAN,                 \* StackWalkerInternal::m_szSymPath # NULL
     initialized : BOOLEAN]          \* m_initialized

\* An activation.  "mine" counts the heap blocks its local variables point
\* to, "snap" is its open snapshot handle, "left" the modules or frames still
\* to come, "rec" is curRecursionCount, "shown" and "last" say whether an
\* entry was shown and how often the last entry was announced.
Frame == [op : {"vectored", "unhandled", "show"},
          at : {"start", "checked", "lock", "test", "record", "error", "end",
                "uncount", "unlock", "th32", "th32loop", "psapi", "psapiloop",
                "psapifree", "after", "sym", "walk", "entry", "cleanup"},
          cpp : BOOLEAN, mine : 0..6, strings : 0..3, snap : BOOLEAN,
          left : 0..Max({StackDepth, MaxModules}), cnt : BOOLEAN,
          rec : 0..(MaxRecursionCount + 1), final : BOOLEAN,
          shown : BOOLEAN, last : 0..2]

Activation(op, at, cpp) ==
    [op |-> op, at |-> at, cpp |-> cpp, mine |-> 0, strings |-> 0,
     snap |-> FALSE, left |-> 0, cnt |-> FALSE, rec |-> 0, final |-> FALSE,
     shown |-> FALSE, last |-> 0]

Top(t) == stack[t][Len(stack[t])]
Below(t) == SubSeq(stack[t], 1, Len(stack[t]) - 1)

\* Thread t's innermost activation is an op at this point.
At(t, op, at) == stack[t] # <<>> /\ Top(t).op \in op /\ Top(t).at = at

Become(t, f) == stack' = [stack EXCEPT ![t][Len(stack[t])] = f]
Goto(t, at) == Become(t, [Top(t) EXCEPT !.at = at])

-----------------------------------------------------------------------------
(* LoaderLock.  Every locker of a thread is one more acquisition of the     *)
(* recursive lock; the flag is cleared by each unlock, the inner ones too.  *)

\* Mutant: only the first locker of a thread sets the flag.
lock_First(t) ==
    \/ /\ ldr
       /\ loader.owner \in {NoThread, t}
       /\ loader' = [owner |-> t, count |-> loader.count + 1]
       /\ isLocked' = (isLocked \/ loader.count = 0)
    \/ /\ ~ldr
       /\ isLocked' = FALSE
       /\ UNCHANGED loader

lock(t) ==
    \/ /\ ldr
       /\ loader.owner \in {NoThread, t}
       /\ loader' = [owner |-> t, count |-> loader.count + 1]
       /\ isLocked' = TRUE
    \/ /\ ~ldr
       /\ isLocked' = FALSE
       /\ UNCHANGED loader

\* The loader lock after the release of one acquisition.
Released(l) == [owner |-> IF l.count = 1 THEN NoThread ELSE l.owner,
                count |-> l.count - 1]

\* Mutant: nothing is released once the flag is cleared.
unlock_WhenFlagged ==
    /\ isLocked' = FALSE
    /\ loader' = IF ldr /\ isLocked THEN Released(loader) ELSE loader

unlock ==
    /\ isLocked' = FALSE
    /\ loader' = IF ldr THEN Released(loader) ELSE loader

\* The activations that hold a locker.
HoldsLocker(f) == f.at \notin {"start", "checked", "lock"}

-----------------------------------------------------------------------------
(* The private heap.                                                        *)

\* How many of n allocations succeed.
Allocate(n) == IF heap.ok THEN 0..n ELSE {0}

InUse(n) == heap' = [heap EXCEPT !.live = @ + n]

-----------------------------------------------------------------------------
(* Construction, Initialize and destruction.  Initialize runs under the     *)
(* loader lock and calls nothing that is interrupted, as no handler is      *)
(* installed yet: it is one step.                                           *)

\* StackWalkerInternal::Init, for what is found of dbghelp.dll and whether
\* the symbol path could be copied: the members and the blocks it leaves.
InitDbgHelp(w, found, copied) ==
    CASE found # "complete" -> w
      [] found = "complete" /\ ~copied ->
            [w EXCEPT !.held = @ \cup {"dbghelp"}, !.ready = @ \cup {"dbghelp"}]
      [] OTHER ->
            [w EXCEPT !.held = @ \cup {"dbghelp"}, !.ready = @ \cup {"dbghelp"},
                      !.path = TRUE]

\* Mutant: the handle of a library that was freed is kept.
InitTH32_Kept(w, found) ==
    CASE found = "complete" ->
            [w EXCEPT !.held = @ \cup {"toolhelp"}, !.ready = @ \cup {"toolhelp"}]
      [] found = "partial" -> [w EXCEPT !.held = @ \cup {"toolhelp"}]
      [] OTHER -> w

\* InitTH32 forgets a library that lacks an entry point.
InitTH32(w, found) ==
    IF found = "complete"
    THEN [w EXCEPT !.held = @ \cup {"toolhelp"}, !.ready = @ \cup {"toolhelp"}]
    ELSE w

\* InitPSAPI frees such a library as well, and keeps its handle.
InitPSAPI(w, found) ==
    CASE found = "complete" ->
            [w EXCEPT !.held = @ \cup {"psapi"}, !.ready = @ \cup {"psapi"}]
      [] found = "partial" -> [w EXCEPT !.held = @ \cup {"psapi"}]
      [] OTHER -> w

\* InitLoadingOfModules.
InitLoadingOfModules(w, th, ps) == InitPSAPI(InitTH32(w, th), ps)

\* What StackWalker::Initialize leaves of a walker, for the answers of the
\* foreign functions.  It gives up without a path buffer, without dbghelp,
\* and with neither toolhelp nor psapi.
Initialized(w, buffer, dbg, copied, th, ps) ==
    LET w1 == InitDbgHelp(w, dbg, copied)
        w2 == InitLoadingOfModules(w1, th, ps)
    IN  CASE ~ldr \/ ~w.exists \/ ~buffer -> w
          [] ~w1.path -> w1
          [] w2.ready \cap {"toolhelp", "psapi"} = {} -> w2
          [] OTHER -> [w2 EXCEPT !.initialized = TRUE]

\* Blocks the members of a walker point to.
Owned(w) == (IF w.exists THEN 1 ELSE 0) + (IF w.path THEN 1 ELSE 0)

\* The constructor and Initialize.  The path buffer and what AddLoadedModules
\* allocates is freed again before they return.
MakeWalker ==
    \E ok, exists, buffer, copied \in BOOLEAN,
       dbg, th, ps \in {"absent", "partial", "complete"} :
        LET w == [NoWalker EXCEPT !.exists = exists]
            i == Initialized(w, buffer, dbg, copied, th, ps)
        IN  /\ (exists \/ buffer \/ copied) => ok
            /\ loader.owner = NoThread
            /\ sw' = i
            /\ heap' = [ok |-> ok, live |-> Owned(i), lost |-> 0]
            /\ libs' = [l \in Library |-> IF l \in i.ready THEN 1 ELSE 0]
            /\ isLocked' = FALSE
            /\ UNCHANGED <<stack, loader, ldr>>

\* ~StackWalkerInternal and the deleter of m_sw: every library whose handle is
\* not NULL is freed, then the blocks of the members.
DestroyWalker ==
    /\ libs' = [l \in Library |-> IF l \in sw.held THEN libs[l] - 1 ELSE libs[l]]
    /\ heap' = [heap EXCEPT !.live = @ - Owned(sw)]
    /\ sw' = NoWalker
    /\ UNCHANGED <<stack, loader, isLocked, ldr>>

-----------------------------------------------------------------------------
(* ShowCallstack, one action per stage.  A stage ends where foreign code is *)
(* called, so that an exception can be raised with what the activation      *)
(* holds at that moment.                                                    *)

ShowLock(t) ==
    /\ At(t, {"show"}, "lock")
    /\ lock(t)
    /\ Goto(t, "test")
    /\ UNCHANGED <<ldr, heap, libs, sw>>

ShowTest(t) ==
    /\ At(t, {"show"}, "test")
    /\ Goto(t, IF sw.initialized /\ isLocked THEN "th32" ELSE "unlock")
    /\ UNCHANGED <<loader, isLocked, ldr, heap, libs, sw>>

\* GetModuleListTH32 up to Module32First.
Snapshot(t) ==
    /\ At(t, {"show"}, "th32")
    /\ \/ Goto(t, "psapi")      \* not ready, or the snapshot fails
       \/ /\ "toolhelp" \in sw.ready
          /\ \E n \in 0..MaxModules :
                Become(t, [Top(t) EXCEPT !.at = "th32loop", !.snap = TRUE,
                                         !.left = n, !.cnt = n > 0])
    /\ UNCHANGED <<loader, isLocked, ldr, heap, libs, sw>>

\* LoadModule up to SymLoadModule64: copies of the two names, and the buffer
\* of GetModuleInfo.
LoadModule(t) ==
    /\ \E at \in {"th32loop", "psapiloop"} : At(t, {"show"}, at)
    /\ Top(t).left > 0 /\ Top(t).strings = 0
    /\ \E n \in Allocate(3) :
        /\ InUse(n)
        /\ Become(t, [Top(t) EXCEPT !.mine = @ + n, !.strings = n,
                                    !.left = @ - 1])
    /\ UNCHANGED <<loader, isLocked, ldr, libs, sw>>

\* The rest of LoadModule and of GetModuleInfo: the blocks are freed on every
\* path.
ModuleLoaded(t) ==
    /\ \E at \in {"th32loop", "psapiloop"} : At(t, {"show"}, at)
    /\ Top(t).strings > 0
    /\ InUse(-Top(t).strings)
    /\ Become(t, [Top(t) EXCEPT !.mine = @ - Top(t).strings, !.strings = 0])
    /\ UNCHANGED <<loader, isLocked, ldr, libs, sw>>

\* CloseHandle, and toolhelp has answered if it listed a module.
SnapshotEnds(t) ==
    /\ At(t, {"show"}, "th32loop")
    /\ Top(t).left = 0 /\ Top(t).strings = 0
    /\ Become(t, [Top(t) EXCEPT !.at = IF Top(t).cnt THEN "after" ELSE "psapi",
                                !.snap = FALSE])
    /\ UNCHANGED <<loader, isLocked, ldr, heap, libs, sw>>

\* GetModuleListPSAPI up to EnumProcessModules.
EnumModules(t) ==
    /\ At(t, {"show"}, "psapi")
    /\ \/ /\ ~({"psapi"} \subseteq sw.ready \cap sw.held)
          /\ Goto(t, "after")
          /\ UNCHANGED heap
       \/ /\ {"psapi"} \subseteq sw.ready \cap sw.held
          /\ \E n \in Allocate(3) :
                /\ InUse(n)
                /\ \/ Become(t, [Top(t) EXCEPT !.at = "psapifree", !.mine = n])
                   \/ /\ n = 3
                      /\ \E m \in 0..MaxModules :
                            Become(t, [Top(t) EXCEPT !.at = "psapiloop",
                                                     !.mine = n, !.left = m])
    /\ UNCHANGED <<loader, isLocked, ldr, libs, sw>>

EnumEnds(t) ==
    /\ At(t, {"show"}, "psapiloop")
    /\ Top(t).left = 0 /\ Top(t).strings = 0
    /\ Goto(t, "psapifree")
    /\ UNCHANGED <<loader, isLocked, ldr, heap, libs, sw>>

\* Mutant: the function returns without its label cleanup.
FreeEnumBuffers_Skipped(t) ==
    /\ At(t, {"show"}, "psapifree")
    /\ Become(t, [Top(t) EXCEPT !.at = "after", !.mine = 0])
    /\ UNCHANGED <<loader, isLocked, ldr, heap, libs, sw>>

\* The label cleanup of GetModuleListPSAPI.
FreeEnumBuffers(t) ==
    /\ At(t, {"show"}, "psapifree")
    /\ InUse(-Top(t).mine)
    /\ Become(t, [Top(t) EXCEPT !.at = "after", !.mine = 0])
    /\ UNCHANGED <<loader, isLocked, ldr, libs, sw>>

\* OnAfterLoadModules and the test for dbghelp.
AfterLoadModules(t) ==
    /\ At(t, {"show"}, "after")
    /\ Goto(t, IF "dbghelp" \in sw.held THEN "sym" ELSE "unlock")
    /\ UNCHANGED <<loader, isLocked, ldr, heap, libs, sw>>

\* The context of the calling thread is captured and pSym allocated.
AllocateSymbol(t) ==
    /\ At(t, {"show"}, "sym")
    /\ \E n \in Allocate(1) :
        /\ InUse(n)
        /\ \E d \in 0..StackDepth :
             Become(t, [Top(t) EXCEPT !.at = IF n = 1 THEN "walk" ELSE "cleanup",
                                      !.mine = n, !.left = d])
    /\ UNCHANGED <<loader, isLocked, ldr, libs, sw>>

\* StackWalk64 fails, or the same address came back too often.
WalkStops(t) ==
    /\ At(t, {"show"}, "walk")
    /\ Goto(t, "cleanup")
    /\ UNCHANGED <<loader, isLocked, ldr, heap, libs, sw>>

\* Mutant: the count of equal addresses is tested one too late.
WalkFrame_Late(t) ==
    /\ At(t, {"show"}, "walk")
    /\ \E same, final \in BOOLEAN, n \in Allocate(1) :
        /\ same => Top(t).rec <= MaxRecursionCount + 1
        /\ ~same => Top(t).left > 0
        /\ InUse(n)
        /\ Become(t, [Top(t) EXCEPT
                        !.at = "entry", !.mine = @ + n, !.final = final,
                        !.rec = IF same THEN @ + 1 ELSE 0,
                        !.left = IF same THEN @ ELSE @ - 1])
    /\ UNCHANGED <<loader, isLocked, ldr, libs, sw>>

\* Mutant: equal addresses are not counted.
WalkFrame_Endless(t) ==
    /\ At(t, {"show"}, "walk")
    /\ \E same, final \in BOOLEAN, n \in Allocate(1) :
        /\ ~same => Top(t).left > 0
        /\ InUse(n)
        /\ Become(t, [Top(t) EXCEPT
                        !.at = "entry", !.mine = @ + n, !.final = final,
                        !.left = IF same THEN @ ELSE @ - 1])
    /\ UNCHANGED <<loader, isLocked, ldr, libs, sw>>

\* StackWalk64 returns a frame: one that returns to its own address (any
\* number of them, on a broken stack), a further one, or the outermost one.
\* The buffer of GetModuleInfo is allocated while the symbols are looked up.
WalkFrame(t) ==
    /\ At(t, {"show"}, "walk")
    /\ \E same, final \in BOOLEAN, n \in Allocate(1) :
        /\ same => Top(t).rec <= MaxRecursionCount
        /\ ~same => Top(t).left > 0
        /\ InUse(n)
        /\ Become(t, [Top(t) EXCEPT
                        !.at = "entry", !.mine = @ + n, !.final = final,
                        !.rec = IF same THEN @ + 1 ELSE 0,
                        !.left = IF same THEN @ ELSE @ - 1])
    /\ UNCHANGED <<loader, isLocked, ldr, libs, sw>>

\* The entry is shown; after the outermost frame the last entry as well.
ShowEntry(t) ==
    /\ At(t, {"show"}, "entry")
    /\ InUse(1 - Top(t).mine)
    /\ Become(t, [Top(t) EXCEPT
                    !.at = IF Top(t).final THEN "cleanup" ELSE "walk",
                    !.mine = 1, !.shown = TRUE,
                    !.last = IF Top(t).final THEN @ + 1 ELSE @])
    /\ UNCHANGED <<loader, isLocked, ldr, libs, sw>>

\* Mutant: the last entry is announced whether the loop did so or not.
Cleanup_Again(t) ==
    /\ At(t, {"show"}, "cleanup")
    /\ InUse(-Top(t).mine)
    /\ Become(t, [Top(t) EXCEPT
                    !.at = "unlock", !.mine = 0,
                    !.last = IF Top(t).shown THEN @ + 1 ELSE @])
    /\ UNCHANGED <<loader, isLocked, ldr, libs, sw>>

\* The label cleanup: pSym is freed, and the last entry announced unless the
\* loop did (bLastEntryCalled is true before the first entry).
Cleanup(t) ==
    /\ At(t, {"show"}, "cleanup")
    /\ InUse(-Top(t).mine)
    /\ Become(t, [Top(t) EXCEPT
                    !.at = "unlock", !.mine = 0,
                    !.last = IF Top(t).shown /\ ~Top(t).final THEN @ + 1 ELSE @])
    /\ UNCHANGED <<loader, isLocked, ldr, libs, sw>>

ShowReturns(t) ==
    /\ At(t, {"show"}, "unlock")
    /\ unlock
    /\ stack' = [stack EXCEPT ![t] = Below(t)]
    /\ UNCHANGED <<ldr, heap, libs, sw>>

ShowCallstack(t) ==
    \/ ShowLock(t) \/ ShowTest(t) \/ Snapshot(t) \/ LoadModule(t)
    \/ ModuleLoaded(t) \/ SnapshotEnds(t) \/ EnumModules(t) \/ EnumEnds(t)
    \/ FreeEnumBuffers(t) \/ AfterLoadModules(t) \/ AllocateSymbol(t)
    \/ WalkStops(t) \/ WalkFrame(t) \/ ShowEntry(t) \/ Cleanup(t)
    \/ ShowReturns(t)

\* The points of ShowCallstack at which foreign code runs.
WalkerCallsOut ==
    {"th32", "th32loop", "psapi", "psapiloop", "after", "walk", "entry"}
=============================================================================
