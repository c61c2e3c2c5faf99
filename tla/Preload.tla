------------------------------ MODULE Preload ------------------------------
(***************************************************************************)
(* The allocation tracker that libpreload.so puts between a program and    *)
(* libc: the malloc/free/realloc hooks and zl_malloc_b/zl_free_b of        *)
(* memCount/src/preload.cpp, CCount::insert, remove, start and stop of     *)
(* memCount/src/count.h and count.cpp, and the thread that rereads the     *)
(* parameter file (autoReadParam, readNumberFromFile).                     *)
(*                                                                         *)
(* A hook is a walk of its thread through the labels of pc, one shared     *)
(* access per step.  The sections under sm_mutex (start, insert, remove)   *)
(* are single steps: nothing in them waits, and everything that touches    *)
(* the maps takes that mutex.  What a hook allocates itself (map nodes)    *)
(* goes straight to libc, because the thread-specific key                  *)
(* sg_isNeedCallRealMalloc is set while the hook runs.                     *)
(***************************************************************************)
EXTENDS Integers, Sequences

CONSTANTS
  Thread,       \* the application's threads
  NoThread,     \* allocator of a free address
  Addr,         \* the addresses libc hands out
  Size,         \* chunk sizes, as read from the chunk's header
  FirstParam,   \* what the parameter file holds at first
  Edits,        \* the pairs <<old, new>> of contents an edit may replace
  Garbage       \* what an uninitialised size_t may hold

ParamFile == {FirstParam} \cup {e[2] : e \in Edits}

ASSUME ConstantsAssumption ==
  /\ NoThread \notin Thread
  /\ Size \subseteq Nat \ {0}
  /\ Edits \subseteq Seq(Nat) \X Seq(Nat)
  /\ FirstParam \in Seq(Nat)
  /\ Garbage \subseteq Nat /\ Garbage # {}

VARIABLES
  size,         \* libc: size of the chunk at an address, 0 if it is free
  by,           \* libc: the thread that allocated it (history)
  owned,        \* the blocks the application holds and may free
  ptr,          \* the block a thread's hook works on
  op,           \* "realloc" while a thread is in realloc's release, else "free"
  pc,           \* where a thread is in its hook
  memMap,       \* sm_threadMemMap[tid][key], 0 for no entry
  named,        \* the domain of sm_threadNameMap
  gCountStart,  \* g_count_start
  sgCountInit,  \* sg_count_init
  bStart,       \* sm_bStart
  minSize,      \* sm_minSize
  maxSize,      \* sm_maxSize
  memParam,     \* contents of the parameter file
  param,        \* the locals of readNumberFromFile
  paramPc,      \* where the parameter thread is
  counted,      \* history: live blocks inserted since the last switch-on
  forgotten,    \* history: live blocks whose realloc failed
  stopped,      \* history: stop() has run since the last switch-on
  settled       \* history: that switch-on found the session before it over

heapVars  == <<size, by>>
callVars  == <<ptr, op>>
mapVars   == <<memMap, named>>
flagVars  == <<gCountStart, sgCountInit, bStart>>
paramVars == <<minSize, maxSize, memParam, param, paramPc>>
histVars  == <<counted, forgotten, stopped, settled>>
vars == <<heapVars, owned, callVars, pc, mapVars, flagVars, paramVars, histVars>>

-----------------------------------------------------------------------------

Free == {a \in Addr : size[a] = 0}

Holders(a) == {u \in Thread : memMap[u][a] # 0}

Tracked(a) == Holders(a) # {}

\* insert and remove return early for a size outside the configured range.
FilteredOut(s) ==
  \/ minSize # 0 /\ s < minSize
  \/ maxSize # 0 /\ s >= maxSize

Goto(t, label) == pc' = [pc EXCEPT ![t] = label]

\* The hook returns a block to the application.
Return(t) == Goto(t, "idle") /\ owned' = owned \cup {ptr[t]}

-----------------------------------------------------------------------------
(* The application calls malloc, free or realloc. *)

\* malloc, calloc and realloc(NULL): libc allocates first.  A failed call
\* hands NULL to zl_malloc_b, which changes nothing.
Malloc(t) ==
  /\ pc[t] = "idle"
  /\ \E a \in Free, s \in Size :
       /\ size' = [size EXCEPT ![a] = s]
       /\ by'   = [by EXCEPT ![a] = t]
       /\ ptr'  = [ptr EXCEPT ![t] = a]
  /\ Goto(t, "mb_enabled")
  /\ UNCHANGED <<owned, op, mapVars, flagVars, paramVars, histVars>>

\* Any thread may release any block the application holds.
Release(t, kind) ==
  /\ pc[t] = "idle"
  /\ \E a \in owned :
       /\ owned' = owned \ {a}
       /\ ptr'   = [ptr EXCEPT ![t] = a]
  /\ op' = [op EXCEPT ![t] = kind]
  /\ Goto(t, "fb_init")
  /\ UNCHANGED <<heapVars, mapVars, flagVars, paramVars, histVars>>

FreeCall(t) == Release(t, "free")

\* Mutant: the realloc hook without its call of zl_free_b.
ReallocUntracked(t) ==
  /\ pc[t] = "idle"
  /\ \E a \in owned :
       /\ owned' = owned \ {a}
       /\ ptr'   = [ptr EXCEPT ![t] = a]
  /\ op' = [op EXCEPT ![t] = "realloc"]
  /\ Goto(t, "release")
  /\ UNCHANGED <<heapVars, mapVars, flagVars, paramVars, histVars>>

ReallocCall(t) == Release(t, "realloc")

-----------------------------------------------------------------------------
(* zl_malloc_b: tracking of a new block. *)

MallocEnabled(t) ==
  /\ pc[t] = "mb_enabled"
  /\ \/ gCountStart # 0 /\ Goto(t, "mb_init") /\ UNCHANGED owned
     \/ gCountStart = 0 /\ Return(t)
  /\ UNCHANGED <<heapVars, callVars, mapVars, flagVars, paramVars, histVars>>

MallocInit(t) ==
  /\ pc[t] = "mb_init"
  /\ Goto(t, IF sgCountInit = 0 THEN "start" ELSE "ins_filter")
  /\ UNCHANGED <<heapVars, owned, callVars, mapVars, flagVars, paramVars, histVars>>

ClearMaps ==
  /\ memMap' = [u \in Thread |-> [a \in Addr |-> 0]]
  /\ named'  = {}

\* Mutant: start without its sm_bStart test.
StartAnyway(t) ==
  /\ pc[t] = "start"
  /\ bStart' = TRUE
  /\ ClearMaps
  /\ Goto(t, "set_init")
  /\ UNCHANGED <<heapVars, owned, callVars, gCountStart, sgCountInit, paramVars, histVars>>

\* Mutant: start keeps the entries of the session before.
StartKeeps(t) ==
  /\ pc[t] = "start"
  /\ bStart' = TRUE
  /\ Goto(t, "set_init")
  /\ UNCHANGED <<heapVars, owned, callVars, mapVars, gCountStart, sgCountInit, paramVars,
                 histVars>>

\* CCount::start under sm_mutex: only the caller that finds the tracker
\* stopped clears the maps.
Start(t) ==
  /\ pc[t] = "start"
  /\ \/ bStart /\ UNCHANGED <<bStart, mapVars>>
     \/ ~bStart /\ bStart' = TRUE /\ ClearMaps
  /\ Goto(t, "set_init")
  /\ UNCHANGED <<heapVars, owned, callVars, gCountStart, sgCountInit, paramVars, histVars>>

SetInit(t) ==
  /\ pc[t] = "set_init"
  /\ sgCountInit' = 1
  /\ Goto(t, "ins_filter")
  /\ UNCHANGED <<heapVars, owned, callVars, mapVars, gCountStart, bStart, paramVars, histVars>>

InsertFilter(t) ==
  /\ pc[t] = "ins_filter"
  /\ \/ FilteredOut(size[ptr[t]]) /\ Return(t)
     \/ ~FilteredOut(size[ptr[t]]) /\ Goto(t, "insert") /\ UNCHANGED owned
  /\ UNCHANGED <<heapVars, callVars, mapVars, flagVars, paramVars, histVars>>

\* CCount::insert under sm_mutex.
Insert(t) ==
  /\ pc[t] = "insert"
  /\ memMap'  = [memMap EXCEPT ![t][ptr[t]] = size[ptr[t]]]
  /\ named'   = named \cup {t}
  /\ counted' = counted \cup {ptr[t]}
  /\ Return(t)
  /\ UNCHANGED <<heapVars, callVars, flagVars, paramVars, forgotten, stopped, settled>>

-----------------------------------------------------------------------------
(* zl_free_b: a block is about to be released. *)

FreeInit(t) ==
  /\ pc[t] = "fb_init"
  /\ Goto(t, IF sgCountInit # 0 THEN "fb_enabled" ELSE "release")
  /\ UNCHANGED <<heapVars, owned, callVars, mapVars, flagVars, paramVars, histVars>>

FreeEnabled(t) ==
  /\ pc[t] = "fb_enabled"
  /\ Goto(t, IF gCountStart # 0 THEN "rem_filter" ELSE "clear_init")
  /\ UNCHANGED <<heapVars, owned, callVars, mapVars, flagVars, paramVars, histVars>>

RemoveFilter(t) ==
  /\ pc[t] = "rem_filter"
  /\ Goto(t, IF FilteredOut(size[ptr[t]]) THEN "release" ELSE "remove")
  /\ UNCHANGED <<heapVars, owned, callVars, mapVars, flagVars, paramVars, histVars>>

\* Mutant: the name goes with any entry of its thread.
EraseName(u, a) ==
  /\ memMap' = [memMap EXCEPT ![u][a] = 0]
  /\ named'  = named \ {u}

\* The entry goes; with its thread's last entry the thread's name goes too.
\* The name is erased by a key read from the map node just freed: in a build
\* that overwrites freed memory the read misses and the name stays.
Erase(u, a) ==
  /\ memMap' = [memMap EXCEPT ![u][a] = 0]
  /\ named'  \in IF \A b \in Addr \ {a} : memMap[u][b] = 0
                   THEN {named, named \ {u}} ELSE {named}

\* Mutant: only the releasing thread's own map is searched.
FoundOwn(t) == Holders(ptr[t]) \cap {t}

\* CCount::remove under sm_mutex: the thread's own map is searched first.
Found(t) == IF t \in Holders(ptr[t]) THEN {t} ELSE Holders(ptr[t])

Remove(t) ==
  /\ pc[t] = "remove"
  /\ \/ Found(t) = {} /\ UNCHANGED mapVars
     \/ \E u \in Found(t) : Erase(u, ptr[t])
  /\ Goto(t, "release")
  /\ UNCHANGED <<heapVars, owned, callVars, flagVars, paramVars, histVars>>

\* The first release after the switch-off ends the session.
ClearInit(t) ==
  /\ pc[t] = "clear_init"
  /\ sgCountInit' = 0
  /\ Goto(t, "stop")
  /\ UNCHANGED <<heapVars, owned, callVars, mapVars, gCountStart, bStart, paramVars, histVars>>

\* CCount::stop: the reports read the map, then the flag falls.
Stop(t) ==
  /\ pc[t] = "stop"
  /\ bStart' = FALSE
  /\ stopped' = TRUE
  /\ Goto(t, "release")
  /\ UNCHANGED <<heapVars, owned, callVars, mapVars, gCountStart, sgCountInit, paramVars,
                 counted, forgotten, settled>>

-----------------------------------------------------------------------------
(* libc takes the block back, or reallocates it. *)

\* free, and realloc to size 0 (whose NULL result zl_malloc_b ignores).
LibcFree(t) ==
  /\ pc[t] = "release"
  /\ size' = [size EXCEPT ![ptr[t]] = 0]
  /\ by'   = [by EXCEPT ![ptr[t]] = NoThread]
  /\ counted'   = counted \ {ptr[t]}
  /\ forgotten' = forgotten \ {ptr[t]}
  /\ op' = [op EXCEPT ![t] = "free"]
  /\ Goto(t, "idle")
  /\ UNCHANGED <<owned, ptr, mapVars, flagVars, paramVars, stopped, settled>>

\* realloc in place or to a new address; the result is a new block.
LibcRealloc(t) ==
  /\ pc[t] = "release" /\ op[t] = "realloc"
  /\ \E b \in Free \cup {ptr[t]}, s \in Size :
       /\ size' = [size EXCEPT ![ptr[t]] = 0, ![b] = s]
       /\ by'   = [by EXCEPT ![ptr[t]] = NoThread, ![b] = t]
       /\ ptr'  = [ptr EXCEPT ![t] = b]
  /\ counted'   = counted \ {ptr[t]}
  /\ forgotten' = forgotten \ {ptr[t]}
  /\ op' = [op EXCEPT ![t] = "free"]
  /\ Goto(t, "mb_enabled")
  /\ UNCHANGED <<owned, mapVars, flagVars, paramVars, stopped, settled>>

\* realloc fails: the application keeps the block, zl_malloc_b gets NULL.
LibcReallocFails(t) ==
  /\ pc[t] = "release" /\ op[t] = "realloc"
  /\ forgotten' = forgotten \cup {ptr[t]}
  /\ op' = [op EXCEPT ![t] = "free"]
  /\ Return(t)
  /\ UNCHANGED <<heapVars, ptr, mapVars, flagVars, paramVars, counted, stopped, settled>>

-----------------------------------------------------------------------------
(* The parameter thread, and whoever edits the file it reads. *)

EditFile ==
  /\ \E e \in Edits : e[1] = memParam /\ memParam' = e[2]
  /\ UNCHANGED <<heapVars, owned, callVars, pc, mapVars, flagVars, histVars,
                 minSize, maxSize, param, paramPc>>

\* sscanf leaves the fields the file does not have as they were: start at 0,
\* minSize and maxSize uninitialised.
Parsed(f) ==
  {[start |-> IF Len(f) > 0 THEN f[1] ELSE 0,
    min   |-> IF Len(f) > 2 THEN f[3] ELSE lo,
    max   |-> IF Len(f) > 3 THEN f[4] ELSE hi] : lo, hi \in Garbage}

ReadFile ==
  /\ paramPc = "sleep"
  /\ param' \in Parsed(memParam)
  /\ paramPc' = "enable"
  /\ UNCHANGED <<heapVars, owned, callVars, pc, mapVars, flagVars, histVars,
                 minSize, maxSize, memParam>>

\* Mutant: the number read becomes the switch, whatever it is.
RawEnable ==
  /\ paramPc = "enable"
  /\ gCountStart' = param.start
  /\ paramPc' = "min"
  /\ UNCHANGED <<heapVars, owned, callVars, pc, mapVars, sgCountInit, bStart, histVars,
                 minSize, maxSize, memParam, param>>

\* The session before is over: a release has taken sg_count_init back, and no
\* hook is on its way to set it, to insert, or to stop.
Settled ==
  /\ sgCountInit = 0
  /\ \A t \in Thread :
       pc[t] \notin {"set_init", "ins_filter", "insert", "clear_init", "stop"}

\* The switch flips whatever the hooks are doing.
SetEnable ==
  /\ paramPc = "enable"
  /\ gCountStart' = IF param.start = 1 THEN 1 ELSE 0
  /\ IF gCountStart = 0 /\ gCountStart' # 0
       THEN counted' = {} /\ stopped' = FALSE /\ settled' = Settled
       ELSE UNCHANGED <<counted, stopped, settled>>
  /\ paramPc' = "min"
  /\ UNCHANGED <<heapVars, owned, callVars, pc, mapVars, sgCountInit, bStart, forgotten,
                 minSize, maxSize, memParam, param>>

SetMin ==
  /\ paramPc = "min"
  /\ minSize' = IF param.min # 0 THEN param.min ELSE minSize
  /\ paramPc' = "max"
  /\ UNCHANGED <<heapVars, owned, callVars, pc, mapVars, flagVars, histVars,
                 maxSize, memParam, param>>

\* The locals are gone once readNumberFromFile returns.
NoParam == [start |-> 0, min |-> 0, max |-> 0]

SetMax ==
  /\ paramPc = "max"
  /\ maxSize' = IF param.max # 0 THEN param.max ELSE maxSize
  /\ paramPc' = "sleep"
  /\ param' = NoParam
  /\ UNCHANGED <<heapVars, owned, callVars, pc, mapVars, flagVars, histVars,
                 minSize, memParam>>

-----------------------------------------------------------------------------

Init ==
  /\ size = [a \in Addr |-> 0]
  /\ by = [a \in Addr |-> NoThread]
  /\ owned = {}
  /\ ptr \in [Thread -> Addr]
  /\ op = [t \in Thread |-> "free"]
  /\ pc = [t \in Thread |-> "idle"]
  /\ memMap = [t \in Thread |-> [a \in Addr |-> 0]]
  /\ named = {}
  /\ gCountStart = 0
  /\ sgCountInit = 0
  /\ bStart = FALSE
  /\ minSize = 0
  /\ maxSize = 0
  /\ memParam = FirstParam
  /\ param = NoParam
  /\ paramPc = "sleep"
  /\ counted = {}
  /\ forgotten = {}
  /\ stopped = FALSE
  /\ settled = TRUE

Call(t) == Malloc(t) \/ FreeCall(t) \/ ReallocCall(t)

Hook(t) ==
  \/ MallocEnabled(t) \/ MallocInit(t) \/ Start(t) \/ SetInit(t)
  \/ InsertFilter(t) \/ Insert(t)
  \/ FreeInit(t) \/ FreeEnabled(t) \/ RemoveFilter(t) \/ Remove(t)
  \/ ClearInit(t) \/ Stop(t)
  \/ LibcFree(t) \/ LibcRealloc(t) \/ LibcReallocFails(t)

ParamThread == ReadFile \/ SetEnable \/ SetMin \/ SetMax

Next == (\E t \in Thread : Call(t) \/ Hook(t)) \/ ParamThread \/ EditFile

Spec == Init /\ [][Next]_vars

-----------------------------------------------------------------------------

\* Every variable has its type: the enable flag is 0 or 1 whatever number the
\* file holds, and every map entry is a size that libc reported.
TypeOK ==
  /\ size \in [Addr -> Size \cup {0}]
  /\ by \in [Addr -> Thread \cup {NoThread}]
  /\ owned \subseteq Addr
  /\ ptr \in [Thread -> Addr]
  /\ op \in [Thread -> {"free", "realloc"}]
  /\ pc \in [Thread -> {"idle", "mb_enabled", "mb_init", "start", "set_init",
                        "ins_filter", "insert", "fb_init", "fb_enabled",
                        "rem_filter", "remove", "clear_init", "stop", "release"}]
  /\ memMap \in [Thread -> [Addr -> Size \cup {0}]]
  /\ named \subseteq Thread
  /\ gCountStart \in {0, 1}
  /\ sgCountInit \in {0, 1}
  /\ bStart \in BOOLEAN
  /\ minSize \in Nat
  /\ maxSize \in Nat
  /\ memParam \in ParamFile
  /\ param \in [start : Nat, min : Nat, max : Nat]
  /\ paramPc \in {"sleep", "enable", "min", "max"}
  /\ counted \subseteq Addr
  /\ forgotten \subseteq Addr
  /\ stopped \in BOOLEAN
  /\ settled \in BOOLEAN

\* While a session is on that was switched on after the one before it was
\* over, an entry of the maps is a block that is allocated now, under the
\* thread that allocated it, with the size it has: a block in the report is
\* never one that was released, and never counted twice.
ExactAttribution ==
  gCountStart = 1 /\ sgCountInit = 1 /\ settled =>
    \A u \in Thread, a \in Addr :
      memMap[u][a] # 0 => size[a] = memMap[u][a] /\ by[a] = u

\* Until the first stop() of such a session has written its reports, every
\* block that was inserted and not yet released is in the maps, so the reports
\* miss no leak; a block whose realloc failed is the exception (zl_free_b
\* erased it and zl_malloc_b gets NULL).
NoMissedLeak ==
  settled /\ ~stopped =>
    \A a \in counted :
      \/ Tracked(a)
      \/ a \in forgotten
      \/ \E t \in Thread : pc[t] = "release" /\ ptr[t] = a

\* A thread with entries has its name, so that the reports can print it.
TrackedThreadNamed ==
  \A u \in Thread : (\E a \in Addr : memMap[u][a] # 0) => u \in named

\* count.h:138, of the branch that finds the block in the thread's own map:
\* "the memory released is memory this thread allocated".
OwnMapMeansOwnBlock ==
  \A t \in Thread :
    pc[t] = "remove" /\ t \in Holders(ptr[t]) => by[ptr[t]] = t
=============================================================================
