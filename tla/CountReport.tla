---------------------------- MODULE CountReport ----------------------------
(***************************************************************************)
(* The tracker's reports and the two mutexes they use: CCount::start and   *)
(* stop, the printer thread autoPrint, printMemSizeDetail and              *)
(* printMemDetail of memCount/src/count.cpp, with the hooks of preload.cpp *)
(* that lead to them.                                                      *)
(*                                                                         *)
(* A thread has two frames.  "base" is its own code: the application's, or *)
(* autoPrint and what it calls.  "hook" is the malloc or free hook it is   *)
(* in, if any; while that runs the thread-specific key sends nested        *)
(* allocations straight to libc, so there is no third frame.  The reports  *)
(* run in either frame: autoPrint calls them in "base", where the mallocs  *)
(* and frees of fopen, fclose and the map nodes are hooked like any other; *)
(* a free hook that ends the session calls them in "hook".                 *)
(*                                                                         *)
(* The maps' contents are left out (see Preload): what is kept is who      *)
(* holds a mutex, who iterates over the maps and who clears them.          *)
(***************************************************************************)
EXTENDS Integers

CONSTANTS
  App,          \* the application's threads
  Printer,      \* threads that pthread_create may make run autoPrint
  Nobody,       \* holder of a free mutex
  MaxFlips,     \* bound: how often the enable switch flips
  OpenMayFail   \* whether fopen may return NULL

Thread == App \cup Printer

ASSUME ReportAssumption ==
  /\ App \cap Printer = {}
  /\ Nobody \notin Thread
  /\ MaxFlips \in Nat
  /\ OpenMayFail \in BOOLEAN

VARIABLES
  pc,           \* label of each frame of each thread
  smHeld,       \* how often each thread holds sm_mutex, which is recursive
  fileHolder,   \* holder of s_fileMutex, which is not
  gCountStart,  \* g_count_start
  sgCountInit,  \* sg_count_init
  bStart,       \* sm_bStart
  smTid,        \* sm_tid is set
  bStop,        \* the static bStop of autoPrint
  flips         \* switch flips so far

lockVars == <<smHeld, fileHolder>>
flagVars == <<gCountStart, sgCountInit, bStart, smTid, bStop, flips>>
vars == <<pc, lockVars, flagVars>>

-----------------------------------------------------------------------------
(* Frames, calls and locks. *)

\* The frame f of t is at a label and is the one that runs.
At(f, t, label) ==
  pc[f][t] = label /\ (f = "base" => pc["hook"][t] = "out")

Goto(f, t, label) == pc' = [pc EXCEPT ![f][t] = label]

\* Go on at label after a call of malloc or free: in "base" the hook runs
\* first, in "hook" libc is called directly.
Calling(entry, f, t, label) ==
  pc' = IF f = "base"
          THEN [pc EXCEPT !["base"][t] = label, !["hook"][t] = entry]
          ELSE [pc EXCEPT !["hook"][t] = label]

CallingMalloc(f, t, label) == Calling("m_enabled", f, t, label)
CallingFree(f, t, label)   == Calling("f_init", f, t, label)

SmAvailable(t) == \A u \in Thread \ {t} : smHeld[u] = 0

LockSm(t) ==
  /\ SmAvailable(t)
  /\ smHeld' = [smHeld EXCEPT ![t] = @ + 1]

UnlockSm(t) == smHeld' = [smHeld EXCEPT ![t] = @ - 1]

-----------------------------------------------------------------------------
(* The hooks.  The sections of start, insert and remove under sm_mutex are *)
(* single steps that need the mutex; nothing in them waits.                *)

Malloc(t) ==
  /\ At("base", t, "app") /\ CallingMalloc("base", t, "app")
  /\ UNCHANGED <<lockVars, flagVars>>

Free(t) ==
  /\ At("base", t, "app") /\ CallingFree("base", t, "app")
  /\ UNCHANGED <<lockVars, flagVars>>

MallocEnabled(t) ==
  /\ At("hook", t, "m_enabled")
  /\ Goto("hook", t, IF gCountStart # 0 THEN "m_init" ELSE "out")
  /\ UNCHANGED <<lockVars, flagVars>>

MallocInit(t) ==
  /\ At("hook", t, "m_init")
  /\ Goto("hook", t, IF sgCountInit = 0 THEN "start" ELSE "insert")
  /\ UNCHANGED <<lockVars, flagVars>>

\* The caller that finds the tracker stopped clears the maps.
Start(t) ==
  /\ At("hook", t, "start") /\ SmAvailable(t)
  /\ bStart' = TRUE
  /\ Goto("hook", t, IF bStart THEN "set_init" ELSE "create")
  /\ UNCHANGED <<lockVars, gCountStart, sgCountInit, smTid, bStop, flips>>

\* sm_tid is tested outside the mutex, and set after pthread_create.
CreatePrinter(t) ==
  /\ At("hook", t, "create")
  /\ \/ smTid /\ Goto("hook", t, "set_init")
     \/ /\ ~smTid
        /\ \E p \in Printer :
             /\ pc["base"][p] = "unborn"
             /\ pc' = [pc EXCEPT !["base"][p] = "ap_sleep", !["hook"][t] = "set_tid"]
  /\ UNCHANGED <<lockVars, flagVars>>

SetTid(t) ==
  /\ At("hook", t, "set_tid")
  /\ smTid' = TRUE
  /\ Goto("hook", t, "set_init")
  /\ UNCHANGED <<lockVars, gCountStart, sgCountInit, bStart, bStop, flips>>

SetInit(t) ==
  /\ At("hook", t, "set_init")
  /\ sgCountInit' = 1
  /\ Goto("hook", t, "insert")
  /\ UNCHANGED <<lockVars, gCountStart, bStart, smTid, bStop, flips>>

Insert(t) ==
  /\ At("hook", t, "insert") /\ SmAvailable(t)
  /\ Goto("hook", t, "out")
  /\ UNCHANGED <<lockVars, flagVars>>

FreeInit(t) ==
  /\ At("hook", t, "f_init")
  /\ Goto("hook", t, IF sgCountInit # 0 THEN "f_enabled" ELSE "out")
  /\ UNCHANGED <<lockVars, flagVars>>

FreeEnabled(t) ==
  /\ At("hook", t, "f_enabled")
  /\ Goto("hook", t, IF gCountStart # 0 THEN "remove" ELSE "clear_init")
  /\ UNCHANGED <<lockVars, flagVars>>

Remove(t) ==
  /\ At("hook", t, "remove") /\ SmAvailable(t)
  /\ Goto("hook", t, "out")
  /\ UNCHANGED <<lockVars, flagVars>>

\* The first free after the switch-off ends the session: CCount::stop runs
\* both reports and then clears sm_bStart.
ClearInit(t) ==
  /\ At("hook", t, "clear_init")
  /\ sgCountInit' = 0
  /\ Goto("hook", t, "sd_lock")
  /\ UNCHANGED <<lockVars, gCountStart, bStart, smTid, bStop, flips>>

ClearStart(t) ==
  /\ At("hook", t, "b_stop")
  /\ bStart' = FALSE
  /\ Goto("hook", t, "out")
  /\ UNCHANGED <<lockVars, gCountStart, sgCountInit, smTid, bStop, flips>>

-----------------------------------------------------------------------------
(* printMemSizeDetail, in either frame. *)

AfterSizeDetail(f) == IF f = "base" THEN "ap_end" ELSE "md_lock"

SizeDetailLock(f, t) ==
  /\ At(f, t, "sd_lock") /\ LockSm(t)
  /\ Goto(f, t, "sd_iter")
  /\ UNCHANGED <<fileHolder, flagVars>>

\* Mutant: nodes are freed while the map is iterated.
SizeDetailFrees(f, t) ==
  /\ At(f, t, "sd_iter") /\ CallingFree(f, t, "sd_iter")
  /\ UNCHANGED <<lockVars, flagVars>>

\* Under sm_mutex the map is iterated, and a node of threadSizeDetail is
\* allocated for each new thread and size.
SizeDetailNode(f, t) ==
  /\ At(f, t, "sd_iter") /\ CallingMalloc(f, t, "sd_iter")
  /\ UNCHANGED <<lockVars, flagVars>>

\* Mutant: sm_mutex is kept while the file is waited for and written.
SizeDetailKeepsSm(f, t) ==
  /\ At(f, t, "sd_iter") /\ Goto(f, t, "sd_flock")
  /\ UNCHANGED <<lockVars, flagVars>>

SizeDetailUnlock(f, t) ==
  /\ At(f, t, "sd_iter") /\ UnlockSm(t)
  /\ Goto(f, t, "sd_flock")
  /\ UNCHANGED <<fileHolder, flagVars>>

SizeDetailFileLock(f, t) ==
  /\ At(f, t, "sd_flock") /\ fileHolder = Nobody
  /\ fileHolder' = t
  /\ CallingMalloc(f, t, "sd_open")
  /\ UNCHANGED <<smHeld, flagVars>>

\* fopen has allocated its FILE; it fails, and frees it, or succeeds, and the
\* first output allocates the buffer.
SizeDetailOpenFails(f, t) ==
  /\ OpenMayFail
  /\ At(f, t, "sd_open") /\ CallingFree(f, t, "sd_nodes")
  /\ UNCHANGED <<lockVars, flagVars>>

SizeDetailOpens(f, t) ==
  /\ At(f, t, "sd_open") /\ CallingMalloc(f, t, "sd_close")
  /\ UNCHANGED <<lockVars, flagVars>>

\* fclose frees the buffer and the FILE.
SizeDetailClose(f, t) ==
  /\ At(f, t, "sd_close") /\ CallingFree(f, t, "sd_funlock")
  /\ UNCHANGED <<lockVars, flagVars>>

SizeDetailFileUnlock(f, t) ==
  /\ At(f, t, "sd_funlock")
  /\ fileHolder' = Nobody
  /\ Goto(f, t, "sd_nodes")
  /\ UNCHANGED <<smHeld, flagVars>>

\* The local map's nodes are freed on the way out.
SizeDetailReturn(f, t) ==
  /\ At(f, t, "sd_nodes")
  /\ \/ Goto(f, t, AfterSizeDetail(f))
     \/ CallingFree(f, t, AfterSizeDetail(f))
  /\ UNCHANGED <<lockVars, flagVars>>

-----------------------------------------------------------------------------
(* printMemDetail, which only stop() calls: under sm_mutex it opens the    *)
(* file and writes the whole map.                                          *)

MemDetailLock(t) ==
  /\ At("hook", t, "md_lock") /\ LockSm(t)
  /\ Goto("hook", t, "md_open")
  /\ UNCHANGED <<fileHolder, flagVars>>

\* Mutant: the early return forgets the mutex.
MemDetailFailsLocked(t) ==
  /\ OpenMayFail
  /\ At("hook", t, "md_open") /\ Goto("hook", t, "b_stop")
  /\ UNCHANGED <<lockVars, flagVars>>

\* Mutant: the failure branch unlocks but does not return.
MemDetailFallsThrough(t) ==
  /\ OpenMayFail
  /\ At("hook", t, "md_open") /\ UnlockSm(t)
  /\ Goto("hook", t, "md_iter")
  /\ UNCHANGED <<fileHolder, flagVars>>

MemDetailOpenFails(t) ==
  /\ OpenMayFail
  /\ At("hook", t, "md_open") /\ UnlockSm(t)
  /\ Goto("hook", t, "b_stop")
  /\ UNCHANGED <<fileHolder, flagVars>>

MemDetailOpens(t) ==
  /\ At("hook", t, "md_open") /\ Goto("hook", t, "md_iter")
  /\ UNCHANGED <<lockVars, flagVars>>

\* Mutant: the report goes on without giving sm_mutex back.
MemDetailKeepsSm(t) ==
  /\ At("hook", t, "md_iter") /\ Goto("hook", t, "b_stop")
  /\ UNCHANGED <<lockVars, flagVars>>

MemDetailUnlock(t) ==
  /\ At("hook", t, "md_iter") /\ UnlockSm(t)
  /\ Goto("hook", t, "b_stop")
  /\ UNCHANGED <<fileHolder, flagVars>>

-----------------------------------------------------------------------------
(* autoPrint. *)

\* After the sleep: nothing once bStop is set, otherwise fopen.
Wake(p) ==
  /\ At("base", p, "ap_sleep") /\ ~bStop
  /\ CallingMalloc("base", p, "ap_open")
  /\ UNCHANGED <<lockVars, flagVars>>

AutoOpenFails(p) ==
  /\ OpenMayFail
  /\ At("base", p, "ap_open") /\ CallingFree("base", p, "ap_sleep")
  /\ UNCHANGED <<lockVars, flagVars>>

\* The heading is written before the mutex is taken and allocates the buffer.
AutoOpens(p) ==
  /\ At("base", p, "ap_open") /\ CallingMalloc("base", p, "ap_lock")
  /\ UNCHANGED <<lockVars, flagVars>>

AutoLock(p) ==
  /\ At("base", p, "ap_lock") /\ LockSm(p)
  /\ Goto("base", p, "ap_iter")
  /\ UNCHANGED <<fileHolder, flagVars>>

AutoUnlock(p) ==
  /\ At("base", p, "ap_iter") /\ UnlockSm(p)
  /\ Goto("base", p, "ap_close")
  /\ UNCHANGED <<fileHolder, flagVars>>

AutoClose(p) ==
  /\ At("base", p, "ap_close") /\ CallingFree("base", p, "sd_lock")
  /\ UNCHANGED <<lockVars, flagVars>>

\* Mutant: the printer gives up without looking at sm_bStart.
AutoGivesUp(p) ==
  /\ At("base", p, "ap_end")
  /\ bStop' = TRUE
  /\ Goto("base", p, "ap_sleep")
  /\ UNCHANGED <<lockVars, gCountStart, sgCountInit, bStart, smTid, flips>>

\* Back from printMemSizeDetail.
AutoEnd(p) ==
  /\ At("base", p, "ap_end")
  /\ bStop' = (bStop \/ ~bStart)
  /\ Goto("base", p, "ap_sleep")
  /\ UNCHANGED <<lockVars, gCountStart, sgCountInit, bStart, smTid, flips>>

-----------------------------------------------------------------------------

\* The parameter thread reads an edited file.
Flip ==
  /\ flips < MaxFlips
  /\ flips' = flips + 1
  /\ gCountStart' = 1 - gCountStart
  /\ UNCHANGED <<pc, lockVars, sgCountInit, bStart, smTid, bStop>>

Init ==
  /\ pc = [base |-> [t \in Thread |-> IF t \in App THEN "app" ELSE "unborn"],
           hook |-> [t \in Thread |-> "out"]]
  /\ smHeld = [t \in Thread |-> 0]
  /\ fileHolder = Nobody
  /\ gCountStart = 0
  /\ sgCountInit = 0
  /\ bStart = FALSE
  /\ smTid = FALSE
  /\ bStop = FALSE
  /\ flips = 0

Call(t) == Malloc(t) \/ Free(t)

SizeDetail(f, t) ==
  \/ SizeDetailLock(f, t) \/ SizeDetailNode(f, t) \/ SizeDetailUnlock(f, t)
  \/ SizeDetailFileLock(f, t) \/ SizeDetailOpenFails(f, t) \/ SizeDetailOpens(f, t)
  \/ SizeDetailClose(f, t) \/ SizeDetailFileUnlock(f, t) \/ SizeDetailReturn(f, t)

Hook(t) ==
  \/ MallocEnabled(t) \/ MallocInit(t)
  \/ Start(t) \/ CreatePrinter(t) \/ SetTid(t) \/ SetInit(t) \/ Insert(t)
  \/ FreeInit(t) \/ FreeEnabled(t) \/ Remove(t)
  \/ ClearInit(t) \/ ClearStart(t)
  \/ SizeDetail("hook", t)
  \/ MemDetailLock(t) \/ MemDetailOpenFails(t) \/ MemDetailOpens(t) \/ MemDetailUnlock(t)

AutoPrint(p) ==
  \/ Wake(p) \/ AutoOpenFails(p) \/ AutoOpens(p) \/ AutoLock(p) \/ AutoUnlock(p)
  \/ AutoClose(p) \/ SizeDetail("base", p) \/ AutoEnd(p)

Next ==
  \/ \E t \in App : Call(t)
  \/ \E t \in Thread : Hook(t)
  \/ \E p \in Printer : AutoPrint(p)
  \/ Flip

Spec == Init /\ [][Next]_vars

\* Every thread that can run runs, and a mutex that is free again and again is
\* given to each thread that waits for it: its holders leave it after finitely
\* many steps and the printer sleeps a minute between two rounds.  An
\* iteration over the maps ends, because they are finite.  The application
\* owes nothing.
Fairness ==
  /\ \A t \in Thread : SF_vars(Hook(t))
  /\ \A p \in Printer : SF_vars(AutoPrint(p)) /\ SF_vars(SizeDetailUnlock("base", p))

FairSpec == Spec /\ Fairness

-----------------------------------------------------------------------------

BaseLabels == {"app", "unborn", "ap_sleep", "ap_open", "ap_lock", "ap_iter", "ap_close",
               "ap_end"}

SizeDetailLabels == {"sd_lock", "sd_iter", "sd_flock", "sd_open", "sd_close", "sd_funlock",
                     "sd_nodes"}

MallocLabels == {"m_enabled", "m_init", "start", "create", "set_tid", "set_init", "insert"}

FreeLabels == {"f_init", "f_enabled", "remove", "clear_init", "md_lock", "md_open",
               "md_iter", "b_stop"}

\* Every variable has its type; a thread never holds sm_mutex more than twice
\* and never unlocks it more often than it locked it.
TypeOK ==
  /\ pc \in [base : [Thread -> BaseLabels \cup SizeDetailLabels],
             hook : [Thread -> {"out"} \cup MallocLabels \cup FreeLabels
                                 \cup SizeDetailLabels]]
  /\ smHeld \in [Thread -> 0..2]
  /\ fileHolder \in Thread \cup {Nobody}
  /\ gCountStart \in {0, 1}
  /\ sgCountInit \in {0, 1}
  /\ bStart \in BOOLEAN
  /\ smTid \in BOOLEAN
  /\ bStop \in BOOLEAN
  /\ flips \in 0..MaxFlips

Iterating(t) ==
  \/ pc["base"][t] \in {"sd_iter", "ap_iter"}
  \/ pc["hook"][t] \in {"sd_iter", "md_iter"}

\* Whatever path a thread takes out of a report, a failing fopen included, it
\* has given sm_mutex back: otherwise every later malloc of every other thread
\* would block.
SmHeldOnlyInside ==
  \A t \in Thread : smHeld[t] # 0 => Iterating(t) \/ pc["hook"][t] = "md_open"

\* A thread that waits for s_fileMutex, in either frame, holds no sm_mutex: a
\* report that is stuck on its file never stops the hooks.
LockOrder ==
  \A f \in {"base", "hook"}, t \in Thread : pc[f][t] = "sd_flock" => smHeld[t] = 0

\* start() finds the tracker stopped, and clears the maps; or remove erases.
Clears == ~bStart /\ bStart'
Erases == \E t \in Thread : pc["hook"][t] = "remove" /\ pc'["hook"][t] = "out"

\* start() clears the maps, and remove erases from them, only while no thread
\* iterates over them; the thread itself counts, because sm_mutex lets it in.
IteratorsValid == [][Clears \/ Erases => \A t \in Thread : ~Iterating(t)]_vars

\* Every malloc the application or a report makes returns, even after reports
\* are stuck for ever.
MallocReturns ==
  \A t \in Thread : pc["hook"][t] \in MallocLabels ~> pc["hook"][t] = "out"

\* Until the tracker is switched off, the printer completes round after round.
PrintingContinues ==
  \A p \in Printer :
    pc["base"][p] = "ap_sleep" /\ flips = 1 ~> pc["base"][p] = "ap_end" \/ flips = 2

\* count.cpp:254, of printMemSizeDetail: it prints the sizes of the blocks in
\* the maps.  So a call of it comes to its end.
SizeDetailReturns ==
  \A f \in {"base", "hook"}, t \in Thread :
    pc[f][t] \in SizeDetailLabels ~> pc[f][t] \notin SizeDetailLabels
=============================================================================
