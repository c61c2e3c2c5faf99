------------------------- MODULE CountReportProofs -------------------------
(***************************************************************************)
(* Proofs about the reports and their two mutexes: the types, that every   *)
(* path out of a report gives sm_mutex back, that nobody waits for the     *)
(* file with sm_mutex in his hands, and that within one session no map is  *)
(* changed under an iteration.                                             *)
(*                                                                         *)
(* The argument: where the two frames of a thread are tells whether the    *)
(* thread holds sm_mutex, and which calls lead from one frame into the     *)
(* other tells which pairs of places there are.                            *)
(***************************************************************************)
EXTENDS CountReport, TLAPS

BasePlace == BaseLabels \cup SizeDetailLabels
HookPlace == {"out"} \cup MallocLabels \cup FreeLabels \cup SizeDetailLabels

\* Where the code below a malloc hook, or a free hook, may be.
CallsMalloc == {"app", "sd_iter", "sd_open", "sd_close", "ap_open", "ap_lock"}
CallsFree   == {"app", "sd_nodes", "sd_funlock", "ap_sleep", "sd_lock", "ap_end"}

Nested(b, h) ==
  /\ h \in MallocLabels => b \in CallsMalloc
  /\ h \in FreeLabels \cup SizeDetailLabels => b \in CallsFree

\* Between locking and unlocking sm_mutex.
InMap(b, h) == b \in {"sd_iter", "ap_iter"} \/ h \in {"sd_iter", "md_open", "md_iter"}

\* Between locking s_fileMutex and the next return of printMemSizeDetail.
FileLabels == {"sd_open", "sd_close", "sd_funlock"}

InFile(b, h) == b \in FileLabels \/ h \in FileLabels

Base(t) == pc["base"][t]
InHook(t) == pc["hook"][t]

Nesting == \A t \in Thread : Nested(Base(t), InHook(t))

SmExact == \A t \in Thread : smHeld[t] = IF InMap(Base(t), InHook(t)) THEN 1 ELSE 0

SmExclusive == \A t, u \in Thread : t # u => smHeld[t] = 0 \/ smHeld[u] = 0

FileExact ==
  \A t \in Thread :
    /\ InFile(Base(t), InHook(t)) => fileHolder = t
    /\ ~(Base(t) \in FileLabels /\ InHook(t) \in FileLabels)

Places == pc \in [base : [Thread -> BasePlace], hook : [Thread -> HookPlace]]

LockInv ==
  /\ Places /\ smHeld \in [Thread -> 0..2] /\ fileHolder \in Thread \cup {Nobody}
  /\ Nesting /\ SmExact /\ SmExclusive /\ FileExact

-----------------------------------------------------------------------------
(* What a step does to the places of a thread. *)

\* The frames of t are at b and h after the step, and nobody else moves.
Move(t, b, h) ==
  /\ pc' \in [base : [Thread -> BasePlace], hook : [Thread -> HookPlace]]
  /\ pc'["base"] = [pc["base"] EXCEPT ![t] = b]
  /\ pc'["hook"] = [pc["hook"] EXCEPT ![t] = h]

\* A jump in the base frame.
LEMMA GotoBase ==
  ASSUME Places, NEW t \in Thread, NEW label \in BasePlace, Goto("base", t, label)
  PROVE  Move(t, label, InHook(t))
BY DEF Places, Goto, Move, InHook

\* A jump in the hook frame.
LEMMA GotoHook ==
  ASSUME Places, NEW t \in Thread, NEW label \in HookPlace, Goto("hook", t, label)
  PROVE  Move(t, Base(t), label)
BY DEF Places, Goto, Move, Base

\* A call from the base frame.
LEMMA CallingBase ==
  ASSUME Places, NEW t \in Thread, NEW label \in BasePlace, NEW entry \in HookPlace,
         Calling(entry, "base", t, label)
  PROVE  Move(t, label, entry)
BY DEF Places, Calling, Move

\* A call from the hook frame goes to libc.
LEMMA CallingHook ==
  ASSUME Places, NEW t \in Thread, NEW label \in HookPlace, NEW entry \in HookPlace,
         Calling(entry, "hook", t, label)
  PROVE  Move(t, Base(t), label)
BY DEF Places, Calling, Move, Base

\* How a move of t to b and h and the two mutexes go together.
SmFollows(t, b, h) ==
  \/ smHeld' = smHeld /\ (InMap(b, h) <=> InMap(Base(t), InHook(t)))
  \/ LockSm(t) /\ InMap(b, h) /\ ~InMap(Base(t), InHook(t))
  \/ UnlockSm(t) /\ ~InMap(b, h) /\ InMap(Base(t), InHook(t))

FileFollows(t, b, h) ==
  /\ ~(b \in FileLabels /\ h \in FileLabels)
  /\ \/ fileHolder' = fileHolder /\ (InFile(b, h) => InFile(Base(t), InHook(t)))
     \/ fileHolder = Nobody /\ fileHolder' = t
     \/ fileHolder' = Nobody /\ ~InFile(b, h) /\ InFile(Base(t), InHook(t))

\* A move that the mutexes follow keeps the invariant.
LEMMA MoveKeepsLocks ==
  ASSUME LockInv, NEW t \in Thread, NEW b, NEW h, Move(t, b, h),
         Nested(b, h), SmFollows(t, b, h), FileFollows(t, b, h)
  PROVE  LockInv'
<1>1. /\ Base(t)' = b /\ \A u \in Thread \ {t} : Base(u)' = Base(u)
      /\ InHook(t)' = h /\ \A u \in Thread \ {t} : InHook(u)' = InHook(u)
  BY DEF LockInv, Places, Move, Base, InHook
<1>2. Places' /\ Nesting'
  BY <1>1 DEF LockInv, Places, Nesting, Move
<1>3. /\ smHeld' \in [Thread -> 0..2]
      /\ smHeld'[t] = IF InMap(b, h) THEN 1 ELSE 0
      /\ \A u \in Thread \ {t} : smHeld'[u] = smHeld[u]
  BY DEF LockInv, SmExact, SmFollows, LockSm, UnlockSm
<1>4. SmExact'
  BY <1>1, <1>3 DEF LockInv, SmExact
<1>5. SmExclusive'
  BY <1>3 DEF LockInv, SmExclusive, SmExact, SmFollows, LockSm, SmAvailable, UnlockSm
<1>6. fileHolder' \in Thread \cup {Nobody}
  BY DEF LockInv, FileFollows
<1>7. FileExact'
  BY <1>1, ReportAssumption DEF LockInv, FileExact, FileFollows, InFile
<1>8. QED
  BY <1>2, <1>3, <1>4, <1>5, <1>6, <1>7 DEF LockInv

-----------------------------------------------------------------------------
(* The steps. *)

\* The calls of the application, and the steps of a hook outside the reports.
LEMMA CallsKeepLocks ==
  ASSUME LockInv, NEW t \in Thread,
         \/ t \in App /\ Call(t)
         \/ MallocEnabled(t) \/ MallocInit(t) \/ Start(t) \/ SetTid(t) \/ SetInit(t)
         \/ Insert(t)
         \/ FreeInit(t) \/ FreeEnabled(t) \/ Remove(t) \/ ClearInit(t) \/ ClearStart(t)
  PROVE  LockInv'
<1> USE DEF BasePlace, HookPlace, BaseLabels, MallocLabels, FreeLabels, SizeDetailLabels
<1>0. Places /\ Nested(Base(t), InHook(t))
  BY DEF LockInv, Nesting
<1>1. CASE Call(t)
  <2>1. PICK entry \in {"m_enabled", "f_init"} : Calling(entry, "base", t, "app")
    BY <1>1 DEF Call, Malloc, Free, CallingMalloc, CallingFree
  <2>2. Move(t, "app", entry)
    BY <1>0, <2>1, CallingBase
  <2>3. Base(t) = "app" /\ InHook(t) = "out" /\ UNCHANGED lockVars
    BY <1>1 DEF Call, Malloc, Free, At, Base, InHook
  <2>4. SmFollows(t, "app", entry) /\ FileFollows(t, "app", entry) /\ Nested("app", entry)
    BY <2>3 DEF SmFollows, FileFollows, Nested, InMap, InFile, lockVars, FileLabels,
      CallsMalloc, CallsFree
  <2>5. QED
    BY <2>2, <2>4, MoveKeepsLocks
<1>2. CASE \/ MallocEnabled(t) \/ MallocInit(t) \/ Start(t) \/ SetTid(t) \/ SetInit(t)
           \/ Insert(t)
  <2>1. PICK label \in {"out"} \cup MallocLabels : Goto("hook", t, label)
    BY <1>2 DEF MallocEnabled, MallocInit, Start, SetTid, SetInit, Insert
  <2>2. Move(t, Base(t), label)
    BY <1>0, <2>1, GotoHook
  <2>3. InHook(t) \in MallocLabels /\ UNCHANGED lockVars
    BY <1>2 DEF MallocEnabled, MallocInit, Start, SetTid, SetInit, Insert, At, InHook
  <2>4. Nested(Base(t), label) /\ SmFollows(t, Base(t), label)
    BY <1>0, <2>3 DEF SmFollows, Nested, InMap, lockVars
  <2>5. FileFollows(t, Base(t), label)
    BY <2>3 DEF FileFollows, InFile, lockVars, FileLabels
  <2>6. QED
    BY <2>2, <2>4, <2>5, MoveKeepsLocks
<1>3. CASE FreeInit(t) \/ FreeEnabled(t) \/ Remove(t) \/ ClearInit(t) \/ ClearStart(t)
  <2>1. PICK label \in {"out", "f_enabled", "remove", "clear_init", "sd_lock"} :
           Goto("hook", t, label)
    BY <1>3 DEF FreeInit, FreeEnabled, Remove, ClearInit, ClearStart
  <2>2. Move(t, Base(t), label)
    BY <1>0, <2>1, GotoHook
  <2>3. /\ InHook(t) \in {"f_init", "f_enabled", "remove", "clear_init", "b_stop"}
        /\ UNCHANGED lockVars
    BY <1>3 DEF FreeInit, FreeEnabled, Remove, ClearInit, ClearStart, At, InHook
  <2>4. Nested(Base(t), label) /\ SmFollows(t, Base(t), label)
    BY <1>0, <2>3 DEF SmFollows, Nested, InMap, lockVars
  <2>5. FileFollows(t, Base(t), label)
    BY <2>3 DEF FileFollows, InFile, lockVars, FileLabels
  <2>6. QED
    BY <2>2, <2>4, <2>5, MoveKeepsLocks
<1>4. QED
  BY <1>1, <1>2, <1>3

\* A printer is created in the place where it sleeps; it has no hook.
LEMMA CreateKeepsLocks ==
  ASSUME LockInv, NEW t \in Thread, CreatePrinter(t)
  PROVE  LockInv'
<1> USE DEF BasePlace, HookPlace, BaseLabels, MallocLabels, FreeLabels, SizeDetailLabels
<1>0. /\ Places /\ InHook(t) = "create" /\ UNCHANGED lockVars
      /\ \A u \in Thread : Nested(Base(u), InHook(u))
  BY DEF LockInv, Nesting, CreatePrinter, At, InHook
<1>1. CASE Goto("hook", t, "set_init")
  <2>1. Move(t, Base(t), "set_init")
    BY <1>0, <1>1, GotoHook
  <2>2. /\ Nested(Base(t), "set_init") /\ SmFollows(t, Base(t), "set_init")
        /\ FileFollows(t, Base(t), "set_init")
    BY <1>0 DEF SmFollows, FileFollows, Nested, InMap, InFile, lockVars, FileLabels
  <2>3. QED
    BY <2>1, <2>2, MoveKeepsLocks
<1>2. CASE \E p \in Printer :
             /\ pc["base"][p] = "unborn"
             /\ pc' = [pc EXCEPT !["base"][p] = "ap_sleep", !["hook"][t] = "set_tid"]
  <2>1. PICK p \in Printer :
             /\ pc["base"][p] = "unborn"
             /\ pc' = [pc EXCEPT !["base"][p] = "ap_sleep", !["hook"][t] = "set_tid"]
    BY <1>2
  <2>2. p \in Thread /\ InHook(p) = "out" /\ p # t
    BY <1>0, <2>1 DEF Thread, Nested, CallsMalloc, CallsFree, Places, Base, InHook
  <2>3. /\ Places'
        /\ Base(p)' = "ap_sleep" /\ \A u \in Thread \ {p} : Base(u)' = Base(u)
        /\ InHook(t)' = "set_tid" /\ \A u \in Thread \ {t} : InHook(u)' = InHook(u)
    BY <1>0, <2>1, <2>2 DEF Places, Base, InHook
  <2>4. Nesting'
    BY <1>0, <2>1, <2>2, <2>3 DEF LockInv, Nesting, Nested
  <2>5. \A u \in Thread : InMap(Base(u), InHook(u))' <=> InMap(Base(u), InHook(u))
    BY <1>0, <2>1, <2>2, <2>3 DEF InMap, Base
  <2>6. SmExact' /\ SmExclusive'
    BY <1>0, <2>5 DEF LockInv, SmExact, SmExclusive, lockVars
  <2>7. FileExact'
    BY <1>0, <2>1, <2>2, <2>3 DEF LockInv, FileExact, InFile, FileLabels, lockVars, Base
  <2>8. QED
    BY <1>0, <2>3, <2>4, <2>6, <2>7 DEF LockInv, lockVars
<1>3. QED
  BY <1>1, <1>2 DEF CreatePrinter

\* printMemSizeDetail under autoPrint: what it allocates and frees is hooked.
LEMMA BaseReportKeepsLocks ==
  ASSUME LockInv, NEW t \in Thread, SizeDetail("base", t)
  PROVE  LockInv'
<1> USE DEF BasePlace, HookPlace, BaseLabels, MallocLabels, FreeLabels, SizeDetailLabels,
  Nested, SmFollows, FileFollows, InMap, InFile, lockVars, FileLabels, CallsMalloc, CallsFree
<1>0. Places
  BY DEF LockInv
<1> DEFINE Step(b, h) ==
      /\ Move(t, b, h)
      /\ Nested(b, h) /\ SmFollows(t, b, h) /\ FileFollows(t, b, h)
<1>1. CASE SizeDetailLock("base", t)
  <2>1. Move(t, "sd_iter", InHook(t))
    BY <1>0, <1>1, GotoBase DEF SizeDetailLock
  <2>2. Step("sd_iter", InHook(t))
    BY <1>1, <2>1 DEF SizeDetailLock, At, Base, InHook
  <2>3. QED
    BY <2>2, MoveKeepsLocks
<1>2. CASE SizeDetailNode("base", t)
  <2>1. Move(t, "sd_iter", "m_enabled")
    BY <1>0, <1>2, CallingBase DEF SizeDetailNode, CallingMalloc
  <2>2. Step("sd_iter", "m_enabled")
    BY <1>2, <2>1 DEF SizeDetailNode, At, Base, InHook
  <2>3. QED
    BY <2>2, MoveKeepsLocks
<1>3. CASE SizeDetailUnlock("base", t)
  <2>1. Move(t, "sd_flock", InHook(t))
    BY <1>0, <1>3, GotoBase DEF SizeDetailUnlock
  <2>2. Step("sd_flock", InHook(t))
    BY <1>3, <2>1 DEF SizeDetailUnlock, At, Base, InHook
  <2>3. QED
    BY <2>2, MoveKeepsLocks
<1>4. CASE SizeDetailFileLock("base", t)
  <2>1. Move(t, "sd_open", "m_enabled")
    BY <1>0, <1>4, CallingBase DEF SizeDetailFileLock, CallingMalloc
  <2>2. Step("sd_open", "m_enabled")
    BY <1>4, <2>1 DEF SizeDetailFileLock, At, Base, InHook
  <2>3. QED
    BY <2>2, MoveKeepsLocks
<1>5. CASE SizeDetailOpenFails("base", t)
  <2>1. Move(t, "sd_nodes", "f_init")
    BY <1>0, <1>5, CallingBase DEF SizeDetailOpenFails, CallingFree
  <2>2. Step("sd_nodes", "f_init")
    BY <1>5, <2>1 DEF SizeDetailOpenFails, At, Base, InHook
  <2>3. QED
    BY <2>2, MoveKeepsLocks
<1>6. CASE SizeDetailOpens("base", t)
  <2>1. Move(t, "sd_close", "m_enabled")
    BY <1>0, <1>6, CallingBase DEF SizeDetailOpens, CallingMalloc
  <2>2. Step("sd_close", "m_enabled")
    BY <1>6, <2>1 DEF SizeDetailOpens, At, Base, InHook
  <2>3. QED
    BY <2>2, MoveKeepsLocks
<1>7. CASE SizeDetailClose("base", t)
  <2>1. Move(t, "sd_funlock", "f_init")
    BY <1>0, <1>7, CallingBase DEF SizeDetailClose, CallingFree
  <2>2. Step("sd_funlock", "f_init")
    BY <1>7, <2>1 DEF SizeDetailClose, At, Base, InHook
  <2>3. QED
    BY <2>2, MoveKeepsLocks
<1>8. CASE SizeDetailFileUnlock("base", t)
  <2>1. Move(t, "sd_nodes", InHook(t))
    BY <1>0, <1>8, GotoBase DEF SizeDetailFileUnlock
  <2>2. Step("sd_nodes", InHook(t))
    BY <1>8, <2>1 DEF SizeDetailFileUnlock, At, Base, InHook
  <2>3. QED
    BY <2>2, MoveKeepsLocks
<1>9. CASE SizeDetailReturn("base", t)
  <2>1. Base(t) = "sd_nodes" /\ InHook(t) = "out" /\ UNCHANGED lockVars
    BY <1>9 DEF SizeDetailReturn, At, Base, InHook
  <2>2. PICK h \in {"out", "f_init"} : Move(t, "ap_end", h)
    BY <1>0, <1>9, <2>1, GotoBase, CallingBase
    DEF SizeDetailReturn, AfterSizeDetail, CallingFree
  <2>3. Step("ap_end", h)
    BY <2>1, <2>2
  <2>4. QED
    BY <2>3, MoveKeepsLocks
<1>10. QED
  BY <1>1, <1>2, <1>3, <1>4, <1>5, <1>6, <1>7, <1>8, <1>9 DEF SizeDetail

\* printMemSizeDetail under stop(): the hook's own allocations are libc's.
LEMMA HookReportKeepsLocks ==
  ASSUME LockInv, NEW t \in Thread, SizeDetail("hook", t)
  PROVE  LockInv'
<1> USE DEF BasePlace, HookPlace, BaseLabels, MallocLabels, FreeLabels, SizeDetailLabels,
  Nested, SmFollows, FileFollows, InMap, InFile, lockVars, FileLabels, CallsMalloc, CallsFree
<1>0. /\ Places /\ Nested(Base(t), InHook(t))
      /\ ~(Base(t) \in FileLabels /\ InHook(t) \in FileLabels)
      /\ Base(t) \in FileLabels => fileHolder # Nobody
  BY ReportAssumption DEF LockInv, Nesting, FileExact
<1> DEFINE Step(h) ==
      /\ Move(t, Base(t), h)
      /\ Nested(Base(t), h) /\ SmFollows(t, Base(t), h) /\ FileFollows(t, Base(t), h)
<1>1. CASE SizeDetailLock("hook", t)
  <2>1. Move(t, Base(t), "sd_iter")
    BY <1>0, <1>1, GotoHook DEF SizeDetailLock
  <2>2. Step("sd_iter")
    BY <1>0, <1>1, <2>1 DEF SizeDetailLock, At, InHook
  <2>3. QED
    BY <2>2, MoveKeepsLocks
<1>2. CASE SizeDetailNode("hook", t)
  <2>1. Move(t, Base(t), "sd_iter")
    BY <1>0, <1>2, CallingHook DEF SizeDetailNode, CallingMalloc
  <2>2. Step("sd_iter")
    BY <1>0, <1>2, <2>1 DEF SizeDetailNode, At, InHook
  <2>3. QED
    BY <2>2, MoveKeepsLocks
<1>3. CASE SizeDetailUnlock("hook", t)
  <2>1. Move(t, Base(t), "sd_flock")
    BY <1>0, <1>3, GotoHook DEF SizeDetailUnlock
  <2>2. Step("sd_flock")
    BY <1>0, <1>3, <2>1 DEF SizeDetailUnlock, At, InHook
  <2>3. QED
    BY <2>2, MoveKeepsLocks
<1>4. CASE SizeDetailFileLock("hook", t)
  <2>1. Move(t, Base(t), "sd_open")
    BY <1>0, <1>4, CallingHook DEF SizeDetailFileLock, CallingMalloc
  <2>2. Step("sd_open")
    BY <1>0, <1>4, <2>1 DEF SizeDetailFileLock, At, InHook
  <2>3. QED
    BY <2>2, MoveKeepsLocks
<1>5. CASE SizeDetailOpenFails("hook", t)
  <2>1. Move(t, Base(t), "sd_nodes")
    BY <1>0, <1>5, CallingHook DEF SizeDetailOpenFails, CallingFree
  <2>2. Step("sd_nodes")
    BY <1>0, <1>5, <2>1 DEF SizeDetailOpenFails, At, InHook
  <2>3. QED
    BY <2>2, MoveKeepsLocks
<1>6. CASE SizeDetailOpens("hook", t)
  <2>1. Move(t, Base(t), "sd_close")
    BY <1>0, <1>6, CallingHook DEF SizeDetailOpens, CallingMalloc
  <2>2. Step("sd_close")
    BY <1>0, <1>6, <2>1 DEF SizeDetailOpens, At, InHook
  <2>3. QED
    BY <2>2, MoveKeepsLocks
<1>7. CASE SizeDetailClose("hook", t)
  <2>1. Move(t, Base(t), "sd_funlock")
    BY <1>0, <1>7, CallingHook DEF SizeDetailClose, CallingFree
  <2>2. Step("sd_funlock")
    BY <1>0, <1>7, <2>1 DEF SizeDetailClose, At, InHook
  <2>3. QED
    BY <2>2, MoveKeepsLocks
<1>8. CASE SizeDetailFileUnlock("hook", t)
  <2>1. Move(t, Base(t), "sd_nodes")
    BY <1>0, <1>8, GotoHook DEF SizeDetailFileUnlock
  <2>2. Step("sd_nodes")
    BY <1>0, <1>8, <2>1 DEF SizeDetailFileUnlock, At, InHook
  <2>3. QED
    BY <2>2, MoveKeepsLocks
<1>9. CASE SizeDetailReturn("hook", t)
  <2>1. Move(t, Base(t), "md_lock")
    BY <1>0, <1>9, GotoHook, CallingHook DEF SizeDetailReturn, CallingFree, AfterSizeDetail
  <2>2. Step("md_lock")
    BY <1>0, <1>9, <2>1 DEF SizeDetailReturn, At, InHook
  <2>3. QED
    BY <2>2, MoveKeepsLocks
<1>10. QED
  BY <1>1, <1>2, <1>3, <1>4, <1>5, <1>6, <1>7, <1>8, <1>9 DEF SizeDetail

\* printMemDetail, whose early return gives the mutex back.
LEMMA MemDetailKeepsLocks ==
  ASSUME LockInv, NEW t \in Thread,
         MemDetailLock(t) \/ MemDetailOpenFails(t) \/ MemDetailOpens(t) \/ MemDetailUnlock(t)
  PROVE  LockInv'
<1> USE DEF BasePlace, HookPlace, BaseLabels, MallocLabels, FreeLabels, SizeDetailLabels,
  Nested, SmFollows, FileFollows, InMap, InFile, lockVars, FileLabels, CallsMalloc, CallsFree
<1>0. Places /\ Nested(Base(t), InHook(t))
  BY DEF LockInv, Nesting
<1> DEFINE Step(h) ==
      /\ Move(t, Base(t), h)
      /\ Nested(Base(t), h) /\ SmFollows(t, Base(t), h) /\ FileFollows(t, Base(t), h)
<1>1. CASE MemDetailLock(t)
  <2>1. Move(t, Base(t), "md_open")
    BY <1>0, <1>1, GotoHook DEF MemDetailLock
  <2>2. Step("md_open")
    BY <1>0, <1>1, <2>1 DEF MemDetailLock, At, InHook
  <2>3. QED
    BY <2>2, MoveKeepsLocks
<1>2. CASE MemDetailOpenFails(t)
  <2>1. Move(t, Base(t), "b_stop")
    BY <1>0, <1>2, GotoHook DEF MemDetailOpenFails
  <2>2. Step("b_stop")
    BY <1>0, <1>2, <2>1 DEF MemDetailOpenFails, At, InHook
  <2>3. QED
    BY <2>2, MoveKeepsLocks
<1>3. CASE MemDetailOpens(t)
  <2>1. Move(t, Base(t), "md_iter")
    BY <1>0, <1>3, GotoHook DEF MemDetailOpens
  <2>2. Step("md_iter")
    BY <1>0, <1>3, <2>1 DEF MemDetailOpens, At, InHook
  <2>3. QED
    BY <2>2, MoveKeepsLocks
<1>4. CASE MemDetailUnlock(t)
  <2>1. Move(t, Base(t), "b_stop")
    BY <1>0, <1>4, GotoHook DEF MemDetailUnlock
  <2>2. Step("b_stop")
    BY <1>0, <1>4, <2>1 DEF MemDetailUnlock, At, InHook
  <2>3. QED
    BY <2>2, MoveKeepsLocks
<1>5. QED
  BY <1>1, <1>2, <1>3, <1>4

\* autoPrint's own steps.
LEMMA AutoPrintKeepsLocks ==
  ASSUME LockInv, NEW t \in Thread,
         \/ Wake(t) \/ AutoOpenFails(t) \/ AutoOpens(t) \/ AutoLock(t) \/ AutoUnlock(t)
         \/ AutoClose(t) \/ AutoEnd(t)
  PROVE  LockInv'
<1> USE DEF BasePlace, HookPlace, BaseLabels, MallocLabels, FreeLabels, SizeDetailLabels,
  Nested, SmFollows, FileFollows, InMap, InFile, lockVars, FileLabels, CallsMalloc, CallsFree
<1>0. Places
  BY DEF LockInv
<1> DEFINE Step(b, h) ==
      /\ Move(t, b, h)
      /\ Nested(b, h) /\ SmFollows(t, b, h) /\ FileFollows(t, b, h)
<1>1. CASE Wake(t)
  <2>1. Step("ap_open", "m_enabled")
    BY <1>0, <1>1, CallingBase DEF Wake, At, Base, InHook, CallingMalloc
  <2>2. QED
    BY <2>1, MoveKeepsLocks
<1>2. CASE AutoOpenFails(t)
  <2>1. Step("ap_sleep", "f_init")
    BY <1>0, <1>2, CallingBase DEF AutoOpenFails, At, Base, InHook, CallingFree
  <2>2. QED
    BY <2>1, MoveKeepsLocks
<1>3. CASE AutoOpens(t)
  <2>1. Step("ap_lock", "m_enabled")
    BY <1>0, <1>3, CallingBase DEF AutoOpens, At, Base, InHook, CallingMalloc
  <2>2. QED
    BY <2>1, MoveKeepsLocks
<1>4. CASE AutoLock(t)
  <2>1. Step("ap_iter", InHook(t))
    BY <1>0, <1>4, GotoBase DEF AutoLock, At, Base, InHook
  <2>2. QED
    BY <2>1, MoveKeepsLocks
<1>5. CASE AutoUnlock(t)
  <2>1. Step("ap_close", InHook(t))
    BY <1>0, <1>5, GotoBase DEF AutoUnlock, At, Base, InHook
  <2>2. QED
    BY <2>1, MoveKeepsLocks
<1>6. CASE AutoClose(t)
  <2>1. Step("sd_lock", "f_init")
    BY <1>0, <1>6, CallingBase DEF AutoClose, At, Base, InHook, CallingFree
  <2>2. QED
    BY <2>1, MoveKeepsLocks
<1>7. CASE AutoEnd(t)
  <2>1. Step("ap_sleep", InHook(t))
    BY <1>0, <1>7, GotoBase DEF AutoEnd, At, Base, InHook
  <2>2. QED
    BY <2>1, MoveKeepsLocks
<1>8. QED
  BY <1>1, <1>2, <1>3, <1>4, <1>5, <1>6, <1>7

\* Every step of the tracker keeps the locks' invariant.
LEMMA LockStep == LockInv /\ [Next]_vars => LockInv'
<1> SUFFICES ASSUME LockInv, [Next]_vars PROVE LockInv'
  OBVIOUS
<1>1. CASE \E t \in App : Call(t)
  BY <1>1, CallsKeepLocks DEF Thread
<1>2. ASSUME NEW t \in Thread, Hook(t) PROVE LockInv'
  BY <1>2, CallsKeepLocks, CreateKeepsLocks, HookReportKeepsLocks, MemDetailKeepsLocks
  DEF Hook
<1>3. CASE \E p \in Printer : AutoPrint(p)
  BY <1>3, AutoPrintKeepsLocks, BaseReportKeepsLocks DEF AutoPrint, Thread
<1>4. CASE Flip \/ UNCHANGED vars
  <2>1. UNCHANGED <<pc, lockVars>>
    BY <1>4 DEF Flip, vars
  <2>2. QED
    BY <2>1 DEF lockVars, LockInv, Places, Nesting, SmExact, SmExclusive, FileExact, Base,
      InHook
<1>5. QED
  BY <1>1, <1>2, <1>3, <1>4 DEF Next

\* The two flags, the switch and the counter of its flips keep their types.
FlagTypes ==
  /\ gCountStart \in {0, 1} /\ sgCountInit \in {0, 1}
  /\ bStart \in BOOLEAN /\ smTid \in BOOLEAN /\ bStop \in BOOLEAN
  /\ flips \in 0..MaxFlips

\* The parameter thread writes 0 or 1, and every flip is counted.
LEMMA FlagStep == FlagTypes /\ [Next]_vars => FlagTypes'
<1> SUFFICES ASSUME FlagTypes, [Next]_vars PROVE FlagTypes'
  OBVIOUS
<1> USE DEF FlagTypes, flagVars
<1>1. ASSUME NEW f \in {"base", "hook"}, NEW t \in Thread, SizeDetail(f, t)
      PROVE  UNCHANGED flagVars
  BY <1>1 DEF SizeDetail, SizeDetailLock, SizeDetailNode, SizeDetailUnlock,
    SizeDetailFileLock, SizeDetailOpenFails, SizeDetailOpens, SizeDetailClose,
    SizeDetailFileUnlock, SizeDetailReturn
<1>2. CASE \E t \in App : Call(t)
  BY <1>2 DEF Call, Malloc, Free
<1>3. ASSUME NEW t \in Thread, Hook(t) PROVE FlagTypes'
  BY <1>1, <1>3 DEF Hook, MallocEnabled, MallocInit, Start, CreatePrinter, SetTid, SetInit,
    Insert, FreeInit, FreeEnabled, Remove, ClearInit, ClearStart, MemDetailLock,
    MemDetailOpenFails, MemDetailOpens, MemDetailUnlock
<1>4. ASSUME NEW p \in Printer, AutoPrint(p) PROVE FlagTypes'
  BY <1>1, <1>4 DEF AutoPrint, Wake, AutoOpenFails, AutoOpens, AutoLock, AutoUnlock,
    AutoClose, AutoEnd, Thread
<1>5. CASE Flip
  BY <1>5, ReportAssumption DEF Flip
<1>6. CASE UNCHANGED vars
  BY <1>6 DEF vars
<1>7. QED
  BY <1>2, <1>3, <1>4, <1>5, <1>6 DEF Next

-----------------------------------------------------------------------------
(* What follows for every behaviour. *)

\* At first no mutex is held and no thread is in a report.
LEMMA InitLocks == Init => LockInv
  BY ReportAssumption
  DEF Init, LockInv, Places, Nesting, SmExact, SmExclusive, FileExact, Base, InHook, Nested,
    InMap, InFile, FileLabels, BasePlace, HookPlace, BaseLabels, SizeDetailLabels,
    MallocLabels, FreeLabels

\* At first nothing is switched on.
LEMMA InitFlags == Init => FlagTypes
<1>1. 0 \in 0..MaxFlips
  BY ReportAssumption
<1>2. QED
  BY <1>1 DEF Init, FlagTypes

\* The invariant: a thread holds sm_mutex, once, exactly while one of its
\* frames is in a section of it, no two threads hold it, and who is between
\* locking and unlocking s_fileMutex holds that one.
THEOREM LocksFollowPlaces == Spec => []LockInv
<1>1. QED
  BY InitLocks, LockStep, PTL DEF Spec

\* Every variable keeps its type: sm_mutex is never unlocked more often than
\* it was locked, and no thread holds it more than twice.
THEOREM TypeCorrect == Spec => []TypeOK
<1>1. LockInv /\ FlagTypes => TypeOK
  BY DEF LockInv, FlagTypes, TypeOK, Places, BasePlace, HookPlace
<1>2. QED
  BY <1>1, InitFlags, FlagStep, LocksFollowPlaces, PTL DEF Spec

\* Whatever path a thread takes out of a report, a failing fopen included, it
\* has given sm_mutex back.
THEOREM SmGivenBack == Spec => []SmHeldOnlyInside
<1>1. LockInv => SmHeldOnlyInside
  BY DEF LockInv, SmExact, InMap, SmHeldOnlyInside, Iterating, Base, InHook
<1>2. QED
  BY <1>1, LocksFollowPlaces, PTL

\* Who waits for s_fileMutex, in either frame, holds no sm_mutex, so that a
\* report stuck on its file never stops the hooks.
THEOREM FileWaitsFree == Spec => []LockOrder
<1>1. LockInv => LockOrder
  BY DEF LockInv, SmExact, Nesting, Nested, InMap, LockOrder, Base, InHook, Places,
    HookPlace, CallsMalloc, CallsFree, MallocLabels, FreeLabels, SizeDetailLabels
<1>2. QED
  BY <1>1, LocksFollowPlaces, PTL

\* printMemSizeDetail never writes its file in two frames at once, be they of
\* one thread or of two.
WritesAlone ==
  \A t, u \in Thread, f, g \in {"base", "hook"} :
    pc[f][t] \in FileLabels /\ pc[g][u] \in FileLabels => t = u /\ f = g

\* The file's section is exclusive between frames, not only between threads.
THEOREM OneWriter == Spec => []WritesAlone
<1>1. LockInv => WritesAlone
  BY DEF LockInv, FileExact, InFile, WritesAlone, Base, InHook
<1>2. QED
  BY <1>1, LocksFollowPlaces, PTL

-----------------------------------------------------------------------------
(* Iterators.  With up to two flips of the switch there is one session: on  *)
(* and off again.                                                           *)

StopLabels == {"clear_init", "md_lock", "md_open", "md_iter", "b_stop"} \cup SizeDetailLabels

\* Before it is switched on nothing is tracked, before it is switched off
\* nobody stops it and all its parts run under a started tracker.
OneSession ==
  /\ gCountStart = IF flips = 1 THEN 1 ELSE 0
  /\ flips = 0 =>
       /\ sgCountInit = 0
       /\ \A t \in Thread : InHook(t) \in {"out", "m_enabled", "f_init"}
  /\ flips <= 1 =>
       \A t \in Thread :
         /\ InHook(t) \notin StopLabels
         /\ Base(t) \notin {"app", "unborn"} \/ InHook(t) \in {"create", "set_tid", "set_init"}
              => bStart

\* A report that allocates under sm_mutex and is on its way to start() finds
\* the tracker started, and nobody about to stop it.
StartFindsStarted ==
  \A t \in Thread :
    Base(t) = "sd_iter" /\ InHook(t) \in {"m_init", "start"} =>
      bStart /\ \A u \in Thread : InHook(u) # "b_stop"

SessionInv == LockInv /\ FlagTypes /\ OneSession /\ StartFindsStarted


\* A step of a thread leaves the other threads' hooks where they are, and
\* their own code too, but for the printer it creates.
LEMMA OthersStay ==
  ASSUME Places, NEW t \in Thread,
         (t \in App /\ Call(t)) \/ Hook(t) \/ (t \in Printer /\ AutoPrint(t)),
         NEW u \in Thread \ {t}
  PROVE  /\ InHook(u)' = InHook(u)
         /\ \/ Base(u)' = Base(u)
            \/ CreatePrinter(t) /\ Base(u)' = "ap_sleep"
<1> USE DEF Places, At, InHook, Base, Goto
<1>1. ASSUME NEW f \in {"base", "hook"}, SizeDetail(f, t)
      PROVE  InHook(u)' = InHook(u) /\ Base(u)' = Base(u)
  BY <1>1 DEF SizeDetail, SizeDetailLock, SizeDetailNode, SizeDetailUnlock,
    SizeDetailFileLock, SizeDetailOpenFails, SizeDetailOpens, SizeDetailClose,
    SizeDetailFileUnlock, SizeDetailReturn, CallingMalloc, CallingFree, Calling
<1>2. CASE Call(t)
  BY <1>2 DEF Call, Malloc, Free, CallingMalloc, CallingFree, Calling
<1>3. CASE Hook(t) /\ ~SizeDetail("hook", t) /\ ~CreatePrinter(t)
  BY <1>3 DEF Hook, MallocEnabled, MallocInit, Start, SetTid, SetInit,
    Insert, FreeInit, FreeEnabled, Remove, ClearInit, ClearStart, MemDetailLock,
    MemDetailOpenFails, MemDetailOpens, MemDetailUnlock
<1>4. CASE CreatePrinter(t)
  BY <1>4 DEF CreatePrinter
<1>5. CASE AutoPrint(t) /\ ~SizeDetail("base", t)
  BY <1>5 DEF AutoPrint, Wake, AutoOpenFails, AutoOpens, AutoLock, AutoUnlock,
    AutoClose, AutoEnd, CallingMalloc, CallingFree, Calling
<1>6. QED
  BY <1>1, <1>2, <1>3, <1>4, <1>5

\* remove is the only step that leaves its label, and needs sm_mutex.
LEMMA ErasesIsRemove ==
  ASSUME LockInv, [Next]_vars, NEW t \in Thread,
         InHook(t) = "remove", InHook(t)' = "out"
  PROVE  Remove(t)
<1> USE DEF At, InHook
<1>0. Places
  BY DEF LockInv
<1>1. ASSUME NEW u \in Thread, u # t,
             (u \in App /\ Call(u)) \/ Hook(u) \/ (u \in Printer /\ AutoPrint(u))
      PROVE  FALSE
  BY <1>0, <1>1, OthersStay
<1>2. CASE Hook(t)
  BY <1>2 DEF Hook, MallocEnabled, MallocInit, Start, CreatePrinter, SetTid, SetInit,
    Insert, FreeInit, FreeEnabled, ClearInit, ClearStart, MemDetailLock,
    MemDetailOpenFails, MemDetailOpens, MemDetailUnlock, SizeDetail, SizeDetailLock,
    SizeDetailNode, SizeDetailUnlock,
    SizeDetailFileLock, SizeDetailOpenFails, SizeDetailOpens, SizeDetailClose,
    SizeDetailFileUnlock, SizeDetailReturn
<1>3. ASSUME Call(t) \/ AutoPrint(t) PROVE FALSE
  BY <1>3 DEF Call, Malloc, Free, AutoPrint, Wake, AutoOpenFails, AutoOpens, AutoLock,
    AutoUnlock, AutoClose, AutoEnd, SizeDetail, SizeDetailLock, SizeDetailNode,
    SizeDetailUnlock, SizeDetailFileLock, SizeDetailOpenFails, SizeDetailOpens,
    SizeDetailClose, SizeDetailFileUnlock, SizeDetailReturn
<1>4. CASE Flip \/ UNCHANGED vars
  BY <1>4 DEF Flip, vars
<1>5. QED
  BY <1>1, <1>2, <1>3, <1>4 DEF Next, Thread

\* With at most two flips there is at most one session.
LEMMA OneSessionStep == MaxFlips <= 2 /\ SessionInv /\ [Next]_vars => OneSession'
<1> SUFFICES ASSUME MaxFlips <= 2, SessionInv, [Next]_vars PROVE OneSession'
  OBVIOUS
<1> USE DEF OneSession, At, InHook, Base, Goto, Places, lockVars, flagVars, StopLabels,
  SizeDetailLabels
<1>0. LockInv /\ FlagTypes /\ OneSession /\ Places
  BY DEF SessionInv, LockInv
<1>1. ASSUME NEW t \in App, Call(t) PROVE OneSession'
  <2>1. t \in Thread
    BY DEF Thread
  <2>2. /\ UNCHANGED flagVars /\ Base(t) = "app" /\ Base(t)' = "app"
        /\ InHook(t)' \in {"m_enabled", "f_init"}
    BY <1>0, <1>1, <2>1 DEF Call, Malloc, Free, CallingMalloc, CallingFree, Calling
  <2>3. QED
    BY <1>0, <1>1, <2>1, <2>2, OthersStay DEF CreatePrinter, Call, Malloc, Free
<1>2. ASSUME NEW t \in Thread, Hook(t) PROVE OneSession'
  <2>1. UNCHANGED <<gCountStart, flips>>
    BY <1>2 DEF Hook, MallocEnabled, MallocInit, Start, CreatePrinter, SetTid, SetInit,
      Insert, FreeInit, FreeEnabled, Remove, ClearInit, ClearStart, MemDetailLock,
      MemDetailOpenFails, MemDetailOpens, MemDetailUnlock, SizeDetail, SizeDetailLock,
      SizeDetailNode, SizeDetailUnlock, SizeDetailFileLock, SizeDetailOpenFails,
      SizeDetailOpens, SizeDetailClose, SizeDetailFileUnlock, SizeDetailReturn
  <2>2. CASE flips = 0
    <3>1. MallocEnabled(t) \/ FreeInit(t)
      BY <1>0, <1>2, <2>2 DEF Hook, MallocInit, Start, CreatePrinter, SetTid, SetInit,
        Insert, FreeEnabled, Remove, ClearInit, ClearStart, MemDetailLock,
        MemDetailOpenFails, MemDetailOpens, MemDetailUnlock, SizeDetail, SizeDetailLock,
        SizeDetailNode, SizeDetailUnlock, SizeDetailFileLock, SizeDetailOpenFails,
        SizeDetailOpens, SizeDetailClose, SizeDetailFileUnlock, SizeDetailReturn
    <3>2. /\ InHook(t)' = "out" /\ Base(t)' = Base(t) /\ UNCHANGED flagVars
          /\ ~CreatePrinter(t)
      BY <1>0, <2>2, <3>1 DEF MallocEnabled, FreeInit, CreatePrinter
    <3>3. QED
      BY <1>0, <1>2, <2>1, <2>2, <3>2, OthersStay
  <2>3. CASE flips = 1
    <3>1. \/ MallocEnabled(t) \/ MallocInit(t) \/ Start(t) \/ CreatePrinter(t)
          \/ SetTid(t) \/ SetInit(t) \/ Insert(t) \/ FreeInit(t) \/ FreeEnabled(t)
          \/ Remove(t)
      BY <1>0, <1>2, <2>3 DEF Hook, ClearInit, ClearStart, MemDetailLock,
        MemDetailOpenFails, MemDetailOpens, MemDetailUnlock, SizeDetail, SizeDetailLock,
        SizeDetailNode, SizeDetailUnlock, SizeDetailFileLock, SizeDetailOpenFails,
        SizeDetailOpens, SizeDetailClose, SizeDetailFileUnlock, SizeDetailReturn
    <3>2. /\ InHook(t)' \notin StopLabels
          /\ InHook(t)' \in {"create", "set_tid", "set_init"} => bStart'
          /\ bStart => bStart'
      BY <1>0, <2>3, <3>1 DEF MallocEnabled, MallocInit, Start, CreatePrinter, SetTid,
        SetInit, Insert, FreeInit, FreeEnabled, Remove
    <3>3. \/ Base(t)' = Base(t)
          \/ CreatePrinter(t)
      BY <1>0, <3>1 DEF MallocEnabled, MallocInit, Start, SetTid,
        SetInit, Insert, FreeInit, FreeEnabled, Remove
    <3>4. CreatePrinter(t) => bStart
      BY <1>0, <2>3 DEF CreatePrinter
    <3>5. QED
      BY <1>0, <1>2, <2>1, <2>3, <3>2, <3>3, <3>4, OthersStay
  <2>4. CASE flips \notin {0, 1}
    BY <1>0, <2>1, <2>4 DEF FlagTypes
  <2>5. QED
    BY <2>2, <2>3, <2>4
<1>3. ASSUME NEW t \in Printer, AutoPrint(t) PROVE OneSession'
  <2>1. t \in Thread /\ t \notin App
    BY ReportAssumption DEF Thread
  <2>2. /\ UNCHANGED <<gCountStart, sgCountInit, bStart, flips>>
        /\ Base(t) \notin {"app", "unborn"} /\ InHook(t) = "out"
        /\ InHook(t)' \in {"out", "m_enabled", "f_init"}
    BY <1>0, <1>3, <2>1 DEF AutoPrint, Wake, AutoOpenFails, AutoOpens, AutoLock,
      AutoUnlock, AutoClose, AutoEnd, CallingMalloc, CallingFree, Calling, SizeDetail,
      SizeDetailLock, SizeDetailNode, SizeDetailUnlock, SizeDetailFileLock,
      SizeDetailOpenFails, SizeDetailOpens, SizeDetailClose, SizeDetailFileUnlock,
      SizeDetailReturn, AfterSizeDetail
  <2>3. ~CreatePrinter(t)
    BY <2>2 DEF CreatePrinter
  <2>4. QED
    BY <1>0, <1>3, <2>1, <2>2, <2>3, OthersStay DEF FlagTypes
<1>4. CASE Flip
  BY <1>0, <1>4, ReportAssumption DEF Flip, FlagTypes
<1>5. CASE UNCHANGED vars
  BY <1>0, <1>5 DEF vars
<1>6. QED
  BY <1>1, <1>2, <1>3, <1>4, <1>5 DEF Next

\* stop() cannot come to its end while a report holds sm_mutex, and after the
\* switch is off no malloc of a report gets as far as start().
LEMMA StartFindsStartedStep ==
  MaxFlips <= 2 /\ SessionInv /\ [Next]_vars => StartFindsStarted'
<1> SUFFICES ASSUME MaxFlips <= 2, SessionInv, [Next]_vars PROVE StartFindsStarted'
  OBVIOUS
<1> USE DEF StartFindsStarted, At, InHook, Base, Goto, Places, lockVars, flagVars
<1>0. LockInv /\ FlagTypes /\ OneSession /\ StartFindsStarted /\ Places
  BY DEF SessionInv, LockInv
<1> DEFINE OnItsWay(t) == Base(t) = "sd_iter" /\ InHook(t) \in {"m_init", "start"}
<1>1. ASSUME NEW t \in Thread, (t \in App /\ Call(t)) \/ (t \in Printer /\ AutoPrint(t))
      PROVE  StartFindsStarted'
  <2>1. /\ bStart' = bStart
        /\ InHook(t)' \in {"out", "m_enabled", "f_init"}
    BY <1>0, <1>1 DEF Call, Malloc, Free, AutoPrint, Wake, AutoOpenFails, AutoOpens,
      AutoLock, AutoUnlock, AutoClose, AutoEnd, CallingMalloc, CallingFree, Calling,
      SizeDetail, SizeDetailLock, SizeDetailNode, SizeDetailUnlock, SizeDetailFileLock,
      SizeDetailOpenFails, SizeDetailOpens, SizeDetailClose, SizeDetailFileUnlock,
      SizeDetailReturn, AfterSizeDetail
  <2>2. QED
    BY <1>0, <1>1, <2>1, OthersStay
<1>2. ASSUME NEW t \in Thread, Hook(t) PROVE StartFindsStarted'
  <2>1. \A u \in Thread : OnItsWay(u)' => OnItsWay(u) \/ (u = t /\ MallocEnabled(t) /\ InHook(t)' = "m_init")
    <3>1. \A u \in Thread \ {t} : OnItsWay(u)' => OnItsWay(u)
      BY <1>0, <1>2, OthersStay
    <3>2. OnItsWay(t)' => OnItsWay(t) \/ (MallocEnabled(t) /\ InHook(t)' = "m_init")
      BY <1>0, <1>2 DEF Hook, MallocEnabled, MallocInit, Start, CreatePrinter, SetTid,
        SetInit, Insert, FreeInit, FreeEnabled, Remove, ClearInit, ClearStart,
        MemDetailLock, MemDetailOpenFails, MemDetailOpens, MemDetailUnlock, SizeDetail,
        SizeDetailLock, SizeDetailNode, SizeDetailUnlock, SizeDetailFileLock,
        SizeDetailOpenFails, SizeDetailOpens, SizeDetailClose, SizeDetailFileUnlock,
        SizeDetailReturn, AfterSizeDetail, CallingMalloc, CallingFree, Calling
    <3>3. QED
      BY <3>1, <3>2
  <2>2. CASE \E u \in Thread : OnItsWay(u)
    <3>1. PICK u \in Thread : OnItsWay(u)
      BY <2>2
    <3>2. bStart /\ \A v \in Thread : InHook(v) # "b_stop"
      BY <1>0, <3>1
    <3>3. InHook(t) \notin {"md_open", "md_iter"}
      BY <1>0, <3>1 DEF LockInv, Nesting, Nested, SmExact, SmExclusive, InMap, CallsFree,
        FreeLabels
    <3>4. InHook(t)' # "b_stop"
      <4>1. CASE SizeDetail("hook", t)
        BY <1>0, <4>1 DEF SizeDetail, SizeDetailLock, SizeDetailNode, SizeDetailUnlock,
          SizeDetailFileLock, SizeDetailOpenFails, SizeDetailOpens, SizeDetailClose,
          SizeDetailFileUnlock, SizeDetailReturn, AfterSizeDetail, CallingMalloc,
          CallingFree, Calling
      <4>2. CASE Hook(t) /\ ~SizeDetail("hook", t)
        BY <1>0, <3>2, <3>3, <4>2, ZenonT(60) DEF Hook, MallocEnabled, MallocInit, Start,
          CreatePrinter, SetTid, SetInit, Insert, FreeInit, FreeEnabled, Remove,
          ClearInit, ClearStart, MemDetailLock, MemDetailOpenFails, MemDetailOpens,
          MemDetailUnlock
      <4>3. QED
        BY <1>2, <4>1, <4>2
    <3>5. ~ClearStart(t)
      BY <3>2 DEF ClearStart
    <3>6. bStart'
      BY <1>2, <3>2, <3>5 DEF Hook, MallocEnabled, MallocInit, Start, CreatePrinter, SetTid,
        SetInit, Insert, FreeInit, FreeEnabled, Remove, ClearInit, MemDetailLock,
        MemDetailOpenFails, MemDetailOpens, MemDetailUnlock, SizeDetail, SizeDetailLock,
        SizeDetailNode, SizeDetailUnlock, SizeDetailFileLock, SizeDetailOpenFails,
        SizeDetailOpens, SizeDetailClose, SizeDetailFileUnlock, SizeDetailReturn
    <3>7. QED
      BY <1>0, <1>2, <3>2, <3>4, <3>6, OthersStay
  <2>3. CASE MallocEnabled(t) /\ InHook(t)' = "m_init"
    <3>1. flips = 1 /\ bStart' = bStart /\ Base(t)' = Base(t)
      BY <1>0, <2>3 DEF MallocEnabled, OneSession
    <3>2. \A u \in Thread : InHook(u)' # "b_stop"
      BY <1>0, <1>2, <2>3, <3>1, OthersStay DEF OneSession, StopLabels
    <3>3. \A u \in Thread : OnItsWay(u)' => bStart
      BY <1>0, <2>1, <3>1 DEF OneSession
    <3>4. QED
      BY <3>1, <3>2, <3>3
  <2>4. QED
    BY <2>1, <2>2, <2>3
<1>3. CASE Flip \/ UNCHANGED vars
  BY <1>0, <1>3 DEF Flip, vars
<1>4. QED
  BY <1>1, <1>2, <1>3 DEF Next, Thread

\* A step that clears the maps is the one of start().
LEMMA ClearsIsStart == [Next]_vars /\ Clears => \E t \in Thread : Start(t)
<1> SUFFICES ASSUME [Next]_vars, Clears PROVE \E t \in Thread : Start(t)
  OBVIOUS
<1> USE DEF Clears, flagVars
<1>1. ASSUME NEW t \in Thread, Hook(t) PROVE Start(t)
  BY <1>1 DEF Hook, MallocEnabled, MallocInit, CreatePrinter, SetTid, SetInit, Insert,
    FreeInit, FreeEnabled, Remove, ClearInit, ClearStart, MemDetailLock,
    MemDetailOpenFails, MemDetailOpens, MemDetailUnlock, SizeDetail, SizeDetailLock,
    SizeDetailNode, SizeDetailUnlock, SizeDetailFileLock, SizeDetailOpenFails,
    SizeDetailOpens, SizeDetailClose, SizeDetailFileUnlock, SizeDetailReturn
<1>2. ASSUME NEW t, Call(t) \/ AutoPrint(t) PROVE FALSE
  BY <1>2 DEF Call, Malloc, Free, AutoPrint, Wake, AutoOpenFails, AutoOpens, AutoLock,
    AutoUnlock, AutoClose, AutoEnd, SizeDetail, SizeDetailLock, SizeDetailNode,
    SizeDetailUnlock, SizeDetailFileLock, SizeDetailOpenFails, SizeDetailOpens,
    SizeDetailClose, SizeDetailFileUnlock, SizeDetailReturn
<1>3. CASE Flip \/ UNCHANGED vars
  BY <1>3 DEF Flip, vars
<1>4. QED
  BY <1>1, <1>2, <1>3 DEF Next

\* Who may take sm_mutex finds nobody else in an iteration, and removes from
\* the maps in none of its own.
LEMMA OthersDoNotIterate ==
  ASSUME LockInv, NEW t \in Thread, SmAvailable(t), NEW u \in Thread \ {t}
  PROVE  ~Iterating(u)
BY DEF LockInv, SmExact, InMap, SmAvailable, Iterating, Base, InHook

\* However often the switch is flipped, remove erases from the maps only while
\* no thread iterates over them, the caller's own report included.
THEOREM RemoveSparesIterators ==
  Spec => [][Erases => \A t \in Thread : ~Iterating(t)]_vars
<1>1. LockInv /\ [Next]_vars => (Erases => \A t \in Thread : ~Iterating(t))
  <2> SUFFICES ASSUME LockInv, [Next]_vars, NEW t \in Thread,
                      InHook(t) = "remove", InHook(t)' = "out", NEW u \in Thread
               PROVE  ~Iterating(u)
    BY DEF Erases, InHook
  <2>1. SmAvailable(t)
    BY ErasesIsRemove DEF Remove
  <2>2. ~Iterating(t)
    BY DEF LockInv, Nesting, Nested, Iterating, Base, InHook, CallsFree, FreeLabels
  <2>3. QED
    BY <2>1, <2>2, OthersDoNotIterate
<1>2. QED
  BY <1>1, LocksFollowPlaces, PTL DEF Spec

\* In one session - the switch is flipped on and off again - no start() clears
\* and no remove() erases from the maps while a thread iterates over them, a
\* thread that calls them from within its own iteration included.
THEOREM IteratorsStayValid == MaxFlips <= 2 => (Spec => IteratorsValid)
<1> SUFFICES ASSUME MaxFlips <= 2 PROVE Spec => IteratorsValid
  OBVIOUS
<1>1. Init => SessionInv
  <2>1. Init => OneSession
    BY ReportAssumption DEF Init, OneSession, Base, InHook, StopLabels, SizeDetailLabels
  <2>2. Init => StartFindsStarted
    BY DEF Init, StartFindsStarted, InHook
  <2>3. QED
    BY <2>1, <2>2, InitLocks, InitFlags DEF SessionInv
<1>2. SessionInv /\ [Next]_vars => SessionInv'
  BY LockStep, FlagStep, OneSessionStep, StartFindsStartedStep DEF SessionInv
<1>3. SessionInv /\ [Next]_vars => (Clears => \A t \in Thread : ~Iterating(t))
  <2> SUFFICES ASSUME SessionInv, [Next]_vars, Clears, NEW u \in Thread
               PROVE  ~Iterating(u)
    OBVIOUS
  <2>1. PICK t \in Thread : Start(t)
    BY ClearsIsStart
  <2>2. ~bStart /\ SmAvailable(t) /\ InHook(t) = "start"
    BY <2>1 DEF Clears, Start, At, InHook
  <2>3. ~Iterating(t)
    BY <2>2 DEF SessionInv, LockInv, Nesting, Nested, StartFindsStarted, Iterating, Base,
      InHook, CallsMalloc, MallocLabels
  <2>4. QED
    BY <2>2, <2>3, OthersDoNotIterate DEF SessionInv
<1>4. Spec => []SessionInv
  BY <1>1, <1>2, PTL DEF Spec
<1>5. QED
  BY <1>3, <1>4, RemoveSparesIterators, PTL DEF Spec, IteratorsValid
=============================================================================
