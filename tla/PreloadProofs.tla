--------------------------- MODULE PreloadProofs ---------------------------
(***************************************************************************)
(* Proofs about the tracker: its types for every parameter file and every  *)
(* edit; for files that keep the tracker on and unfiltered, that the maps  *)
(* never hold a released block or a block of another thread, and that the  *)
(* tracker implements the ledger; and for files that turn it off and on    *)
(* again, what every session keeps.                                        *)
(***************************************************************************)
EXTENDS PreloadLedger, TLAPS

\* What the file may hold is a sequence of numbers.
LEMMA ParamFileType == ParamFile \subseteq Seq(Nat)
  BY ConstantsAssumption DEF ParamFile

\* What readNumberFromFile makes of a file is a record of numbers.
LEMMA ParsedType ==
  ASSUME NEW f \in Seq(Nat)
  PROVE  Parsed(f) \subseteq [start : Nat, min : Nat, max : Nat]
<1>1. SUFFICES ASSUME NEW lo \in Garbage, NEW hi \in Garbage
               PROVE  /\ (IF Len(f) > 0 THEN f[1] ELSE 0) \in Nat
                      /\ (IF Len(f) > 2 THEN f[3] ELSE lo) \in Nat
                      /\ (IF Len(f) > 3 THEN f[4] ELSE hi) \in Nat
  BY DEF Parsed
<1>2. QED
  BY ConstantsAssumption, SMTT(60)

\* Every step keeps the types.
LEMMA TypeStep == TypeOK /\ [Next]_vars => TypeOK'
<1> SUFFICES ASSUME TypeOK, [Next]_vars PROVE TypeOK'
  OBVIOUS
<1> USE DEF TypeOK, heapVars, callVars, mapVars, flagVars, paramVars, histVars
<1>1. ASSUME NEW t \in Thread, Malloc(t) PROVE TypeOK'
  BY <1>1 DEF Malloc, Goto, Free
<1>2. ASSUME NEW t \in Thread, FreeCall(t) \/ ReallocCall(t) PROVE TypeOK'
  <2>1. PICK kind \in {"free", "realloc"} : Release(t, kind)
    BY <1>2 DEF FreeCall, ReallocCall
  <2>2. QED
    BY <2>1, SMTT(60) DEF Release, Goto
<1>3. ASSUME NEW t \in Thread, MallocEnabled(t) PROVE TypeOK'
  BY <1>3 DEF MallocEnabled, Goto, Return
<1>4. ASSUME NEW t \in Thread, MallocInit(t) \/ SetInit(t) \/ InsertFilter(t)
      PROVE  TypeOK'
  BY <1>4 DEF MallocInit, SetInit, InsertFilter, Goto, Return
<1>5. ASSUME NEW t \in Thread, Start(t) PROVE TypeOK'
  <2>1. memMap' \in [Thread -> [Addr -> Size \cup {0}]] /\ named' \subseteq Thread
    BY <1>5 DEF Start, ClearMaps
  <2>2. bStart' \in BOOLEAN
    BY <1>5 DEF Start
  <2>3. QED
    BY <1>5, <2>1, <2>2 DEF Start, Goto
<1>6. ASSUME NEW t \in Thread, Insert(t) PROVE TypeOK'
  BY <1>6 DEF Insert, Goto, Return
<1>7. ASSUME NEW t \in Thread, FreeInit(t) \/ FreeEnabled(t) \/ RemoveFilter(t)
      PROVE  TypeOK'
  BY <1>7 DEF FreeInit, FreeEnabled, RemoveFilter, Goto
<1>8. ASSUME NEW t \in Thread, Remove(t) PROVE TypeOK'
  <2>1. CASE UNCHANGED mapVars
    BY <1>8, <2>1 DEF Remove, Goto
  <2>2. CASE \E u \in Found(t) : Erase(u, ptr[t])
    <3>1. PICK u \in Found(t) : Erase(u, ptr[t])
      BY <2>2
    <3>2. u \in Thread
      BY DEF Found, Holders
    <3>3. memMap' \in [Thread -> [Addr -> Size \cup {0}]] /\ named' \subseteq Thread
      BY <3>1, <3>2 DEF Erase
    <3>4. QED
      BY <1>8, <3>3 DEF Remove, Goto
  <2>3. QED
    BY <1>8, <2>1, <2>2 DEF Remove
<1>9. ASSUME NEW t \in Thread, ClearInit(t) \/ Stop(t) PROVE TypeOK'
  BY <1>9 DEF ClearInit, Stop, Goto
<1>10. ASSUME NEW t \in Thread, LibcFree(t) PROVE TypeOK'
  BY <1>10 DEF LibcFree, Goto
<1>11. ASSUME NEW t \in Thread, LibcRealloc(t) PROVE TypeOK'
  <2>1. PICK b \in Free \cup {ptr[t]}, s \in Size :
           /\ size' = [size EXCEPT ![ptr[t]] = 0, ![b] = s]
           /\ by'   = [by EXCEPT ![ptr[t]] = NoThread, ![b] = t]
           /\ ptr'  = [ptr EXCEPT ![t] = b]
    BY <1>11 DEF LibcRealloc
  <2>2. b \in Addr
    BY DEF Free
  <2>3. size' \in [Addr -> Size \cup {0}]
    BY <2>1
  <2>4. by' \in [Addr -> Thread \cup {NoThread}] /\ ptr' \in [Thread -> Addr]
    BY <2>1, <2>2
  <2>5. QED
    BY <1>11, <2>3, <2>4 DEF LibcRealloc, Goto
<1>12. ASSUME NEW t \in Thread, LibcReallocFails(t) PROVE TypeOK'
  BY <1>12 DEF LibcReallocFails, Goto, Return
<1>13. CASE EditFile
  BY <1>13 DEF EditFile, ParamFile
<1>14. CASE ReadFile
  BY <1>14, ParamFileType, ParsedType DEF ReadFile
<1>15. CASE SetEnable \/ SetMin \/ SetMax
  <2>1. settled' = settled \/ settled' = Settled
    BY <1>15 DEF SetEnable, SetMin, SetMax
  <2>2. settled' \in BOOLEAN
    BY <2>1 DEF Settled
  <2>3. CASE SetEnable
    <3>1. (counted' = {} /\ stopped' = FALSE) \/ UNCHANGED <<counted, stopped>>
      BY <2>3 DEF SetEnable
    <3>2. /\ gCountStart' \in {0, 1} /\ paramPc' = "min"
          /\ UNCHANGED <<heapVars, owned, callVars, pc, mapVars, sgCountInit, bStart,
                         forgotten, minSize, maxSize, memParam, param>>
      BY <2>3 DEF SetEnable
    <3>3. QED
      BY <2>2, <3>1, <3>2
  <2>4. CASE SetMin \/ SetMax
    BY <2>4 DEF SetMin, SetMax, NoParam
  <2>5. QED
    BY <1>15, <2>3, <2>4
<1>16. CASE UNCHANGED vars
  BY <1>16 DEF vars
<1>17. QED
  BY <1>1, <1>2, <1>3, <1>4, <1>5, <1>6, <1>7, <1>8, <1>9, <1>10, <1>11, <1>12,
     <1>13, <1>14, <1>15, <1>16
  DEF Next, Call, Hook, ParamThread

\* The state's variables keep their types: the enable flag stays 0 or 1 and
\* every map entry is a size libc reported, whatever the file holds.
THEOREM TypeCorrect == Spec => []TypeOK
<1>1. Init => TypeOK
  <2> SUFFICES ASSUME Init PROVE TypeOK
    OBVIOUS
  <2>1. memParam \in ParamFile
    BY DEF Init, ParamFile
  <2>2. QED
    BY <2>1 DEF Init, TypeOK, NoParam
<1>2. QED
  BY <1>1, TypeStep, PTL DEF Spec

\* Clearing the maps, inserting and erasing keep a name for each thread that
\* has entries; nothing else touches the maps.
LEMMA NamedStep ==
  TypeOK /\ TrackedThreadNamed /\ [Next]_vars => TrackedThreadNamed'
<1> SUFFICES ASSUME TypeOK, TrackedThreadNamed, [Next]_vars PROVE TrackedThreadNamed'
  OBVIOUS
<1> USE DEF TrackedThreadNamed, mapVars
<1>1. ASSUME NEW t \in Thread, Insert(t) PROVE TrackedThreadNamed'
  BY <1>1 DEF Insert, TypeOK
<1>2. ASSUME NEW t \in Thread, Start(t) PROVE TrackedThreadNamed'
  BY <1>2 DEF Start, ClearMaps
<1>3. ASSUME NEW t \in Thread, Remove(t) PROVE TrackedThreadNamed'
  <2>1. CASE UNCHANGED mapVars
    BY <2>1
  <2>2. CASE \E u \in Found(t) : Erase(u, ptr[t])
    <3>1. PICK u \in Found(t) : Erase(u, ptr[t])
      BY <2>2
    <3>2. u \in Thread /\ ptr[t] \in Addr
      BY DEF Found, Holders, TypeOK
    <3>3. memMap' = [memMap EXCEPT ![u][ptr[t]] = 0]
      BY <3>1 DEF Erase
    <3>4. \A v \in Thread, a \in Addr : memMap'[v][a] # 0 =>
             memMap[v][a] # 0 /\ (v = u => a # ptr[t])
      BY <3>2, <3>3 DEF TypeOK
    <3>5. CASE \A b \in Addr \ {ptr[t]} : memMap[u][b] = 0
      <4>1. named \ {u} \subseteq named'
        BY <3>1, <3>5 DEF Erase
      <4>2. QED
        BY <3>4, <3>5, <4>1
    <3>6. CASE ~ \A b \in Addr \ {ptr[t]} : memMap[u][b] = 0
      <4>1. named' = named
        BY <3>1, <3>6 DEF Erase
      <4>2. QED
        BY <3>4, <4>1
    <3>7. QED
      BY <3>5, <3>6
  <2>3. QED
    BY <1>3, <2>1, <2>2 DEF Remove
<1>4. ASSUME NEW t \in Thread,
             \/ Call(t)
             \/ MallocEnabled(t) \/ MallocInit(t) \/ SetInit(t) \/ InsertFilter(t)
             \/ FreeInit(t) \/ FreeEnabled(t) \/ RemoveFilter(t)
             \/ ClearInit(t) \/ Stop(t)
             \/ LibcFree(t) \/ LibcRealloc(t) \/ LibcReallocFails(t)
      PROVE  UNCHANGED mapVars
  BY <1>4 DEF Call, Malloc, FreeCall, ReallocCall, Release, MallocEnabled, MallocInit,
    SetInit, InsertFilter, FreeInit, FreeEnabled, RemoveFilter, ClearInit, Stop, LibcFree,
    LibcRealloc, LibcReallocFails
<1>5. CASE ParamThread \/ EditFile \/ UNCHANGED vars
  BY <1>5 DEF ParamThread, ReadFile, SetEnable, SetMin, SetMax, EditFile, vars
<1>6. CASE UNCHANGED mapVars
  BY <1>6
<1>7. QED
  BY <1>1, <1>2, <1>3, <1>4, <1>5, <1>6 DEF Next, Hook

\* Whatever the parameter file says and however often it changes, a thread
\* with entries keeps the name the reports print: remove takes a name away
\* only with the thread's last entry.
THEOREM NamesKept == Spec => []TrackedThreadNamed
<1>1. Init => TrackedThreadNamed
  BY DEF Init, TrackedThreadNamed
<1>2. QED
  BY <1>1, NamedStep, TypeCorrect, PTL DEF Spec

-----------------------------------------------------------------------------
(* Exact attribution, for a file that keeps the tracker on, unfiltered. *)

AlwaysOn == \A f \in ParamFile : Len(f) = 4 /\ f[1] = 1 /\ f[3] = 0 /\ f[4] = 0

NoEntry(a) == \A u \in Thread : memMap[u][a] = 0

\* The file never turns the tracker off and never sets a filter.
Unfiltered ==
  /\ minSize = 0 /\ maxSize = 0
  /\ param.min = 0 /\ param.max = 0
  /\ paramPc # "sleep" => param.start = 1

\* The session starts once: a thread past the start finds it running, no
\* thread stops it, and before it starts the maps are empty.
OneSession ==
  /\ sgCountInit = 1 => gCountStart = 1 /\ bStart
  /\ sgCountInit = 0 => \A a \in Addr : NoEntry(a)
  /\ \A t \in Thread :
       /\ pc[t] \in {"mb_init", "start", "set_init"} => gCountStart = 1
       /\ pc[t] = "set_init" => bStart
       /\ pc[t] \in {"ins_filter", "insert", "fb_enabled", "rem_filter", "remove"}
            => sgCountInit = 1
       /\ pc[t] \notin {"clear_init", "stop"}

\* A block is held by the application or worked on by one hook, not both.
OneHolder ==
  /\ \A a \in owned : size[a] # 0
  /\ \A t \in Thread :
       pc[t] # "idle" =>
         /\ size[ptr[t]] # 0
         /\ ptr[t] \notin owned
         /\ \A u \in Thread \ {t} : pc[u] # "idle" => ptr[u] # ptr[t]

\* A hook about to insert has a block of its own that no map holds; a hook
\* about to release one has taken it out of the maps.
NotYetListed ==
  \A t \in Thread :
    /\ pc[t] \in {"mb_enabled", "mb_init", "start", "set_init", "ins_filter", "insert"}
         => by[ptr[t]] = t /\ NoEntry(ptr[t])
    /\ pc[t] = "release" => NoEntry(ptr[t])

\* Every entry is its block's own.
ExactEntries ==
  \A u \in Thread, a \in Addr :
    memMap[u][a] # 0 => size[a] = memMap[u][a] /\ by[a] = u

IInv == TypeOK /\ Unfiltered /\ OneSession /\ OneHolder /\ NotYetListed /\ ExactEntries

\* No step of an always-on tracker sets a filter.
LEMMA UnfilteredStep == AlwaysOn /\ IInv /\ [Next]_vars => Unfiltered'
<1> SUFFICES ASSUME AlwaysOn, IInv, [Next]_vars PROVE Unfiltered'
  OBVIOUS
<1> USE DEF Unfiltered
<1>1. CASE ReadFile
  <2>1. memParam \in ParamFile
    BY DEF IInv, TypeOK
  <2>2. param'.min = 0 /\ param'.max = 0 /\ param'.start = 1
    BY <1>1, <2>1 DEF ReadFile, Parsed, AlwaysOn
  <2>3. QED
    BY <1>1, <2>2 DEF ReadFile, IInv
<1>2. CASE SetEnable \/ SetMin \/ SetMax
  BY <1>2 DEF SetEnable, SetMin, SetMax, NoParam, IInv
<1>3. CASE EditFile \/ UNCHANGED vars
  BY <1>3 DEF EditFile, vars, paramVars, IInv
<1>4. CASE \E t \in Thread : Call(t) \/ Hook(t)
  <2>1. UNCHANGED paramVars
    BY <1>4 DEF Call, Hook, Malloc, FreeCall, ReallocCall, Release, MallocEnabled,
      MallocInit, Start, SetInit, InsertFilter, Insert, FreeInit, FreeEnabled,
      RemoveFilter, Remove, ClearInit, Stop, LibcFree, LibcRealloc, LibcReallocFails
  <2>2. QED
    BY <2>1 DEF paramVars, IInv
<1>5. QED
  BY <1>1, <1>2, <1>3, <1>4 DEF Next, ParamThread

\* In an always-on tracker nothing is filtered out.
LEMMA NothingFiltered == IInv => \A a \in Addr : ~FilteredOut(size[a])
  BY DEF IInv, Unfiltered, FilteredOut

\* remove takes the last entry of the address with it.
LEMMA RemoveUnlists ==
  ASSUME TypeOK, ExactEntries, NEW t \in Thread, Remove(t)
  PROVE  memMap' = [u \in Thread |-> [memMap[u] EXCEPT ![ptr[t]] = 0]]
<1> DEFINE a == ptr[t]
<1>0. a \in Addr /\ memMap \in [Thread -> [Addr -> Size \cup {0}]]
  BY DEF TypeOK
<1>1. CASE Found(t) = {} /\ UNCHANGED mapVars
  <2>1. \A u \in Thread : memMap[u][a] = 0
    BY <1>1 DEF Found, Holders
  <2>2. \A u \in Thread : [memMap[u] EXCEPT ![a] = 0] = memMap[u]
    BY <1>0, <2>1
  <2>3. QED
    BY <1>0, <1>1, <2>2 DEF mapVars
<1>2. CASE \E u \in Found(t) : Erase(u, a)
  <2>1. PICK u \in Found(t) : Erase(u, a)
    BY <1>2
  <2>2. u \in Thread /\ by[a] = u
    BY <1>0 DEF Found, Holders, ExactEntries
  <2>3. \A v \in Thread \ {u} : memMap[v][a] = 0
    BY <1>0, <2>2 DEF ExactEntries
  <2>4. \A v \in Thread \ {u} : [memMap[v] EXCEPT ![a] = 0] = memMap[v]
    BY <1>0, <2>3
  <2>5. memMap' = [memMap EXCEPT ![u][a] = 0]
    BY <2>1 DEF Erase
  <2>6. QED
    BY <1>0, <2>2, <2>4, <2>5
<1>3. QED
  BY <1>1, <1>2 DEF Remove

\* The session, once started, is neither started nor stopped again.
LEMMA OneSessionStep == AlwaysOn /\ IInv /\ [Next]_vars => OneSession'
<1> SUFFICES ASSUME AlwaysOn, IInv, [Next]_vars PROVE OneSession'
  OBVIOUS
<1> USE DEF OneSession, NoEntry, heapVars, callVars, mapVars, flagVars, paramVars, histVars
<1>0. TypeOK /\ OneSession
  BY DEF IInv
<1>1. ASSUME NEW t \in Thread, Call(t) PROVE OneSession'
  BY <1>0, <1>1 DEF Call, Malloc, FreeCall, ReallocCall, Release, Goto, TypeOK
<1>2. ASSUME NEW t \in Thread, MallocEnabled(t) PROVE OneSession'
  BY <1>0, <1>2 DEF MallocEnabled, Return, Goto, TypeOK
<1>3. ASSUME NEW t \in Thread, MallocInit(t) PROVE OneSession'
  BY <1>0, <1>3 DEF MallocInit, Goto, TypeOK
<1>4. ASSUME NEW t \in Thread, Start(t) PROVE OneSession'
  <2>1. pc' = [pc EXCEPT ![t] = "set_init"] /\ bStart' /\ gCountStart = 1
    BY <1>0, <1>4 DEF Start, Goto
  <2>2. sgCountInit = 0 => \A u \in Thread, a \in Addr : memMap'[u][a] = 0
    BY <1>0, <1>4 DEF Start, ClearMaps
  <2>3. QED
    BY <1>0, <1>4, <2>1, <2>2 DEF Start, TypeOK
<1>5. ASSUME NEW t \in Thread, SetInit(t) PROVE OneSession'
  BY <1>0, <1>5 DEF SetInit, Goto, TypeOK
<1>6. ASSUME NEW t \in Thread, InsertFilter(t) PROVE OneSession'
  BY <1>0, <1>6 DEF InsertFilter, Return, Goto, TypeOK
<1>7. ASSUME NEW t \in Thread, Insert(t) PROVE OneSession'
  BY <1>0, <1>7 DEF Insert, Return, Goto, TypeOK
<1>8. ASSUME NEW t \in Thread, FreeInit(t) PROVE OneSession'
  BY <1>0, <1>8 DEF FreeInit, Goto, TypeOK
<1>9. ASSUME NEW t \in Thread, FreeEnabled(t) PROVE OneSession'
  BY <1>0, <1>9 DEF FreeEnabled, Goto, TypeOK
<1>10. ASSUME NEW t \in Thread, RemoveFilter(t) PROVE OneSession'
  BY <1>0, <1>10 DEF RemoveFilter, Goto, TypeOK
<1>11. ASSUME NEW t \in Thread, Remove(t) PROVE OneSession'
  BY <1>0, <1>11 DEF Remove, Goto, TypeOK
<1>12. ASSUME NEW t \in Thread, ClearInit(t) \/ Stop(t) PROVE OneSession'
  BY <1>0, <1>12 DEF ClearInit, Stop
<1>13. ASSUME NEW t \in Thread, LibcFree(t) \/ LibcRealloc(t) \/ LibcReallocFails(t)
       PROVE  OneSession'
  BY <1>0, <1>13 DEF LibcFree, LibcRealloc, LibcReallocFails, Return, Goto, TypeOK
<1>14. CASE SetEnable
  <2>1. gCountStart' = 1
    BY <1>14 DEF SetEnable, IInv, Unfiltered
  <2>2. QED
    BY <1>0, <1>14, <2>1 DEF SetEnable
<1>15. CASE ReadFile \/ SetMin \/ SetMax \/ EditFile \/ UNCHANGED vars
  BY <1>0, <1>15 DEF ReadFile, SetMin, SetMax, EditFile, vars
<1>16. QED
  BY <1>1, <1>2, <1>3, <1>4, <1>5, <1>6, <1>7, <1>8, <1>9, <1>10, <1>11, <1>12, <1>13,
     <1>14, <1>15
  DEF Next, Hook, ParamThread

\* A block changes hands between the application and one hook only.
LEMMA OneHolderStep == TypeOK /\ OneHolder /\ [Next]_vars => OneHolder'
<1> SUFFICES ASSUME TypeOK, OneHolder, [Next]_vars PROVE OneHolder'
  OBVIOUS
<1> USE DEF OneHolder, heapVars, callVars, mapVars, flagVars, paramVars, histVars
<1>0. TypeOK /\ OneHolder
  OBVIOUS
<1>1. ASSUME NEW t \in Thread, Malloc(t) PROVE OneHolder'
  <2>1. PICK a \in Free, s \in Size :
          /\ size' = [size EXCEPT ![a] = s]
          /\ ptr'  = [ptr EXCEPT ![t] = a]
    BY <1>1 DEF Malloc
  <2>2. a \in Addr /\ size[a] = 0 /\ s # 0
    BY ConstantsAssumption DEF Free
  <2>3. QED
    BY <1>0, <1>1, <2>1, <2>2 DEF Malloc, Goto, TypeOK
<1>2. ASSUME NEW t \in Thread, FreeCall(t) \/ ReallocCall(t) PROVE OneHolder'
  <2>1. PICK kind : Release(t, kind)
    BY <1>2 DEF FreeCall, ReallocCall
  <2>2. QED
    BY <1>0, <2>1 DEF Release, Goto, TypeOK
<1>3. ASSUME NEW t \in Thread,
             \/ MallocInit(t) \/ Start(t) \/ SetInit(t) \/ FreeInit(t) \/ FreeEnabled(t)
             \/ RemoveFilter(t) \/ Remove(t) \/ ClearInit(t) \/ Stop(t)
      PROVE  OneHolder'
  <2>1. UNCHANGED <<size, owned, ptr>> /\ pc[t] # "idle"
    BY <1>3 DEF MallocInit, Start, SetInit, FreeInit, FreeEnabled, RemoveFilter, Remove,
      ClearInit, Stop
  <2>2. \A u \in Thread \ {t} : pc'[u] = pc[u]
    BY <1>0, <1>3 DEF MallocInit, Start, SetInit, FreeInit, FreeEnabled, RemoveFilter,
      Remove, ClearInit, Stop, Goto, TypeOK
  <2>3. QED
    BY <1>0, <2>1, <2>2
<1>4. ASSUME NEW t \in Thread,
             MallocEnabled(t) \/ InsertFilter(t) \/ Insert(t) \/ LibcReallocFails(t)
      PROVE  OneHolder'
  <2>1. UNCHANGED <<size, ptr>> /\ pc[t] # "idle"
    BY <1>4 DEF MallocEnabled, InsertFilter, Insert, LibcReallocFails
  <2>2. \/ owned' = owned /\ \A u \in Thread \ {t} : pc'[u] = pc[u]
        \/ owned' = owned \cup {ptr[t]} /\ pc' = [pc EXCEPT ![t] = "idle"]
    BY <1>0, <1>4 DEF MallocEnabled, InsertFilter, Insert, LibcReallocFails, Return, Goto,
      TypeOK
  <2>3. QED
    BY <1>0, <2>1, <2>2 DEF TypeOK
<1>5. ASSUME NEW t \in Thread, LibcFree(t) PROVE OneHolder'
  BY <1>0, <1>5 DEF LibcFree, Goto, TypeOK
<1>6. ASSUME NEW t \in Thread, LibcRealloc(t) PROVE OneHolder'
  <2>1. PICK b \in Free \cup {ptr[t]}, s \in Size :
          /\ size' = [size EXCEPT ![ptr[t]] = 0, ![b] = s]
          /\ ptr'  = [ptr EXCEPT ![t] = b]
    BY <1>6 DEF LibcRealloc
  <2>2. b \in Addr /\ ptr[t] \in Addr /\ (b = ptr[t] \/ size[b] = 0) /\ s # 0
    BY <1>0, ConstantsAssumption DEF Free, TypeOK
  <2>3. \A a \in Addr \ {ptr[t]} : size[a] # 0 => size'[a] # 0 /\ a # b
    BY <1>0, <2>1, <2>2 DEF TypeOK
  <2>4. size'[b] # 0 /\ ptr'[t] = b /\ \A u \in Thread \ {t} : ptr'[u] = ptr[u]
    BY <1>0, <2>1, <2>2 DEF TypeOK
  <2>5. pc[t] # "idle" /\ owned' = owned /\ \A u \in Thread \ {t} : pc'[u] = pc[u]
    BY <1>0, <1>6 DEF LibcRealloc, Goto, TypeOK
  <2>6. \A a \in owned : size'[a] # 0 /\ a # b
    BY <1>0, <2>3, <2>5 DEF TypeOK
  <2>7. ASSUME NEW u \in Thread \ {t}, pc[u] # "idle"
        PROVE  size'[ptr[u]] # 0 /\ ptr[u] # b /\ ptr[u] \notin owned
    BY <1>0, <2>3, <2>5, <2>7 DEF TypeOK
  <2>8. ASSUME NEW u \in Thread, pc'[u] # "idle"
        PROVE  size'[ptr'[u]] # 0 /\ ptr'[u] \notin owned
    BY <2>4, <2>5, <2>6, <2>7, <2>8
  <2>9. ASSUME NEW u \in Thread, pc'[u] # "idle", NEW v \in Thread \ {u}, pc'[v] # "idle"
        PROVE  ptr'[u] # ptr'[v]
    BY <1>0, <2>4, <2>5, <2>7, <2>9
  <2>10. QED
    BY <2>5, <2>6, <2>8, <2>9
<1>7. CASE ParamThread \/ EditFile \/ UNCHANGED vars
  BY <1>0, <1>7 DEF ParamThread, ReadFile, SetEnable, SetMin, SetMax, EditFile, vars
<1>8. QED
  BY <1>1, <1>2, <1>3, <1>4, <1>5, <1>6, <1>7 DEF Next, Call, Hook

\* No hook meets an entry where its block should have none.
LEMMA NotYetListedStep == AlwaysOn /\ IInv /\ [Next]_vars => NotYetListed'
<1> SUFFICES ASSUME AlwaysOn, IInv, [Next]_vars PROVE NotYetListed'
  OBVIOUS
<1> USE DEF NotYetListed, NoEntry, heapVars, callVars, mapVars, flagVars, paramVars, histVars
<1>0. TypeOK /\ OneSession /\ OneHolder /\ NotYetListed /\ ExactEntries
  BY DEF IInv
<1>1. ASSUME NEW t \in Thread, Malloc(t) PROVE NotYetListed'
  <2>1. PICK a \in Free, s \in Size :
          by' = [by EXCEPT ![a] = t] /\ ptr' = [ptr EXCEPT ![t] = a]
    BY <1>1 DEF Malloc
  <2>2. a \in Addr /\ size[a] = 0 /\ \A u \in Thread : memMap[u][a] = 0
    BY <1>0 DEF Free, ExactEntries, TypeOK
  <2>3. \A u \in Thread \ {t} : pc[u] # "idle" => ptr[u] # a
    BY <1>0, <2>2 DEF OneHolder
  <2>4. memMap' = memMap /\ pc' = [pc EXCEPT ![t] = "mb_enabled"]
    BY <1>1 DEF Malloc, Goto
  <2>5. QED
    BY <1>0, <2>1, <2>2, <2>3, <2>4 DEF TypeOK
<1>2. ASSUME NEW t \in Thread, FreeCall(t) \/ ReallocCall(t) PROVE NotYetListed'
  <2>1. PICK kind : Release(t, kind)
    BY <1>2 DEF FreeCall, ReallocCall
  <2>2. QED
    BY <1>0, <2>1 DEF Release, Goto, TypeOK
<1>3. ASSUME NEW t \in Thread,
             MallocEnabled(t) \/ MallocInit(t) \/ SetInit(t) \/ InsertFilter(t)
      PROVE  NotYetListed'
  <2>1. UNCHANGED <<by, ptr, memMap>>
    BY <1>3 DEF MallocEnabled, MallocInit, SetInit, InsertFilter
  <2>2. \A u \in Thread \ {t} : pc'[u] = pc[u]
    BY <1>0, <1>3 DEF MallocEnabled, MallocInit, SetInit, InsertFilter, Return, Goto,
      TypeOK
  <2>3. /\ pc[t] \in {"mb_enabled", "mb_init", "set_init", "ins_filter"}
        /\ pc'[t] # "release"
    BY <1>0, <1>3 DEF MallocEnabled, MallocInit, SetInit, InsertFilter, Return, Goto,
      TypeOK
  <2>4. QED
    BY <1>0, <2>1, <2>2, <2>3
<1>4. ASSUME NEW t \in Thread, Start(t) PROVE NotYetListed'
  <2>1. UNCHANGED <<by, ptr>> /\ pc[t] = "start" /\ pc' = [pc EXCEPT ![t] = "set_init"]
    BY <1>4 DEF Start, Goto
  <2>2. \A u \in Thread, a \in Addr : memMap[u][a] = 0 => memMap'[u][a] = 0
    BY <1>4 DEF Start, ClearMaps
  <2>3. QED
    BY <1>0, <2>1, <2>2 DEF TypeOK
<1>5. ASSUME NEW t \in Thread, Insert(t) PROVE NotYetListed'
  <2>1. UNCHANGED <<by, ptr>> /\ pc[t] = "insert" /\ pc' = [pc EXCEPT ![t] = "idle"]
    BY <1>5 DEF Insert, Return, Goto
  <2>2. \A a \in Addr \ {ptr[t]}, u \in Thread : memMap[u][a] = 0 => memMap'[u][a] = 0
    BY <1>0, <1>5 DEF Insert, TypeOK
  <2>3. QED
    BY <1>0, <2>1, <2>2 DEF OneHolder, TypeOK
<1>6. ASSUME NEW t \in Thread, FreeInit(t) PROVE NotYetListed'
  BY <1>0, <1>6 DEF FreeInit, Goto, OneSession, TypeOK
<1>7. ASSUME NEW t \in Thread, FreeEnabled(t) PROVE NotYetListed'
  BY <1>0, <1>7 DEF FreeEnabled, Goto, TypeOK
<1>8. ASSUME NEW t \in Thread, RemoveFilter(t) PROVE NotYetListed'
  BY <1>0, <1>8, NothingFiltered DEF RemoveFilter, Goto, TypeOK
<1>9. ASSUME NEW t \in Thread, Remove(t) PROVE NotYetListed'
  <2>1. UNCHANGED <<by, ptr>> /\ pc' = [pc EXCEPT ![t] = "release"]
    BY <1>9 DEF Remove, Goto
  <2>2. \A u \in Thread, a \in Addr :
          (a = ptr[t] \/ memMap[u][a] = 0) => memMap'[u][a] = 0
    BY <1>0, <1>9, RemoveUnlists DEF TypeOK
  <2>3. QED
    BY <1>0, <2>1, <2>2 DEF TypeOK
<1>10. ASSUME NEW t \in Thread, ClearInit(t) \/ Stop(t) PROVE NotYetListed'
  BY <1>0, <1>10 DEF ClearInit, Stop, OneSession
<1>11. ASSUME NEW t \in Thread, LibcFree(t) PROVE NotYetListed'
  <2>1. \A u \in Thread \ {t} : pc[u] # "idle" => ptr[u] # ptr[t]
    BY <1>0, <1>11 DEF LibcFree, OneHolder
  <2>2. QED
    BY <1>0, <1>11, <2>1 DEF LibcFree, Goto, TypeOK
<1>12. ASSUME NEW t \in Thread, LibcRealloc(t) PROVE NotYetListed'
  <2>1. PICK b \in Free \cup {ptr[t]} :
          /\ by'  = [by EXCEPT ![ptr[t]] = NoThread, ![b] = t]
          /\ ptr' = [ptr EXCEPT ![t] = b]
    BY <1>12 DEF LibcRealloc
  <2>2. b \in Addr /\ \A u \in Thread : memMap[u][b] = 0
    BY <1>0, <1>12 DEF LibcRealloc, Free, ExactEntries, TypeOK
  <2>3. \A u \in Thread \ {t} : pc[u] # "idle" => ptr[u] # b /\ ptr[u] # ptr[t]
    BY <1>0, <1>12 DEF LibcRealloc, Free, OneHolder
  <2>4. memMap' = memMap /\ pc' = [pc EXCEPT ![t] = "mb_enabled"]
    BY <1>12 DEF LibcRealloc, Goto
  <2>5. QED
    BY <1>0, <2>1, <2>2, <2>3, <2>4 DEF TypeOK
<1>13. ASSUME NEW t \in Thread, LibcReallocFails(t) PROVE NotYetListed'
  BY <1>0, <1>13 DEF LibcReallocFails, Return, Goto, TypeOK
<1>14. CASE ParamThread \/ EditFile \/ UNCHANGED vars
  BY <1>0, <1>14 DEF ParamThread, ReadFile, SetEnable, SetMin, SetMax, EditFile, vars
<1>15. QED
  BY <1>1, <1>2, <1>3, <1>4, <1>5, <1>6, <1>7, <1>8, <1>9, <1>10, <1>11, <1>12, <1>13,
     <1>14
  DEF Next, Call, Hook

\* An entry is its block's own after every step.
LEMMA ExactEntriesStep == AlwaysOn /\ IInv /\ [Next]_vars => ExactEntries'
<1> SUFFICES ASSUME AlwaysOn, IInv, [Next]_vars PROVE ExactEntries'
  OBVIOUS
<1> USE DEF ExactEntries, heapVars, callVars, mapVars, flagVars, paramVars, histVars
<1>0. TypeOK /\ OneSession /\ OneHolder /\ NotYetListed /\ ExactEntries
  BY DEF IInv
<1>1. ASSUME NEW t \in Thread, Malloc(t) PROVE ExactEntries'
  <2>1. PICK a \in Free, s \in Size :
          size' = [size EXCEPT ![a] = s] /\ by' = [by EXCEPT ![a] = t]
    BY <1>1 DEF Malloc
  <2>2. a \in Addr /\ \A u \in Thread : memMap[u][a] = 0
    BY <1>0 DEF Free, TypeOK
  <2>3. QED
    BY <1>0, <1>1, <2>1, <2>2 DEF Malloc, TypeOK
<1>2. ASSUME NEW t \in Thread, Insert(t) PROVE ExactEntries'
  <2>1. UNCHANGED <<size, by>> /\ by[ptr[t]] = t
        /\ memMap' = [memMap EXCEPT ![t][ptr[t]] = size[ptr[t]]]
    BY <1>0, <1>2 DEF Insert, NotYetListed
  <2>2. QED
    BY <1>0, <2>1 DEF TypeOK
<1>3. ASSUME NEW t \in Thread, Start(t) PROVE ExactEntries'
  BY <1>0, <1>3 DEF Start, ClearMaps
<1>4. ASSUME NEW t \in Thread, Remove(t) PROVE ExactEntries'
  BY <1>0, <1>4, RemoveUnlists DEF Remove, TypeOK
<1>5. ASSUME NEW t \in Thread, LibcFree(t) PROVE ExactEntries'
  BY <1>0, <1>5 DEF LibcFree, NotYetListed, NoEntry, TypeOK
<1>6. ASSUME NEW t \in Thread, LibcRealloc(t) PROVE ExactEntries'
  <2>1. PICK b \in Free \cup {ptr[t]}, s \in Size :
          /\ size' = [size EXCEPT ![ptr[t]] = 0, ![b] = s]
          /\ by'   = [by EXCEPT ![ptr[t]] = NoThread, ![b] = t]
    BY <1>6 DEF LibcRealloc
  <2>2. \A u \in Thread : memMap[u][ptr[t]] = 0 /\ memMap[u][b] = 0
    BY <1>0, <1>6 DEF LibcRealloc, Free, NotYetListed, NoEntry, TypeOK
  <2>3. QED
    BY <1>0, <1>6, <2>1, <2>2 DEF LibcRealloc, TypeOK
<1>7. ASSUME NEW t \in Thread,
             \/ FreeCall(t) \/ ReallocCall(t)
             \/ MallocEnabled(t) \/ MallocInit(t) \/ SetInit(t) \/ InsertFilter(t)
             \/ FreeInit(t) \/ FreeEnabled(t) \/ RemoveFilter(t)
             \/ ClearInit(t) \/ Stop(t) \/ LibcReallocFails(t)
      PROVE  UNCHANGED <<size, by, memMap>>
  BY <1>7 DEF FreeCall, ReallocCall, Release, MallocEnabled, MallocInit, SetInit,
    InsertFilter, FreeInit, FreeEnabled, RemoveFilter, ClearInit, Stop, LibcReallocFails
<1>8. CASE ParamThread \/ EditFile \/ UNCHANGED vars
  BY <1>0, <1>8 DEF ParamThread, ReadFile, SetEnable, SetMin, SetMax, EditFile, vars
<1>9. CASE UNCHANGED <<size, by, memMap>>
  BY <1>0, <1>9
<1>10. QED
  BY <1>1, <1>2, <1>3, <1>4, <1>5, <1>6, <1>7, <1>8, <1>9 DEF Next, Call, Hook

\* The inductive invariant: what readers of the hooks rely on while the tracker
\* is always on and unfiltered.
THEOREM AlwaysOnInvariant == AlwaysOn => (Spec => []IInv)
<1> SUFFICES ASSUME AlwaysOn PROVE Spec => []IInv
  OBVIOUS
<1>1. Init => IInv
  <2> SUFFICES ASSUME Init PROVE IInv
    OBVIOUS
  <2>1. TypeOK
    BY DEF Init, TypeOK, ParamFile, NoParam
  <2>2. Unfiltered /\ OneSession /\ OneHolder
    BY DEF Init, NoParam, Unfiltered, OneSession, NoEntry, OneHolder
  <2>3. NotYetListed /\ ExactEntries
    BY DEF Init, NotYetListed, ExactEntries
  <2>4. QED
    BY <2>1, <2>2, <2>3 DEF IInv
<1>2. IInv /\ [Next]_vars => IInv'
  BY TypeStep, UnfilteredStep, OneSessionStep, OneHolderStep, NotYetListedStep,
     ExactEntriesStep
  DEF IInv
<1>3. QED
  BY <1>1, <1>2, PTL DEF Spec

\* With the tracker always on and unfiltered, an entry of the maps is at every
\* moment a block allocated now, under its allocator and with its size: the
\* report never lists a released block, and never counts one twice.
THEOREM AlwaysOnExact == AlwaysOn => (Spec => []ExactAttribution)
<1> SUFFICES ASSUME AlwaysOn PROVE Spec => []ExactAttribution
  OBVIOUS
<1>1. IInv => ExactAttribution
  BY DEF IInv, ExactEntries, ExactAttribution
<1>2. QED
  BY <1>1, AlwaysOnInvariant, PTL

\* With the tracker always on, every free and realloc that finds its block in
\* the thread's own map releases a block this thread allocated (count.h:138).
THEOREM AlwaysOnOwnBlock == AlwaysOn => (Spec => []OwnMapMeansOwnBlock)
<1> SUFFICES ASSUME AlwaysOn PROVE Spec => []OwnMapMeansOwnBlock
  OBVIOUS
<1>1. TypeOK /\ ExactEntries => OwnMapMeansOwnBlock
  BY DEF TypeOK, ExactEntries, OwnMapMeansOwnBlock, Holders
<1>2. IInv => TypeOK /\ ExactEntries
  BY DEF IInv
<1>3. QED
  BY <1>1, <1>2, AlwaysOnInvariant, PTL

-----------------------------------------------------------------------------
(* The tracker, always on and unfiltered, implements the ledger: each of   *)
(* its steps is a step of the ledger or changes nothing the ledger shows.  *)

\* A free address has no allocator.
FreeUnowned == \A a \in Addr : size[a] = 0 => by[a] = NoThread

RefInv == IInv /\ FreeUnowned

\* libc's blocks and their allocators change together.
LEMMA FreeUnownedStep == IInv /\ FreeUnowned /\ [Next]_vars => FreeUnowned'
<1> SUFFICES ASSUME IInv, FreeUnowned, [Next]_vars PROVE FreeUnowned'
  OBVIOUS
<1> USE DEF FreeUnowned, heapVars
<1>0. TypeOK
  BY DEF IInv
<1>1. ASSUME NEW t \in Thread, Malloc(t) PROVE FreeUnowned'
  <2>1. PICK a \in Free, s \in Size :
          size' = [size EXCEPT ![a] = s] /\ by' = [by EXCEPT ![a] = t]
    BY <1>1 DEF Malloc
  <2>2. QED
    BY <1>0, <2>1, ConstantsAssumption DEF TypeOK, Free
<1>2. ASSUME NEW t \in Thread, LibcFree(t) PROVE FreeUnowned'
  BY <1>0, <1>2 DEF LibcFree, TypeOK
<1>3. ASSUME NEW t \in Thread, LibcRealloc(t) PROVE FreeUnowned'
  <2>1. PICK b \in Free \cup {ptr[t]}, s \in Size :
          /\ size' = [size EXCEPT ![ptr[t]] = 0, ![b] = s]
          /\ by'   = [by EXCEPT ![ptr[t]] = NoThread, ![b] = t]
    BY <1>3 DEF LibcRealloc
  <2>2. s # 0 /\ b \in Addr /\ ptr[t] \in Addr
    BY <1>0, ConstantsAssumption DEF TypeOK, Free
  <2>3. QED
    BY <1>0, <2>1, <2>2 DEF TypeOK
<1>4. ASSUME NEW t \in Thread,
             \/ FreeCall(t) \/ ReallocCall(t)
             \/ MallocEnabled(t) \/ MallocInit(t) \/ Start(t) \/ SetInit(t)
             \/ InsertFilter(t) \/ Insert(t)
             \/ FreeInit(t) \/ FreeEnabled(t) \/ RemoveFilter(t) \/ Remove(t)
             \/ ClearInit(t) \/ Stop(t) \/ LibcReallocFails(t)
      PROVE  UNCHANGED heapVars
  BY <1>4 DEF FreeCall, ReallocCall, Release, MallocEnabled, MallocInit, Start, SetInit,
    InsertFilter, Insert, FreeInit, FreeEnabled, RemoveFilter, Remove, ClearInit, Stop,
    LibcReallocFails
<1>5. CASE ParamThread \/ EditFile \/ UNCHANGED vars
  BY <1>5 DEF ParamThread, ReadFile, SetEnable, SetMin, SetMax, EditFile, vars
<1>6. CASE UNCHANGED heapVars
  BY <1>6
<1>7. QED
  BY <1>1, <1>2, <1>3, <1>4, <1>5, <1>6 DEF Next, Call, Hook

\* What the ledger shows of the tracker.
Shown == [a \in Addr |-> [listed |-> ~NoEntry(a), tid |-> by[a], size |-> size[a]]]

\* While the invariant holds the ledger shows a block's own allocator and size.
LEMMA BlocksShow == IInv => Blocks = Shown
BY ZenonT(60) DEF IInv, ExactEntries, Blocks, Block, Holders, Tracked, NoEntry, Shown

\* One block of it.
LEMMA ShownAt ==
  ASSUME IInv, NEW a \in Addr
  PROVE  Blocks[a].size = size[a] /\ (Blocks[a].listed <=> ~NoEntry(a))
<1>1. Blocks[a] = [listed |-> ~NoEntry(a), tid |-> by[a], size |-> size[a]]
  BY BlocksShow DEF Shown
<1>2. Blocks[a].size = size[a]
  BY <1>1
<1>3. Blocks[a].listed = ~NoEntry(a)
  BY <1>1
<1>4. Blocks[a].listed <=> ~NoEntry(a)
  BY <1>3, Zenon
<1>5. QED
  BY <1>2, <1>4

\* The same after a step.
LEMMA BlocksShowNext == IInv' => Blocks' = Shown'
BY DEF IInv, ExactEntries, Blocks, Block, Holders, Tracked, NoEntry, Shown

\* A step that leaves the blocks and their entries alone is no step of the
\* ledger.
LEMMA NoLedgerStep ==
  ASSUME IInv, IInv', UNCHANGED <<size, by>>,
         \A a \in Addr : NoEntry(a)' <=> NoEntry(a)
  PROVE  UNCHANGED Blocks
BY BlocksShow, BlocksShowNext DEF Shown

\* malloc takes an unused address.
LEMMA MallocTakes ==
  ASSUME RefInv, IInv', NEW t \in Thread, Malloc(t)
  PROVE  L!Next
<1>0. TypeOK /\ FreeUnowned /\ IInv
  BY DEF RefInv, IInv
<1>1. PICK a \in Free, s \in Size :
        size' = [size EXCEPT ![a] = s] /\ by' = [by EXCEPT ![a] = t]
  BY DEF Malloc
<1>2. a \in Addr /\ size[a] = 0 /\ memMap' = memMap
  BY DEF Free, Malloc, mapVars
<1>3. NoEntry(a) /\ by[a] = NoThread
  BY <1>0, <1>2 DEF FreeUnowned, IInv, ExactEntries, NoEntry, TypeOK
<1>4. Blocks[a] = L!Nothing
  BY <1>0, <1>2, <1>3, BlocksShow DEF Shown, L!Nothing
<1>5. Shown' = [Shown EXCEPT ![a] = L!Held(t, s)]
  BY <1>0, <1>1, <1>2, <1>3 DEF Shown, L!Held, TypeOK, NoEntry
<1>6. L!Take(t, a, s)
  BY <1>0, <1>4, <1>5, BlocksShow, BlocksShowNext DEF L!Take
<1>7. QED
  BY <1>2, <1>6 DEF L!Next

\* insert lists the block the hook has in its hands.
LEMMA InsertLists ==
  ASSUME RefInv, IInv', NEW t \in Thread, Insert(t)
  PROVE  L!Next
<1>0. PICK a \in Addr : a = ptr[t] /\ TypeOK /\ IInv
  BY DEF RefInv, IInv, TypeOK
<1>1. NoEntry(a) /\ size[a] # 0 /\ UNCHANGED <<size, by>>
  BY <1>0 DEF RefInv, IInv, NotYetListed, OneHolder, Insert, heapVars
<1>2. memMap' = [memMap EXCEPT ![t][a] = size[a]]
  BY <1>0 DEF Insert
<1>3. ~NoEntry(a)' /\ \A b \in Addr \ {a} : NoEntry(b)' <=> NoEntry(b)
  BY <1>0, <1>1, <1>2 DEF NoEntry, TypeOK
<1>4. Shown' = [Shown EXCEPT ![a].listed = TRUE]
  BY <1>0, <1>1, <1>3 DEF Shown
<1>5. Blocks[a].size # 0 /\ ~Blocks[a].listed
  BY <1>0, <1>1, ShownAt
<1>6. Blocks' = [Blocks EXCEPT ![a].listed = TRUE]
  BY <1>0, <1>4, BlocksShow, BlocksShowNext
<1>7. L!List(a)
  BY <1>5, <1>6 DEF L!List, L!InUse
<1>8. QED
  BY <1>0, <1>7 DEF L!Next

\* remove takes the block from the list, if it is there.
LEMMA RemoveTakesOff ==
  ASSUME RefInv, IInv', NEW t \in Thread, Remove(t)
  PROVE  L!Next \/ UNCHANGED Blocks
<1>0. PICK a \in Addr : a = ptr[t] /\ TypeOK /\ IInv
  BY DEF RefInv, IInv, TypeOK
<1>1. size[a] # 0 /\ UNCHANGED <<size, by>>
  BY <1>0 DEF RefInv, IInv, OneHolder, Remove, heapVars
<1>2. memMap' = [u \in Thread |-> [memMap[u] EXCEPT ![a] = 0]]
  BY <1>0, RemoveUnlists DEF IInv
<1>3. NoEntry(a)' /\ \A b \in Addr \ {a} : NoEntry(b)' <=> NoEntry(b)
  BY <1>0, <1>2 DEF NoEntry, TypeOK
<1>4. CASE NoEntry(a)
  BY <1>0, <1>1, <1>3, <1>4, NoLedgerStep
<1>5. CASE ~NoEntry(a)
  <2>1. Shown' = [Shown EXCEPT ![a].listed = FALSE]
    BY <1>0, <1>1, <1>3 DEF Shown
  <2>2. Blocks[a].size # 0 /\ Blocks[a].listed
    BY <1>0, <1>1, <1>5, ShownAt
  <2>3. Blocks' = [Blocks EXCEPT ![a].listed = FALSE]
    BY <1>0, <2>1, BlocksShow, BlocksShowNext
  <2>4. L!Unlist(a)
    BY <2>2, <2>3 DEF L!Unlist, L!InUse
  <2>5. QED
    BY <1>0, <2>4 DEF L!Next
<1>6. QED
  BY <1>4, <1>5

\* What a hook gives back to libc is allocated and not listed.
LEMMA ReleasedUnlisted ==
  ASSUME RefInv, NEW t \in Thread, pc[t] = "release"
  PROVE  ptr[t] \in Addr /\ NoEntry(ptr[t]) /\ size[ptr[t]] # 0
BY DEF RefInv, IInv, TypeOK, NotYetListed, OneHolder

\* free gives back a block that is not listed.
LEMMA FreeDrops ==
  ASSUME RefInv, IInv', NEW t \in Thread, LibcFree(t)
  PROVE  L!Next
<1>0. PICK a \in Addr : a = ptr[t] /\ TypeOK /\ IInv
  BY DEF RefInv, IInv, TypeOK
<1>1. NoEntry(a) /\ size[a] # 0
  BY <1>0, ReleasedUnlisted DEF LibcFree
<1>2. /\ size' = [size EXCEPT ![a] = 0] /\ by' = [by EXCEPT ![a] = NoThread]
      /\ memMap' = memMap
  BY <1>0 DEF LibcFree, mapVars
<1>3. Shown' = [Shown EXCEPT ![a] = L!Nothing]
  BY <1>0, <1>1, <1>2 DEF Shown, L!Nothing, NoEntry, TypeOK
<1>4. Blocks[a].size # 0 /\ ~Blocks[a].listed
  BY <1>0, <1>1, ShownAt
<1>5. Blocks' = [Blocks EXCEPT ![a] = L!Nothing]
  BY <1>0, <1>3, BlocksShow, BlocksShowNext
<1>6. L!Drop(a)
  BY <1>4, <1>5 DEF L!Drop, L!InUse
<1>7. QED
  BY <1>0, <1>6 DEF L!Next

\* realloc moves a block that is not listed, to itself or to a free address.
LEMMA ReallocMoves ==
  ASSUME RefInv, IInv', NEW t \in Thread, LibcRealloc(t)
  PROVE  L!Next
<1>0. PICK a \in Addr : a = ptr[t] /\ TypeOK /\ IInv /\ FreeUnowned
  BY DEF RefInv, IInv, TypeOK
<1>1. NoEntry(a) /\ size[a] # 0
  BY <1>0, ReleasedUnlisted DEF LibcRealloc
<1>2. PICK b \in Free \cup {a}, s \in Size :
        /\ size' = [size EXCEPT ![a] = 0, ![b] = s]
        /\ by'   = [by EXCEPT ![a] = NoThread, ![b] = t]
  BY <1>0 DEF LibcRealloc
<1>3. memMap' = memMap /\ b \in Addr /\ (b # a => size[b] = 0)
  BY <1>1 DEF LibcRealloc, mapVars, Free
<1>4. NoEntry(b) /\ (b # a => by[b] = NoThread)
  BY <1>0, <1>1, <1>3 DEF FreeUnowned, IInv, ExactEntries, NoEntry, TypeOK
<1>5. b = a \/ Blocks[b] = L!Nothing
  BY <1>0, <1>3, <1>4, BlocksShow DEF Shown, L!Nothing
<1>6. Shown' = [Shown EXCEPT ![a] = L!Nothing, ![b] = L!Held(t, s)]
  BY <1>0, <1>1, <1>2, <1>3, <1>4, ZenonT(60) DEF Shown, L!Nothing, L!Held, NoEntry, TypeOK
<1>7. Blocks[a].size # 0 /\ ~Blocks[a].listed
  BY <1>0, <1>1, ShownAt
<1>8. Blocks' = [Blocks EXCEPT ![a] = L!Nothing, ![b] = L!Held(t, s)]
  BY <1>0, <1>6, BlocksShow, BlocksShowNext
<1>9. L!Move(t, a, b, s)
  BY <1>5, <1>7, <1>8 DEF L!Move, L!InUse
<1>10. QED
  BY <1>0, <1>3, <1>9 DEF L!Next

\* The first start() finds the maps empty, and a later one leaves them alone.
LEMMA StartShowsNothing ==
  ASSUME RefInv, IInv', NEW t \in Thread, Start(t)
  PROVE  UNCHANGED Blocks
<1>0. TypeOK /\ IInv /\ OneSession /\ UNCHANGED <<size, by>>
  BY DEF RefInv, IInv, Start, heapVars
<1>1. CASE bStart
  <2>1. UNCHANGED memMap
    BY <1>1 DEF Start, mapVars
  <2>2. QED
    BY <1>0, <2>1, NoLedgerStep DEF NoEntry
<1>2. CASE ~bStart
  <2>1. \A a \in Addr : NoEntry(a)
    BY <1>0, <1>2 DEF OneSession, TypeOK
  <2>2. \A a \in Addr : NoEntry(a)'
    BY <1>2 DEF Start, ClearMaps, NoEntry
  <2>3. QED
    BY <1>0, <2>1, <2>2, NoLedgerStep
<1>3. QED
  BY <1>1, <1>2

\* Every step of the tracker is a step of the ledger, or shows nothing.
LEMMA LedgerStep == AlwaysOn /\ RefInv /\ IInv' /\ [Next]_vars => [L!Next]_Blocks
<1> SUFFICES ASSUME RefInv, IInv', [Next]_vars PROVE L!Next \/ UNCHANGED Blocks
  OBVIOUS
<1>1. ASSUME NEW t \in Thread,
             \/ FreeCall(t) \/ ReallocCall(t)
             \/ MallocEnabled(t) \/ MallocInit(t) \/ SetInit(t) \/ InsertFilter(t)
             \/ FreeInit(t) \/ FreeEnabled(t) \/ RemoveFilter(t)
             \/ ClearInit(t) \/ Stop(t) \/ LibcReallocFails(t)
      PROVE  UNCHANGED <<size, by, memMap>>
  BY <1>1 DEF FreeCall, ReallocCall, Release, MallocEnabled, MallocInit, SetInit,
    InsertFilter, FreeInit, FreeEnabled, RemoveFilter, ClearInit, Stop, LibcReallocFails,
    heapVars, mapVars
<1>2. CASE ParamThread \/ EditFile \/ UNCHANGED vars
  <2>1. UNCHANGED <<size, by, memMap>>
    BY <1>2 DEF ParamThread, ReadFile, SetEnable, SetMin, SetMax, EditFile, vars,
      heapVars, mapVars
  <2>2. QED
    BY <2>1, NoLedgerStep DEF NoEntry, RefInv
<1>3. CASE UNCHANGED <<size, by, memMap>>
  BY <1>3, NoLedgerStep DEF NoEntry, RefInv
<1>4. ASSUME NEW t \in Thread, Call(t) \/ Hook(t) PROVE L!Next \/ UNCHANGED Blocks
  BY <1>1, <1>3, <1>4, MallocTakes, InsertLists, RemoveTakesOff, FreeDrops, ReallocMoves,
     StartShowsNothing
  DEF Call, Hook
<1>5. QED
  BY <1>2, <1>4 DEF Next

\* With the tracker always on and unfiltered the hooks implement the ledger,
\* for any number of threads, addresses and sizes: the report never lists a
\* block that is not allocated, and no block is given back or moved while the
\* report lists it.
THEOREM ImplementsLedger == AlwaysOn => (Spec => KeepsLedger)
<1> SUFFICES ASSUME AlwaysOn PROVE Spec => KeepsLedger
  OBVIOUS
<1>1. Init => FreeUnowned /\ L!Init
  <2> SUFFICES ASSUME Init PROVE FreeUnowned /\ L!Init
    OBVIOUS
  <2>1. FreeUnowned
    BY DEF Init, FreeUnowned
  <2>2. ASSUME NEW a \in Addr PROVE Block(a) = L!Nothing
    <3>1. Holders(a) = {} /\ size[a] = 0 /\ by[a] = NoThread
      BY DEF Init, Holders
    <3>2. QED
      BY <3>1 DEF Block, Tracked, L!Nothing
  <2>3. QED
    BY <2>1, <2>2 DEF L!Init, Blocks
<1>2. Spec => []FreeUnowned
  BY <1>1, FreeUnownedStep, AlwaysOnInvariant, PTL DEF Spec
<1>3. QED
  BY <1>1, <1>2, LedgerStep, AlwaysOnInvariant, PTL DEF Spec, RefInv, KeepsLedger, L!Spec

-----------------------------------------------------------------------------
(* Sessions: parameter files that turn the tracker off and on again, any    *)
(* number of times and whatever the hooks are doing.  What a session        *)
(* promises, it promises if its switch-on found the one before it over      *)
(* (settled).                                                               *)

\* Up to the stop() of a settled session, a thread inserts only after a
\* start() that no other start() will clear after.
InsertsCovered ==
  settled /\ ~stopped =>
    /\ sgCountInit = 1 => bStart
    /\ ~bStart => counted = {}
    /\ \A t \in Thread :
         pc[t] \in {"set_init", "ins_filter", "insert"} => bStart

SInv == TypeOK /\ OneHolder /\ InsertsCovered /\ NoMissedLeak

FileStart(f) == IF Len(f) > 0 THEN f[1] ELSE 0

\* A file that switches the tracker on is complete and sets no filter; what
\* one that switches it off says does not matter.
PlainSessions ==
  \A f \in ParamFile : FileStart(f) = 1 => Len(f) > 3 /\ f[3] = 0 /\ f[4] = 0

InHand == {"mb_enabled", "mb_init", "start", "set_init", "ins_filter", "insert"}

\* A thread tracks only blocks it allocated.
OwnBlock == \A t \in Thread : pc[t] \in InHand => by[ptr[t]] = t

\* While sm_bStart is set and sg_count_init is not, a hook is on its way to
\* make them agree.
StartPending ==
  bStart /\ sgCountInit = 0 => \E t \in Thread : pc[t] \in {"set_init", "stop"}

\* A file that has switched the tracker on, or is about to, changes no filter.
UnfilteredOn ==
  /\ paramPc = "enable" /\ param.start = 1 => param.min = 0 /\ param.max = 0
  /\ paramPc \in {"min", "max"} /\ gCountStart = 1 => param.min = 0 /\ param.max = 0

OnNow == gCountStart = 1 /\ settled

\* While a settled session is on no hook stops it, and whoever inserts finds
\* it started and the block's size within the filters.
SessionOrder ==
  OnNow =>
    /\ sgCountInit = 1 => bStart
    /\ \A t \in Thread :
         /\ pc[t] \notin {"clear_init", "stop"}
         /\ pc[t] = "set_init" => bStart
         /\ pc[t] \in {"ins_filter", "insert"} => sgCountInit = 1
         /\ pc[t] = "insert" => ~FilteredOut(size[ptr[t]])

\* From its start() on, its maps hold no entry that is not its block's own,
\* none that remove's filter would skip, none for a block about to be inserted
\* or given back, and none before the first insert.
SessionExact ==
  OnNow /\ bStart =>
    /\ sgCountInit = 0 => \A a \in Addr : NoEntry(a)
    /\ ExactEntries
    /\ \A u \in Thread, a \in Addr : memMap[u][a] # 0 => ~FilteredOut(memMap[u][a])
    /\ \A t \in Thread : pc[t] \in InHand \cup {"release"} => NoEntry(ptr[t])

EInv ==
  /\ TypeOK /\ OneHolder /\ OwnBlock
  /\ StartPending /\ UnfilteredOn
  /\ SessionOrder /\ SessionExact

-----------------------------------------------------------------------------
(* No missed leak. *)

\* A hook leaves the parameter thread alone.
LEMMA HooksKeepParam ==
  ASSUME NEW t \in Thread, Call(t) \/ Hook(t)
  PROVE  UNCHANGED <<paramVars, gCountStart>>
BY DEF Call, Hook, Malloc, FreeCall, ReallocCall, Release, MallocEnabled, MallocInit,
  Start, SetInit, InsertFilter, Insert, FreeInit, FreeEnabled, RemoveFilter, Remove,
  ClearInit, Stop, LibcFree, LibcRealloc, LibcReallocFails, flagVars

\* The counted blocks change with an insert, a release to libc or a switch-on;
\* nothing else but start and stop touches sm_bStart.
LEMMA InsertsCoveredStep ==
  ASSUME SInv, [Next]_vars
  PROVE  InsertsCovered'
<1> USE DEF InsertsCovered, heapVars, callVars, mapVars, flagVars, paramVars, histVars
<1>0. TypeOK /\ InsertsCovered
  BY DEF SInv
<1>1. ASSUME NEW t \in Thread, Call(t) PROVE InsertsCovered'
  BY <1>0, <1>1 DEF Call, Malloc, FreeCall, ReallocCall, Release, Goto, TypeOK
<1>2. ASSUME NEW t \in Thread,
             MallocEnabled(t) \/ MallocInit(t) \/ InsertFilter(t) \/ LibcReallocFails(t)
      PROVE  InsertsCovered'
  BY <1>0, <1>2 DEF MallocEnabled, MallocInit, InsertFilter, LibcReallocFails, Return, Goto,
    TypeOK
<1>3. ASSUME NEW t \in Thread, Start(t) PROVE InsertsCovered'
  <2>1. /\ pc' = [pc EXCEPT ![t] = "set_init"] /\ bStart'
        /\ UNCHANGED <<sgCountInit, stopped, settled, counted>>
    BY <1>3 DEF Start, Goto
  <2>2. QED
    BY <1>0, <2>1 DEF TypeOK
<1>4. ASSUME NEW t \in Thread, SetInit(t) PROVE InsertsCovered'
  <2>1. /\ pc[t] = "set_init" /\ pc' = [pc EXCEPT ![t] = "ins_filter"]
        /\ UNCHANGED <<bStart, stopped, settled, counted>>
    BY <1>4 DEF SetInit, Goto
  <2>2. QED
    BY <1>0, <2>1 DEF TypeOK
<1>5. ASSUME NEW t \in Thread, Insert(t) PROVE InsertsCovered'
  <2>1. /\ pc[t] = "insert" /\ pc' = [pc EXCEPT ![t] = "idle"]
        /\ UNCHANGED <<bStart, stopped, settled, sgCountInit>>
    BY <1>5 DEF Insert, Return, Goto
  <2>2. QED
    BY <1>0, <2>1 DEF TypeOK
<1>6. ASSUME NEW t \in Thread,
             FreeInit(t) \/ FreeEnabled(t) \/ RemoveFilter(t) \/ Remove(t) \/ ClearInit(t)
      PROVE  InsertsCovered'
  BY <1>0, <1>6 DEF FreeInit, FreeEnabled, RemoveFilter, Remove, ClearInit, Goto, TypeOK
<1>7. ASSUME NEW t \in Thread, Stop(t) PROVE InsertsCovered'
  BY <1>0, <1>7 DEF Stop, Goto, TypeOK
<1>8. ASSUME NEW t \in Thread, LibcFree(t) \/ LibcRealloc(t) PROVE InsertsCovered'
  <2>1. /\ \A u \in Thread : pc'[u] = pc[u] \/ pc'[u] \in {"idle", "mb_enabled"}
        /\ counted' = counted \ {ptr[t]}
        /\ UNCHANGED <<sgCountInit, bStart, stopped, settled>>
    BY <1>0, <1>8 DEF LibcFree, LibcRealloc, Goto, TypeOK
  <2>2. QED
    BY <1>0, <2>1
<1>9. CASE SetEnable
  <2>1. UNCHANGED <<pc, sgCountInit, bStart>>
    BY <1>9 DEF SetEnable
  <2>2. CASE gCountStart = 0 /\ gCountStart' # 0
    <3>1. counted' = {} /\ settled' = Settled
      BY <1>9, <2>2 DEF SetEnable
    <3>2. ASSUME settled' PROVE Settled
      <4>1. settled' = Settled
        BY <3>1
      <4>2. QED
        BY <3>2, <4>1
    <3>3. counted' = {}
      BY <3>1
    <3>4. QED
      BY <2>1, <3>2, <3>3 DEF Settled
  <2>3. CASE ~(gCountStart = 0 /\ gCountStart' # 0)
    <3>1. UNCHANGED <<counted, stopped, settled>>
      BY <1>9, <2>3 DEF SetEnable
    <3>2. QED
      BY <1>0, <2>1, <3>1
  <2>4. QED
    BY <2>2, <2>3
<1>10. CASE ReadFile \/ SetMin \/ SetMax \/ EditFile \/ UNCHANGED vars
  BY <1>0, <1>10 DEF ReadFile, SetMin, SetMax, EditFile, vars
<1>11. QED
  BY <1>1, <1>2, <1>3, <1>4, <1>5, <1>6, <1>7, <1>8, <1>9, <1>10
  DEF Next, Hook, ParamThread

\* A counted block leaves the maps only with the hook that gives it back.
LEMMA NoMissedLeakStep ==
  ASSUME SInv, [Next]_vars
  PROVE  NoMissedLeak'
<1> USE DEF NoMissedLeak, Tracked, Holders,
      heapVars, callVars, mapVars, flagVars, paramVars, histVars
<1>0. TypeOK /\ OneHolder /\ InsertsCovered /\ NoMissedLeak
  BY DEF SInv
<1>1. ASSUME NEW t \in Thread,
             \/ Call(t)
             \/ MallocEnabled(t) \/ MallocInit(t) \/ SetInit(t) \/ InsertFilter(t)
             \/ FreeInit(t) \/ FreeEnabled(t) \/ RemoveFilter(t)
             \/ ClearInit(t) \/ Stop(t)
      PROVE  NoMissedLeak'
  <2>1. UNCHANGED <<memMap, counted, forgotten, settled>> /\ (stopped => stopped')
    BY <1>1 DEF Call, Malloc, FreeCall, ReallocCall, Release, MallocEnabled, MallocInit,
      SetInit, InsertFilter, FreeInit, FreeEnabled, RemoveFilter, ClearInit, Stop
  <2>2. pc[t] # "release" /\ \A u \in Thread \ {t} : pc'[u] = pc[u] /\ ptr'[u] = ptr[u]
    BY <1>0, <1>1 DEF Call, Malloc, FreeCall, ReallocCall, Release, MallocEnabled,
      MallocInit, SetInit, InsertFilter, FreeInit, FreeEnabled, RemoveFilter, ClearInit,
      Stop, Return, Goto, TypeOK
  <2>3. QED
    BY <1>0, <2>1, <2>2
<1>2. ASSUME NEW t \in Thread, Start(t) PROVE NoMissedLeak'
  <2>1. /\ UNCHANGED <<counted, forgotten, stopped, settled, ptr>>
        /\ pc[t] = "start" /\ \A u \in Thread \ {t} : pc'[u] = pc[u]
    BY <1>0, <1>2 DEF Start, Goto, TypeOK
  <2>2. CASE bStart
    <3>1. memMap' = memMap
      BY <1>2, <2>2 DEF Start
    <3>2. QED
      BY <1>0, <2>1, <3>1
  <2>3. CASE ~bStart
    BY <1>0, <2>1, <2>3 DEF InsertsCovered
  <2>4. QED
    BY <2>2, <2>3
<1>3. ASSUME NEW t \in Thread, Insert(t) PROVE NoMissedLeak'
  <2>1. PICK a \in Addr : a = ptr[t]
    BY <1>0 DEF TypeOK
  <2>2. /\ memMap' = [memMap EXCEPT ![t][a] = size[a]] /\ size[a] # 0
        /\ counted' = counted \cup {a} /\ UNCHANGED <<forgotten, stopped, settled, ptr>>
        /\ pc[t] = "insert" /\ \A u \in Thread \ {t} : pc'[u] = pc[u]
    BY <1>0, <1>3, <2>1 DEF Insert, Return, Goto, TypeOK, OneHolder
  <2>3. memMap'[t][a] # 0 /\ \A u \in Thread, b \in Addr : memMap[u][b] # 0 => memMap'[u][b] # 0
    BY <1>0, <2>2 DEF TypeOK
  <2>4. counted \subseteq Addr
    BY <1>0 DEF TypeOK
  <2>5. QED
    BY <1>0, <2>2, <2>3, <2>4
<1>4. ASSUME NEW t \in Thread, Remove(t) PROVE NoMissedLeak'
  <2>1. /\ UNCHANGED <<counted, forgotten, stopped, settled, ptr>>
        /\ pc[t] = "remove" /\ pc'[t] = "release" /\ \A u \in Thread \ {t} : pc'[u] = pc[u]
    BY <1>0, <1>4 DEF Remove, Goto, TypeOK
  <2>2. \A u \in Thread, b \in Addr \ {ptr[t]} : memMap'[u][b] = memMap[u][b]
    <3>1. CASE memMap' = memMap
      BY <3>1
    <3>2. CASE \E v \in Found(t) : Erase(v, ptr[t])
      <4>1. PICK v \in Found(t) : memMap' = [memMap EXCEPT ![v][ptr[t]] = 0]
        BY <3>2 DEF Erase
      <4>2. v \in Thread
        BY DEF Found
      <4>3. QED
        BY <1>0, <4>1, <4>2 DEF TypeOK
    <3>3. QED
      BY <1>4, <3>1, <3>2 DEF Remove
  <2>3. counted \subseteq Addr
    BY <1>0 DEF TypeOK
  <2>4. QED
    BY <1>0, <2>1, <2>2, <2>3
<1>5. ASSUME NEW t \in Thread, LibcFree(t) \/ LibcRealloc(t) PROVE NoMissedLeak'
  <2>1. /\ UNCHANGED <<memMap, stopped, settled>>
        /\ counted' = counted \ {ptr[t]} /\ forgotten' = forgotten \ {ptr[t]}
        /\ \A u \in Thread \ {t} : pc'[u] = pc[u] /\ ptr'[u] = ptr[u]
    BY <1>0, <1>5 DEF LibcFree, LibcRealloc, Goto, TypeOK
  <2>2. QED
    BY <1>0, <2>1
<1>6. ASSUME NEW t \in Thread, LibcReallocFails(t) PROVE NoMissedLeak'
  <2>1. /\ UNCHANGED <<memMap, stopped, settled, counted, ptr>>
        /\ forgotten' = forgotten \cup {ptr[t]}
        /\ \A u \in Thread \ {t} : pc'[u] = pc[u]
    BY <1>0, <1>6 DEF LibcReallocFails, Return, Goto, TypeOK
  <2>2. QED
    BY <1>0, <2>1
<1>7. CASE SetEnable
  <2>1. UNCHANGED <<memMap, pc, ptr, forgotten>>
    BY <1>7 DEF SetEnable
  <2>2. counted' = {} \/ UNCHANGED <<counted, stopped, settled>>
    BY <1>7 DEF SetEnable
  <2>3. QED
    BY <1>0, <2>1, <2>2
<1>8. CASE ReadFile \/ SetMin \/ SetMax \/ EditFile \/ UNCHANGED vars
  BY <1>0, <1>8 DEF ReadFile, SetMin, SetMax, EditFile, vars
<1>9. QED
  BY <1>1, <1>2, <1>3, <1>4, <1>5, <1>6, <1>7, <1>8 DEF Next, Hook, ParamThread

\* The session's inductive invariant holds in every reachable state.
THEOREM SessionInvariant == Spec => []SInv
<1>1. Init => SInv
  <2> SUFFICES ASSUME Init PROVE SInv
    OBVIOUS
  <2>1. TypeOK
    BY DEF Init, TypeOK, ParamFile, NoParam
  <2>2. OneHolder /\ InsertsCovered /\ NoMissedLeak
    BY DEF Init, OneHolder, InsertsCovered, NoMissedLeak
  <2>3. QED
    BY <2>1, <2>2 DEF SInv
<1>2. SInv /\ [Next]_vars => SInv'
  BY TypeStep, OneHolderStep, InsertsCoveredStep, NoMissedLeakStep DEF SInv
<1>3. QED
  BY <1>1, <1>2, PTL DEF Spec

\* Whatever the files say and whenever the switch flips, the reports of a
\* settled session miss no leak: a block inserted since the switch-on and not
\* given back is in the maps until the session's first stop(), but for the
\* block whose realloc failed.
THEOREM NoLeakMissed == Spec => []NoMissedLeak
<1>1. SInv => NoMissedLeak
  BY DEF SInv
<1>2. QED
  BY <1>1, SessionInvariant, PTL

-----------------------------------------------------------------------------
(* Exact attribution. *)

\* A block's allocator changes only in the hands of the hook that has it.
LEMMA OwnBlockStep == TypeOK /\ OneHolder /\ OwnBlock /\ [Next]_vars => OwnBlock'
<1> SUFFICES ASSUME TypeOK, OneHolder, OwnBlock, [Next]_vars PROVE OwnBlock'
  OBVIOUS
<1> USE DEF OwnBlock, InHand, heapVars, callVars
<1>1. ASSUME NEW t \in Thread, Malloc(t) PROVE OwnBlock'
  <2>1. PICK a \in Free :
          /\ by' = [by EXCEPT ![a] = t] /\ ptr' = [ptr EXCEPT ![t] = a]
          /\ pc' = [pc EXCEPT ![t] = "mb_enabled"]
    BY <1>1 DEF Malloc, Goto
  <2>2. a \in Addr /\ \A u \in Thread \ {t} : pc[u] # "idle" => ptr[u] # a
    BY DEF Free, OneHolder
  <2>3. QED
    BY <2>1, <2>2 DEF TypeOK
<1>2. ASSUME NEW t \in Thread, FreeCall(t) \/ ReallocCall(t) PROVE OwnBlock'
  BY <1>2, SMTT(60) DEF FreeCall, ReallocCall, Release, Goto, TypeOK
<1>3. ASSUME NEW t \in Thread,
             \/ MallocEnabled(t) \/ MallocInit(t) \/ Start(t) \/ SetInit(t)
             \/ InsertFilter(t) \/ Insert(t) \/ LibcReallocFails(t)
      PROVE  OwnBlock'
  <2>1. UNCHANGED <<by, ptr>>
    BY <1>3 DEF MallocEnabled, MallocInit, Start, SetInit, InsertFilter, Insert,
      LibcReallocFails
  <2>2. /\ \A u \in Thread \ {t} : pc'[u] = pc[u]
        /\ pc[t] \in InHand \/ pc'[t] = "idle"
    BY <1>3 DEF MallocEnabled, MallocInit, Start, SetInit, InsertFilter, Insert,
      LibcReallocFails, Return, Goto, TypeOK
  <2>3. QED
    BY <2>1, <2>2
<1>4. ASSUME NEW t \in Thread,
             \/ FreeInit(t) \/ FreeEnabled(t) \/ RemoveFilter(t) \/ Remove(t)
             \/ ClearInit(t) \/ Stop(t)
      PROVE  OwnBlock'
  <2>1. UNCHANGED <<by, ptr>>
    BY <1>4 DEF FreeInit, FreeEnabled, RemoveFilter, Remove, ClearInit, Stop
  <2>2. pc'[t] \notin InHand /\ \A u \in Thread \ {t} : pc'[u] = pc[u]
    BY <1>4 DEF FreeInit, FreeEnabled, RemoveFilter, Remove, ClearInit, Stop, Goto, TypeOK
  <2>3. QED
    BY <2>1, <2>2
<1>5. ASSUME NEW t \in Thread, LibcFree(t) PROVE OwnBlock'
  <2>1. \A u \in Thread \ {t} : pc[u] # "idle" => ptr[u] # ptr[t]
    BY <1>5 DEF LibcFree, OneHolder
  <2>2. QED
    BY <1>5, <2>1 DEF LibcFree, Goto, TypeOK
<1>6. ASSUME NEW t \in Thread, LibcRealloc(t) PROVE OwnBlock'
  <2>1. PICK b \in Free \cup {ptr[t]} :
          /\ by'  = [by EXCEPT ![ptr[t]] = NoThread, ![b] = t]
          /\ ptr' = [ptr EXCEPT ![t] = b] /\ pc' = [pc EXCEPT ![t] = "mb_enabled"]
    BY <1>6 DEF LibcRealloc, Goto
  <2>2. /\ b \in Addr
        /\ \A u \in Thread \ {t} : pc[u] # "idle" => ptr[u] # b /\ ptr[u] # ptr[t]
    BY <1>6 DEF LibcRealloc, Free, OneHolder, TypeOK
  <2>3. QED
    BY <2>1, <2>2 DEF TypeOK
<1>7. CASE ParamThread \/ EditFile \/ UNCHANGED vars
  BY <1>7 DEF ParamThread, ReadFile, SetEnable, SetMin, SetMax, EditFile, vars
<1>8. QED
  BY <1>1, <1>2, <1>3, <1>4, <1>5, <1>6, <1>7 DEF Next, Call, Hook

\* A file that switches the tracker on sets no filter, and the locals it is
\* read into are not read again for another.
LEMMA UnfilteredOnStep ==
  ASSUME PlainSessions, TypeOK, UnfilteredOn, [Next]_vars
  PROVE  UnfilteredOn'
<1> USE DEF UnfilteredOn
<1>1. CASE \E t \in Thread : Call(t) \/ Hook(t)
  BY <1>1, HooksKeepParam DEF paramVars
<1>2. CASE ReadFile
  <2>1. memParam \in ParamFile /\ param' \in Parsed(memParam)
    BY <1>2 DEF ReadFile, TypeOK
  <2>2. param'.start = 1 => param'.min = 0 /\ param'.max = 0
    BY <2>1 DEF Parsed, PlainSessions, FileStart
  <2>3. QED
    BY <1>2, <2>2 DEF ReadFile
<1>3. CASE SetEnable
  BY <1>3 DEF SetEnable
<1>4. CASE SetMin
  BY <1>4 DEF SetMin, flagVars
<1>5. CASE SetMax \/ EditFile \/ UNCHANGED vars
  BY <1>5 DEF SetMax, EditFile, vars, flagVars, paramVars
<1>6. QED
  BY <1>1, <1>2, <1>3, <1>4, <1>5 DEF Next, ParamThread

\* So the filters do not change while the tracker is on.
LEMMA FiltersStay ==
  ASSUME TypeOK, UnfilteredOn, gCountStart = 1, [Next]_vars
  PROVE  minSize' = minSize /\ maxSize' = maxSize
<1>1. CASE \E t \in Thread : Call(t) \/ Hook(t)
  BY <1>1, HooksKeepParam DEF paramVars
<1>2. CASE SetMin \/ SetMax
  BY <1>2 DEF SetMin, SetMax, UnfilteredOn
<1>3. CASE ReadFile \/ SetEnable \/ EditFile \/ UNCHANGED vars
  BY <1>3 DEF ReadFile, SetEnable, EditFile, vars, paramVars
<1>4. QED
  BY <1>1, <1>2, <1>3 DEF Next, ParamThread

\* A hook that sets sm_bStart goes on to set_init, one that takes
\* sg_count_init back goes on to stop.
LEMMA StartPendingStep ==
  ASSUME TypeOK, StartPending, [Next]_vars
  PROVE  StartPending'
<1> USE DEF StartPending, callVars, mapVars, flagVars, paramVars, histVars
<1>1. ASSUME NEW t \in Thread,
             \/ Call(t) \/ MallocEnabled(t) \/ MallocInit(t) \/ InsertFilter(t) \/ Insert(t)
             \/ FreeInit(t) \/ FreeEnabled(t) \/ RemoveFilter(t) \/ Remove(t)
             \/ LibcFree(t) \/ LibcRealloc(t) \/ LibcReallocFails(t)
      PROVE  StartPending'
  <2>1. UNCHANGED flagVars
    BY <1>1 DEF Call, Malloc, FreeCall, ReallocCall, Release, MallocEnabled, MallocInit,
      InsertFilter, Insert, FreeInit, FreeEnabled, RemoveFilter, Remove, LibcFree,
      LibcRealloc, LibcReallocFails
  <2>2. /\ pc[t] \notin {"set_init", "stop"}
        /\ \A u \in Thread \ {t} : pc'[u] = pc[u]
    BY <1>1 DEF Call, Malloc, FreeCall, ReallocCall, Release, MallocEnabled, MallocInit,
      InsertFilter, Insert, FreeInit, FreeEnabled, RemoveFilter, Remove, LibcFree,
      LibcRealloc, LibcReallocFails, Return, Goto, TypeOK
  <2>3. QED
    BY <2>1, <2>2
<1>2. ASSUME NEW t \in Thread, Start(t) PROVE StartPending'
  <2>1. pc'[t] = "set_init"
    BY <1>2 DEF Start, Goto, TypeOK
  <2>2. QED
    BY <2>1
<1>3. ASSUME NEW t \in Thread, SetInit(t) PROVE StartPending'
  BY <1>3 DEF SetInit
<1>4. ASSUME NEW t \in Thread, ClearInit(t) PROVE StartPending'
  <2>1. pc'[t] = "stop"
    BY <1>4 DEF ClearInit, Goto, TypeOK
  <2>2. QED
    BY <2>1
<1>5. ASSUME NEW t \in Thread, Stop(t) PROVE StartPending'
  BY <1>5 DEF Stop
<1>6. CASE SetEnable \/ ReadFile \/ SetMin \/ SetMax \/ EditFile \/ UNCHANGED vars
  BY <1>6 DEF SetEnable, ReadFile, SetMin, SetMax, EditFile, vars
<1>7. QED
  BY <1>1, <1>2, <1>3, <1>4, <1>5, <1>6 DEF Next, Hook, ParamThread

\* The switch-on of a settled session finds the tracker stopped.
LEMMA SettledStopped ==
  ASSUME TypeOK, StartPending, Settled
  PROVE  ~bStart
BY DEF StartPending, Settled

\* A session that is on after a step was on before it, or is switched on by it.
LEMMA OnBefore ==
  ASSUME TypeOK, [Next]_vars, OnNow'
  PROVE  \/ OnNow /\ gCountStart' = gCountStart
         \/ SetEnable /\ gCountStart = 0 /\ settled' = Settled
<1> USE DEF OnNow
<1>1. CASE SetEnable
  BY <1>1 DEF SetEnable, TypeOK
<1>2. CASE \E t \in Thread : Call(t) \/ Hook(t)
  <2>1. UNCHANGED <<gCountStart, settled>>
    BY <1>2 DEF Call, Hook, Malloc, FreeCall, ReallocCall, Release, MallocEnabled,
      MallocInit, Start, SetInit, InsertFilter, Insert, FreeInit, FreeEnabled,
      RemoveFilter, Remove, ClearInit, Stop, LibcFree, LibcRealloc, LibcReallocFails,
      flagVars, histVars
  <2>2. QED
    BY <2>1
<1>3. CASE ReadFile \/ SetMin \/ SetMax \/ EditFile \/ UNCHANGED vars
  BY <1>3 DEF ReadFile, SetMin, SetMax, EditFile, vars, flagVars, histVars
<1>4. QED
  BY <1>1, <1>2, <1>3 DEF Next, ParamThread

\* While the session is on, hooks keep its order.
LEMMA SessionOrderKept ==
  ASSUME EInv, [Next]_vars, OnNow, OnNow', gCountStart' = gCountStart
  PROVE  SessionOrder'
<1> USE DEF SessionOrder, OnNow, callVars, mapVars, flagVars, paramVars, histVars
<1>0. TypeOK /\ OneHolder /\ SessionOrder /\ gCountStart = 1
  BY DEF EInv
<1>a. minSize' = minSize /\ maxSize' = maxSize
  BY <1>0, FiltersStay DEF EInv
<1>b. \A n : FilteredOut(n)' <=> FilteredOut(n)
  BY <1>a DEF FilteredOut
<1>1. ASSUME NEW t \in Thread, Malloc(t) PROVE SessionOrder'
  <2>1. PICK a \in Free, s \in Size : size' = [size EXCEPT ![a] = s]
                                      /\ ptr' = [ptr EXCEPT ![t] = a]
    BY <1>1 DEF Malloc
  <2>2. /\ pc' = [pc EXCEPT ![t] = "mb_enabled"] /\ UNCHANGED <<sgCountInit, bStart>>
    BY <1>1 DEF Malloc, Goto
  <2>3. a \in Addr /\ \A u \in Thread : pc[u] # "idle" => ptr[u] # a
    BY <1>0 DEF Free, OneHolder
  <2>4. \A u \in Thread : pc'[u] = "insert" => ~FilteredOut(size[ptr[u]])' 
    BY <1>0, <1>a, <2>1, <2>2, <2>3 DEF TypeOK, FilteredOut
  <2>5. QED
    BY <1>0, <2>2, <2>4 DEF TypeOK
<1>2. ASSUME NEW t \in Thread,
             \/ FreeCall(t) \/ ReallocCall(t)
             \/ MallocEnabled(t) \/ MallocInit(t) \/ Insert(t)
             \/ FreeInit(t) \/ FreeEnabled(t) \/ RemoveFilter(t) \/ Remove(t)
             \/ LibcReallocFails(t)
      PROVE  SessionOrder'
  <2>1. UNCHANGED <<size, sgCountInit, bStart>>
    BY <1>2 DEF FreeCall, ReallocCall, Release, MallocEnabled, MallocInit, Insert,
      FreeInit, FreeEnabled, RemoveFilter, Remove, LibcReallocFails, heapVars
  <2>2. \A u \in Thread \ {t} : pc'[u] = pc[u] /\ ptr'[u] = ptr[u]
    BY <1>0, <1>2 DEF FreeCall, ReallocCall, Release, MallocEnabled, MallocInit, Insert,
      FreeInit, FreeEnabled, RemoveFilter, Remove, LibcReallocFails, Return, Goto, TypeOK
  <2>3. /\ pc'[t] \notin {"clear_init", "stop", "set_init", "insert"}
        /\ pc'[t] = "ins_filter" => sgCountInit = 1
    BY <1>0, <1>2 DEF FreeCall, ReallocCall, Release, MallocEnabled, MallocInit, Insert,
      FreeInit, FreeEnabled, RemoveFilter, Remove, LibcReallocFails, Return, Goto, TypeOK
  <2>4. \A u \in Thread : pc'[u] = "insert" => ~FilteredOut(size[ptr[u]])'
    BY <1>0, <1>a, <2>1, <2>2, <2>3 DEF FilteredOut
  <2>5. QED
    BY <1>0, <2>1, <2>2, <2>3, <2>4
<1>3. ASSUME NEW t \in Thread, Start(t) \/ SetInit(t) PROVE SessionOrder'
  <2>1. /\ UNCHANGED <<size, ptr>>
        /\ \A u \in Thread \ {t} : pc'[u] = pc[u]
        /\ bStart => bStart'
        /\ \/ pc'[t] = "set_init" /\ bStart' /\ sgCountInit' = sgCountInit
           \/ pc'[t] = "ins_filter" /\ pc[t] = "set_init" /\ sgCountInit' = 1
    BY <1>0, <1>3 DEF Start, SetInit, Goto, TypeOK, heapVars
  <2>2. \A u \in Thread : pc'[u] = "insert" => ~FilteredOut(size[ptr[u]])'
    BY <1>0, <1>a, <2>1 DEF FilteredOut
  <2>3. QED
    BY <1>0, <2>1, <2>2
<1>4. ASSUME NEW t \in Thread, InsertFilter(t) PROVE SessionOrder'
  <2>1. /\ UNCHANGED <<size, ptr, sgCountInit, bStart>> /\ pc[t] = "ins_filter"
        /\ \A u \in Thread \ {t} : pc'[u] = pc[u]
        /\ \/ pc'[t] = "idle"
           \/ pc'[t] = "insert" /\ ~FilteredOut(size[ptr[t]])
    BY <1>0, <1>4 DEF InsertFilter, Return, Goto, TypeOK, heapVars
  <2>2. \A u \in Thread : pc'[u] = "insert" => ~FilteredOut(size[ptr[u]])'
    BY <1>0, <1>a, <2>1 DEF FilteredOut
  <2>3. QED
    BY <1>0, <2>1, <2>2
<1>5. ASSUME NEW t \in Thread, ClearInit(t) \/ Stop(t) PROVE SessionOrder'
  BY <1>0, <1>5 DEF ClearInit, Stop
<1>6. ASSUME NEW t \in Thread, LibcFree(t) PROVE SessionOrder'
  <2>1. /\ size' = [size EXCEPT ![ptr[t]] = 0] /\ pc[t] = "release"
        /\ pc' = [pc EXCEPT ![t] = "idle"] /\ UNCHANGED <<ptr, sgCountInit, bStart>>
    BY <1>6 DEF LibcFree, Goto
  <2>2. \A u \in Thread \ {t} : pc[u] # "idle" => ptr[u] # ptr[t]
    BY <1>0, <2>1 DEF OneHolder
  <2>3. \A u \in Thread : pc'[u] = "insert" => ~FilteredOut(size[ptr[u]])'
    BY <1>0, <1>a, <2>1, <2>2 DEF TypeOK, FilteredOut
  <2>4. QED
    BY <1>0, <2>1, <2>3 DEF TypeOK
<1>7. ASSUME NEW t \in Thread, LibcRealloc(t) PROVE SessionOrder'
  <2>1. PICK b \in Free \cup {ptr[t]}, s \in Size :
          /\ size' = [size EXCEPT ![ptr[t]] = 0, ![b] = s]
          /\ ptr'  = [ptr EXCEPT ![t] = b]
    BY <1>7 DEF LibcRealloc
  <2>2. /\ pc[t] = "release" /\ pc' = [pc EXCEPT ![t] = "mb_enabled"]
        /\ UNCHANGED <<sgCountInit, bStart>>
    BY <1>7 DEF LibcRealloc, Goto
  <2>3. \A u \in Thread \ {t} : pc[u] # "idle" => ptr[u] # ptr[t] /\ ptr[u] # b
    BY <1>0, <2>2 DEF OneHolder, Free
  <2>4. \A u \in Thread : pc'[u] = "insert" => ~FilteredOut(size[ptr[u]])'
    BY <1>0, <1>a, <2>1, <2>2, <2>3 DEF TypeOK, FilteredOut
  <2>5. QED
    BY <1>0, <2>2, <2>4 DEF TypeOK
<1>8. CASE SetEnable \/ ReadFile \/ SetMin \/ SetMax \/ EditFile \/ UNCHANGED vars
  <2>1. UNCHANGED <<size, ptr, pc, sgCountInit, bStart>>
    BY <1>8 DEF SetEnable, ReadFile, SetMin, SetMax, EditFile, vars, heapVars
  <2>2. \A u \in Thread : pc'[u] = "insert" => ~FilteredOut(size[ptr[u]])'
    BY <1>0, <1>a, <2>1 DEF FilteredOut
  <2>3. QED
    BY <1>0, <2>1, <2>2
<1>9. QED
  BY <1>1, <1>2, <1>3, <1>4, <1>5, <1>6, <1>7, <1>8 DEF Next, Call, Hook, ParamThread

\* The switch-on meets no hook that could disturb the order.
LEMMA SessionOrderStep == EInv /\ [Next]_vars => SessionOrder'
<1> SUFFICES ASSUME EInv, [Next]_vars, OnNow' PROVE SessionOrder'
  BY DEF SessionOrder
<1>1. CASE OnNow /\ gCountStart' = gCountStart
  BY <1>1, SessionOrderKept
<1>2. CASE SetEnable /\ settled' = Settled
  <2>1. UNCHANGED <<pc, sgCountInit, bStart>> /\ Settled
    BY <1>2 DEF SetEnable, OnNow
  <2>2. QED
    BY <2>1 DEF SessionOrder, Settled
<1>3. QED
  BY <1>1, <1>2, OnBefore DEF EInv

\* While the session is on every step keeps the entries exact, and a start()
\* that clears the maps makes them so.
LEMMA SessionExactKept ==
  ASSUME EInv, [Next]_vars, OnNow, gCountStart' = gCountStart
  PROVE  SessionExact'
<1> USE DEF SessionExact, ExactEntries, NoEntry, FilteredOut,
      heapVars, callVars, mapVars, flagVars, paramVars, histVars
<1>0. /\ TypeOK /\ OneHolder /\ OwnBlock /\ SessionOrder /\ SessionExact
      /\ OnNow /\ gCountStart = 1
      /\ minSize' = minSize /\ maxSize' = maxSize
  BY FiltersStay DEF EInv, OnNow
<1>1. ASSUME NEW t \in Thread, Malloc(t) PROVE SessionExact'
  <2>1. PICK a \in Free, s \in Size :
          /\ size' = [size EXCEPT ![a] = s] /\ by' = [by EXCEPT ![a] = t]
          /\ ptr' = [ptr EXCEPT ![t] = a]
    BY <1>1 DEF Malloc
  <2>2. UNCHANGED <<memMap, sgCountInit, bStart>>
        /\ pc' = [pc EXCEPT ![t] = "mb_enabled"]
    BY <1>1 DEF Malloc, Goto
  <2>3. a \in Addr /\ size[a] = 0
    BY DEF Free
  <2>4. bStart => \A u \in Thread : memMap[u][a] = 0
    BY <1>0, <2>3 DEF TypeOK
  <2>5. QED
    BY <1>0, <2>1, <2>2, <2>3, <2>4 DEF TypeOK
<1>2. ASSUME NEW t \in Thread,
             \/ FreeCall(t) \/ ReallocCall(t) \/ MallocEnabled(t) \/ MallocInit(t)
             \/ InsertFilter(t) \/ FreeInit(t) \/ FreeEnabled(t) \/ RemoveFilter(t)
             \/ LibcReallocFails(t)
      PROVE  SessionExact'
  <2>1. UNCHANGED <<size, by, memMap, sgCountInit, bStart>>
    BY <1>2 DEF FreeCall, ReallocCall, Release, MallocEnabled, MallocInit, InsertFilter,
      FreeInit, FreeEnabled, RemoveFilter, LibcReallocFails
  <2>2. \A u \in Thread \ {t} : pc'[u] = pc[u] /\ ptr'[u] = ptr[u]
    BY <1>0, <1>2 DEF FreeCall, ReallocCall, Release, MallocEnabled, MallocInit,
      InsertFilter, FreeInit, FreeEnabled, RemoveFilter, LibcReallocFails, Return, Goto,
      TypeOK
  <2>3. CASE pc'[t] \notin InHand \cup {"release"}
    BY <1>0, <2>1, <2>2, <2>3
  <2>4. CASE MallocEnabled(t) \/ MallocInit(t) \/ InsertFilter(t)
    <3>1. ptr' = ptr /\ pc[t] \in InHand
      BY <2>4 DEF MallocEnabled, MallocInit, InsertFilter, InHand
    <3>2. QED
      BY <1>0, <2>1, <2>2, <3>1
  <2>5. CASE FreeInit(t)
    <3>1. ptr' = ptr /\ ptr[t] \in Addr /\ (pc'[t] = "fb_enabled" \/ sgCountInit = 0)
      BY <1>0, <2>5 DEF FreeInit, Goto, TypeOK
    <3>2. CASE pc'[t] = "fb_enabled"
      BY <2>3, <3>2 DEF InHand
    <3>3. CASE sgCountInit = 0
      BY <1>0, <2>1, <2>2, <3>1, <3>3
    <3>4. QED
      BY <3>1, <3>2, <3>3
  <2>6. CASE RemoveFilter(t)
    <3>1. /\ ptr' = ptr /\ ptr[t] \in Addr
          /\ \/ pc'[t] = "remove"
             \/ FilteredOut(size[ptr[t]])
      BY <1>0, <2>6 DEF RemoveFilter, Goto, TypeOK
    <3>2. CASE pc'[t] = "remove"
      BY <2>3, <3>2 DEF InHand
    <3>3. CASE FilteredOut(size[ptr[t]])
      <4>1. bStart => NoEntry(ptr[t])
        BY <1>0, <3>1, <3>3
      <4>2. QED
        BY <1>0, <2>1, <2>2, <3>1, <4>1
    <3>4. QED
      BY <3>1, <3>2, <3>3
  <2>7. CASE FreeCall(t) \/ ReallocCall(t) \/ FreeEnabled(t) \/ LibcReallocFails(t)
    <3>1. pc'[t] \in {"fb_init", "rem_filter", "clear_init", "idle"}
      BY <1>0, <2>7 DEF FreeCall, ReallocCall, Release, FreeEnabled, LibcReallocFails,
        Return, Goto, TypeOK
    <3>2. QED
      BY <2>3, <3>1 DEF InHand
  <2>8. QED
    BY <1>2, <2>4, <2>5, <2>6, <2>7
<1>3. ASSUME NEW t \in Thread, Start(t) PROVE SessionExact'
  <2>1. /\ UNCHANGED <<size, by, ptr, sgCountInit>>
        /\ pc[t] = "start" /\ pc' = [pc EXCEPT ![t] = "set_init"]
    BY <1>3 DEF Start, Goto
  <2>2. CASE bStart
    <3>1. UNCHANGED <<memMap, bStart>>
      BY <1>3, <2>2 DEF Start
    <3>2. QED
      BY <1>0, <2>1, <3>1 DEF InHand, TypeOK
  <2>3. CASE ~bStart
    <3>1. \A u \in Thread, a \in Addr : memMap'[u][a] = 0
      BY <1>3, <2>3 DEF Start, ClearMaps
    <3>2. \A u \in Thread : ptr'[u] \in Addr
      BY <1>0, <2>1 DEF TypeOK
    <3>3. QED
      BY <3>1, <3>2
  <2>4. QED
    BY <2>2, <2>3
<1>4. ASSUME NEW t \in Thread, SetInit(t) PROVE SessionExact'
  <2>1. /\ UNCHANGED <<size, by, ptr, memMap, bStart>> /\ sgCountInit' = 1
        /\ pc[t] = "set_init" /\ pc' = [pc EXCEPT ![t] = "ins_filter"]
    BY <1>4 DEF SetInit, Goto
  <2>2. bStart
    BY <1>0, <2>1 DEF SessionOrder, TypeOK
  <2>3. QED
    BY <1>0, <2>1, <2>2 DEF InHand, TypeOK
<1>5. ASSUME NEW t \in Thread, Insert(t) PROVE SessionExact'
  <2>1. PICK a \in Addr : a = ptr[t]
    BY <1>0 DEF TypeOK
  <2>2. /\ UNCHANGED <<size, by, ptr, sgCountInit, bStart>>
        /\ memMap' = [memMap EXCEPT ![t][a] = size[a]]
        /\ pc[t] = "insert" /\ pc' = [pc EXCEPT ![t] = "idle"]
    BY <1>5, <2>1 DEF Insert, Return, Goto
  <2>3. bStart /\ sgCountInit = 1 /\ by[a] = t /\ ~FilteredOut(size[a])
    BY <1>0, <2>1, <2>2 DEF SessionOrder, OwnBlock, InHand, TypeOK
  <2>4. /\ \A b \in Addr \ {a}, u \in Thread : memMap'[u][b] = memMap[u][b]
        /\ \A u \in Thread : memMap'[u][a] = IF u = t THEN size[a] ELSE memMap[u][a]
    BY <1>0, <2>2 DEF TypeOK
  <2>5. /\ ExactEntries'
        /\ \A u \in Thread, b \in Addr : memMap'[u][b] # 0 => ~FilteredOut(memMap[u][b])'
    BY <1>0, <2>2, <2>3, <2>4
  <2>6. \A u \in Thread \ {t} : pc[u] # "idle" => ptr[u] # a
    BY <1>0, <2>1, <2>2 DEF OneHolder
  <2>7. ASSUME NEW u \in Thread, pc'[u] \in InHand \cup {"release"}
        PROVE  \A v \in Thread : memMap'[v][ptr'[u]] = 0
    <3>1. u # t /\ pc[u] = pc'[u]
      BY <1>0, <2>2, <2>7 DEF InHand, TypeOK
    <3>2. ptr[u] \in Addr \ {a}
      BY <1>0, <2>6, <2>7, <3>1 DEF InHand, TypeOK
    <3>3. QED
      BY <1>0, <2>2, <2>3, <2>4, <2>7, <3>1, <3>2
  <2>8. QED
    BY <2>2, <2>3, <2>5, <2>7
<1>6. ASSUME NEW t \in Thread, Remove(t) PROVE SessionExact'
  <2>1. /\ UNCHANGED <<size, by, ptr, sgCountInit, bStart>>
        /\ pc[t] = "remove" /\ pc' = [pc EXCEPT ![t] = "release"]
    BY <1>6 DEF Remove, Goto
  <2>2. SUFFICES ASSUME bStart PROVE SessionExact'
    BY <2>1
  <2>3. memMap' = [u \in Thread |-> [memMap[u] EXCEPT ![ptr[t]] = 0]]
    BY <1>0, <1>6, <2>2, RemoveUnlists
  <2>4. \A u \in Thread, a \in Addr :
          memMap'[u][a] = IF a = ptr[t] THEN 0 ELSE memMap[u][a]
    BY <1>0, <2>3 DEF TypeOK
  <2>5. QED
    BY <1>0, <2>1, <2>2, <2>4 DEF TypeOK
<1>7. ASSUME NEW t \in Thread, ClearInit(t) \/ Stop(t) PROVE SessionExact'
  BY <1>0, <1>7 DEF ClearInit, Stop, SessionOrder
<1>8. ASSUME NEW t \in Thread, LibcFree(t) PROVE SessionExact'
  <2>1. /\ UNCHANGED <<memMap, ptr, sgCountInit, bStart>>
        /\ size' = [size EXCEPT ![ptr[t]] = 0] /\ by' = [by EXCEPT ![ptr[t]] = NoThread]
        /\ pc[t] = "release" /\ pc' = [pc EXCEPT ![t] = "idle"]
    BY <1>8 DEF LibcFree, Goto
  <2>2. QED
    BY <1>0, <2>1 DEF InHand, TypeOK
<1>9. ASSUME NEW t \in Thread, LibcRealloc(t) PROVE SessionExact'
  <2>1. PICK b \in Free \cup {ptr[t]}, s \in Size :
          /\ size' = [size EXCEPT ![ptr[t]] = 0, ![b] = s]
          /\ by'   = [by EXCEPT ![ptr[t]] = NoThread, ![b] = t]
          /\ ptr'  = [ptr EXCEPT ![t] = b]
    BY <1>9 DEF LibcRealloc
  <2>2. /\ UNCHANGED <<memMap, sgCountInit, bStart>>
        /\ pc[t] = "release" /\ pc' = [pc EXCEPT ![t] = "mb_enabled"]
    BY <1>9 DEF LibcRealloc, Goto
  <2>3. ptr[t] \in Addr /\ b \in Addr /\ (b = ptr[t] \/ size[b] = 0)
    BY <1>0 DEF Free, TypeOK
  <2>4. bStart => \A u \in Thread : memMap[u][ptr[t]] = 0 /\ memMap[u][b] = 0
    BY <1>0, <2>2, <2>3 DEF TypeOK
  <2>5. QED
    BY <1>0, <2>1, <2>2, <2>3, <2>4 DEF InHand, TypeOK
<1>10. CASE SetEnable
  <2>1. UNCHANGED <<size, by, ptr, memMap, pc, sgCountInit, bStart>>
    BY <1>10 DEF SetEnable
  <2>2. QED
    BY <1>0, <2>1
<1>11. CASE ReadFile \/ SetMin \/ SetMax \/ EditFile \/ UNCHANGED vars
  <2>1. UNCHANGED <<size, by, ptr, memMap, pc, sgCountInit, bStart>>
    BY <1>11 DEF ReadFile, SetMin, SetMax, EditFile, vars
  <2>2. QED
    BY <1>0, <2>1
<1>12. QED
  BY <1>1, <1>2, <1>3, <1>4, <1>5, <1>6, <1>7, <1>8, <1>9, <1>10, <1>11
  DEF Next, Call, Hook, ParamThread

\* The switch-on of a settled session finds the tracker stopped, so that its
\* first start() clears the maps.
LEMMA SessionExactStep == EInv /\ [Next]_vars => SessionExact'
<1> SUFFICES ASSUME EInv, [Next]_vars, OnNow' PROVE SessionExact'
  BY DEF SessionExact
<1>0. TypeOK /\ StartPending
  BY DEF EInv
<1>1. CASE OnNow /\ gCountStart' = gCountStart
  BY <1>1, SessionExactKept
<1>2. CASE SetEnable /\ settled' = Settled
  <2>1. bStart' = bStart
    BY <1>2 DEF SetEnable
  <2>2. Settled
    BY <1>2, Zenon DEF OnNow
  <2>3. ~bStart'
    BY <1>0, <2>1, <2>2, SettledStopped
  <2>4. QED
    BY <2>3 DEF SessionExact
<1>3. QED
  BY <1>0, <1>1, <1>2, OnBefore

\* The inductive invariant for files that set no filter as they switch on.
THEOREM PlainInvariant == PlainSessions => (Spec => []EInv)
<1> SUFFICES ASSUME PlainSessions PROVE Spec => []EInv
  OBVIOUS
<1>1. Init => EInv
  <2> SUFFICES ASSUME Init PROVE EInv
    OBVIOUS
  <2>1. TypeOK
    BY DEF Init, TypeOK, ParamFile, NoParam
  <2>2. OneHolder /\ OwnBlock /\ StartPending /\ UnfilteredOn
    BY DEF Init, OneHolder, OwnBlock, InHand, StartPending, UnfilteredOn
  <2>3. SessionOrder /\ SessionExact
    BY DEF Init, SessionOrder, SessionExact, OnNow
  <2>4. QED
    BY <2>1, <2>2, <2>3 DEF EInv
<1>2. EInv /\ [Next]_vars => EInv'
  <2> SUFFICES ASSUME EInv, [Next]_vars PROVE EInv'
    OBVIOUS
  <2>1. TypeOK' /\ OneHolder' /\ OwnBlock'
    BY TypeStep, OneHolderStep, OwnBlockStep DEF EInv
  <2>2. StartPending' /\ UnfilteredOn'
    BY StartPendingStep, UnfilteredOnStep DEF EInv
  <2>3. SessionOrder' /\ SessionExact'
    BY SessionOrderStep, SessionExactStep
  <2>4. QED
    BY <2>1, <2>2, <2>3 DEF EInv
<1>3. QED
  BY <1>1, <1>2, PTL DEF Spec

\* For files that set no filter as they switch the tracker on, whenever the
\* switch flips, an entry of a settled session is a block allocated now, under
\* its allocator and with its size: it shows no block of the session before,
\* however many there were and whether those were settled or not.
THEOREM SessionsExact == PlainSessions => (Spec => []ExactAttribution)
<1> SUFFICES ASSUME PlainSessions PROVE Spec => []ExactAttribution
  OBVIOUS
<1>1. EInv => ExactAttribution
  BY DEF EInv, OnNow, SessionOrder, SessionExact, ExactEntries, ExactAttribution
<1>2. QED
  BY <1>1, PlainInvariant, PTL
=============================================================================
