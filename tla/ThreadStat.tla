----------------------------- MODULE ThreadStat -----------------------------
(***************************************************************************)
(* memCount/threadstat.cpp: the library that counts, per thread, the       *)
(* blocks allocated and not released.  Its hooks keep one table under one  *)
(* mutex; a reporting thread copies the table every minute.                *)
(*                                                                         *)
(* The sections of zl_insert and zl_del are single steps: what they        *)
(* allocate goes straight to libc (gst_in_malloc).  The reporter's copy    *)
(* is not: its map nodes come from the hooked malloc, under the mutex.     *)
(* A thread of the table is there while it has entries, so the table's     *)
(* threads are those with a non-empty map.                                 *)
(***************************************************************************)
EXTENDS Integers, Functions

CONSTANTS
  Thread,     \* the application's threads
  Reporter,   \* the thread that runs threadFunction
  NoThread,   \* allocator of a free address, holder of a free mutex
  Addr,       \* the addresses libc hands out
  Null,       \* NULL
  PrintMallocs, \* whether the application allocates while it holds stdout
  Size        \* sizes as malloc_usable_size reports them

ASSUME ThreadStatAssumption ==
  /\ Reporter \notin Thread /\ NoThread \notin Thread \cup {Reporter}
  /\ Null \notin Addr
  /\ Size \subseteq Nat \ {0}
  /\ PrintMallocs \in BOOLEAN

VARIABLES
  size,       \* libc: size of the block at an address, 0 if it is free
  by,         \* libc: the thread that allocated it (history)
  owned,      \* the blocks the application holds and may free
  ptr,        \* the block a thread's hook works on
  op,         \* "realloc" while a thread is in realloc's release, else "free"
  pc,         \* where a thread is in its hook
  memMap,     \* sg_threadMemMap[tid].memMap
  total,      \* sg_threadMemMap[tid].size
  sInit,      \* s_init
  sgThreadid, \* sg_threadid
  mutex,      \* holder of sg_threadMemMapMutex
  stdout,     \* which of them holds the lock of stdio's stdout
  rpc,        \* where the reporter is
  inserted,   \* history: blocks inserted and not released
  forgotten   \* history: those of them a realloc could not move

heapVars   == <<size, by, owned>>
callVars   == <<ptr, op, pc>>
tableVars  == <<memMap, total>>
reportVars == <<sInit, sgThreadid, mutex, stdout, rpc>>
history    == <<inserted, forgotten>>
vars == <<heapVars, callVars, tableVars, reportVars, history>>

-----------------------------------------------------------------------------

Goto(t, label) == pc' = [pc EXCEPT ![t] = label]

UsableSize(p) == IF p = Null THEN 0 ELSE size[p]

Free == {a \in Addr : size[a] = 0}

Holders(p) == {u \in Thread : p \in DOMAIN memMap[u]}

With(m, p, n) == [q \in DOMAIN m \cup {p} |-> IF q = p THEN n ELSE m[q]]

Without(m, p) == [q \in DOMAIN m \ {p} |-> m[q]]

-----------------------------------------------------------------------------
(* The hooks. *)

\* The application prints: it takes stdout's lock and gives it back.
UseStdout(t) ==
  /\ pc[t] = "idle"
  /\ \/ stdout = NoThread /\ stdout' = t
     \/ stdout = t /\ stdout' = NoThread
  /\ UNCHANGED <<heapVars, callVars, tableVars, sInit, sgThreadid, mutex, rpc, history>>

MayCall(t) == pc[t] = "idle" /\ (stdout = t => PrintMallocs)

Malloc(t) ==
  /\ MayCall(t)
  /\ \E a \in Free, n \in Size :
       /\ size' = [size EXCEPT ![a] = n]
       /\ by'   = [by EXCEPT ![a] = t]
       /\ ptr'  = [ptr EXCEPT ![t] = a]
  /\ Goto(t, "after")
  /\ UNCHANGED <<owned, op, tableVars, reportVars, history>>

\* A failed call goes on like any other, with NULL.
MallocFails(t) ==
  /\ MayCall(t)
  /\ ptr' = [ptr EXCEPT ![t] = Null]
  /\ Goto(t, "after")
  /\ UNCHANGED <<heapVars, op, tableVars, reportVars, history>>

Release(t) ==
  /\ MayCall(t)
  /\ \E a \in owned :
       /\ owned' = owned \ {a}
       /\ ptr'   = [ptr EXCEPT ![t] = a]
  /\ op' \in {[op EXCEPT ![t] = kind] : kind \in {"free", "realloc"}}
  /\ Goto(t, "before")
  /\ UNCHANGED <<size, by, tableVars, reportVars, history>>

\* Hooks do nothing until the reporter is ready.
TestInit(t) ==
  \/ /\ pc[t] = "before"
     /\ Goto(t, IF sInit THEN "del" ELSE "libc")
     /\ UNCHANGED <<heapVars, ptr, op, tableVars, reportVars, history>>
  \/ /\ pc[t] = "after"
     /\ Goto(t, IF sInit THEN "insert" ELSE "idle")
     /\ owned' = IF sInit \/ ptr[t] = Null THEN owned ELSE owned \cup {ptr[t]}
     /\ UNCHANGED <<size, by, ptr, op, tableVars, reportVars, history>>

\* Mutant: an entry replaces the thread's others.
InsertAlone(t) ==
  /\ pc[t] = "insert" /\ mutex = NoThread
  /\ total'  = [total EXCEPT ![t] = UsableSize(ptr[t])]
  /\ memMap' = [memMap EXCEPT ![t] = With([q \in {} |-> 0], ptr[t], UsableSize(ptr[t]))]
  /\ inserted' = inserted \cup ({ptr[t]} \ {Null})
  /\ owned' = owned \cup ({ptr[t]} \ {Null})
  /\ Goto(t, "idle")
  /\ UNCHANGED <<size, by, ptr, op, reportVars, forgotten>>

Insert(t) ==
  /\ pc[t] = "insert" /\ mutex = NoThread
  /\ total'  = [total EXCEPT ![t] = @ + UsableSize(ptr[t])]
  /\ memMap' = [memMap EXCEPT ![t] = With(@, ptr[t], UsableSize(ptr[t]))]
  /\ inserted' = inserted \cup ({ptr[t]} \ {Null})
  /\ owned' = owned \cup ({ptr[t]} \ {Null})
  /\ Goto(t, "idle")
  /\ UNCHANGED <<size, by, ptr, op, reportVars, forgotten>>

\* Mutant: the size of an entry outlives it.
ErasedEntryOnly(u, p) ==
  /\ memMap' = [memMap EXCEPT ![u] = Without(@, p)]
  /\ total'  = [total EXCEPT ![u] = IF DOMAIN memMap[u] = {p} THEN 0 ELSE @]

\* Mutant: the size is taken off a thread that has gone as well.
ErasedTwice(u, p) ==
  /\ memMap' = [memMap EXCEPT ![u] = Without(@, p)]
  /\ total'  = [total EXCEPT ![u] = (IF DOMAIN memMap[u] = {p} THEN 0 ELSE @) - size[p]]

\* The entry goes, and the thread with its last entry.
Erased(u, p) ==
  /\ memMap' = [memMap EXCEPT ![u] = Without(@, p)]
  /\ total'  = [total EXCEPT ![u] = IF DOMAIN memMap[u] = {p} THEN 0 ELSE @ - size[p]]

\* Whose entry zl_del finds: the thread's own first.
Found(t) == IF t \in Holders(ptr[t]) THEN {t} ELSE Holders(ptr[t])

Del(t) ==
  /\ pc[t] = "del" /\ mutex = NoThread
  /\ \/ Found(t) = {} /\ UNCHANGED tableVars
     \/ \E u \in Found(t) : Erased(u, ptr[t])
  /\ Goto(t, "libc")
  /\ UNCHANGED <<heapVars, ptr, op, reportVars, history>>

\* libc has the block back.
Released(p) == inserted' = inserted \ {p} /\ forgotten' = forgotten \ {p}

LibcFree(t) ==
  /\ pc[t] = "libc" /\ op[t] = "free"
  /\ size' = [size EXCEPT ![ptr[t]] = 0]
  /\ by'   = [by EXCEPT ![ptr[t]] = NoThread]
  /\ Released(ptr[t])
  /\ Goto(t, "idle")
  /\ UNCHANGED <<owned, ptr, op, tableVars, reportVars>>

LibcRealloc(t) ==
  /\ pc[t] = "libc" /\ op[t] = "realloc"
  /\ \E b \in Free \cup {ptr[t]}, n \in Size :
       /\ size' = [size EXCEPT ![ptr[t]] = 0, ![b] = n]
       /\ by'   = [by EXCEPT ![ptr[t]] = NoThread, ![b] = t]
       /\ ptr'  = [ptr EXCEPT ![t] = b]
  /\ Released(ptr[t])
  /\ op' = [op EXCEPT ![t] = "free"]
  /\ Goto(t, "after")
  /\ UNCHANGED <<owned, tableVars, reportVars>>

\* realloc(ptr, 0) frees, and NULL is inserted.
LibcReallocZero(t) ==
  /\ pc[t] = "libc" /\ op[t] = "realloc"
  /\ size' = [size EXCEPT ![ptr[t]] = 0]
  /\ by'   = [by EXCEPT ![ptr[t]] = NoThread]
  /\ ptr'  = [ptr EXCEPT ![t] = Null]
  /\ Released(ptr[t])
  /\ op' = [op EXCEPT ![t] = "free"]
  /\ Goto(t, "after")
  /\ UNCHANGED <<owned, tableVars, reportVars>>

\* The block stays, without its entry, and NULL is inserted.
LibcReallocFails(t) ==
  /\ pc[t] = "libc" /\ op[t] = "realloc"
  /\ owned' = owned \cup {ptr[t]}
  /\ ptr' = [ptr EXCEPT ![t] = Null]
  /\ forgotten' = forgotten \cup ({ptr[t]} \cap inserted)
  /\ op' = [op EXCEPT ![t] = "free"]
  /\ Goto(t, "after")
  /\ UNCHANGED <<size, by, tableVars, reportVars, inserted>>

-----------------------------------------------------------------------------
(* The reporting thread.  Whether its own calls of malloc and free leave    *)
(* the table alone is what sg_threadid decides.                             *)

\* Mutant: the hooks do not tell the reporter apart.
NobodyBypasses == FALSE

Bypasses == sgThreadid = Reporter

SetThreadid ==
  /\ rpc = "born"
  /\ sgThreadid' = Reporter /\ rpc' = "open"
  /\ UNCHANGED <<heapVars, callVars, tableVars, sInit, mutex, stdout, history>>

\* Without its file the reporter ends and the hooks stay off.
Open ==
  /\ rpc = "open"
  /\ \/ sInit' = TRUE /\ rpc' = "sleep"
     \/ rpc' = "ended" /\ UNCHANGED sInit
  /\ UNCHANGED <<heapVars, callVars, tableVars, sgThreadid, mutex, stdout, history>>

Lock ==
  /\ rpc = "sleep" /\ mutex = NoThread
  /\ mutex' = Reporter /\ rpc' = "print"
  /\ UNCHANGED <<heapVars, callVars, tableVars, sInit, sgThreadid, stdout, history>>

\* It prints a line while it has the mutex, once stdout is free.
PrintLine ==
  /\ rpc = "print" /\ stdout = NoThread
  /\ rpc' = "copy"
  /\ UNCHANGED <<heapVars, callVars, tableVars, sInit, sgThreadid, mutex, stdout, history>>

\* A node per thread of the table: malloc is hooked, and would wait for the
\* mutex.
Copy ==
  /\ rpc = "copy"
  /\ Bypasses \/ \A u \in Thread : DOMAIN memMap[u] = {}
  /\ rpc' = "unlock"
  /\ UNCHANGED <<heapVars, callVars, tableVars, sInit, sgThreadid, mutex, stdout, history>>

Unlock ==
  /\ rpc = "unlock"
  /\ mutex' = NoThread /\ rpc' = "sleep"
  /\ UNCHANGED <<heapVars, callVars, tableVars, sInit, sgThreadid, stdout, history>>

-----------------------------------------------------------------------------

Init ==
  /\ size = [a \in Addr |-> 0]
  /\ by = [a \in Addr |-> NoThread]
  /\ owned = {}
  /\ ptr = [t \in Thread |-> Null]
  /\ op = [t \in Thread |-> "free"]
  /\ pc = [t \in Thread |-> "idle"]
  /\ memMap = [t \in Thread |-> [q \in {} |-> 0]]
  /\ total = [t \in Thread |-> 0]
  /\ sInit = FALSE
  /\ sgThreadid = NoThread
  /\ mutex = NoThread
  /\ stdout = NoThread
  /\ rpc = "born"
  /\ inserted = {} /\ forgotten = {}

Call(t) == UseStdout(t) \/ Malloc(t) \/ MallocFails(t) \/ Release(t)

Hook(t) ==
  \/ TestInit(t) \/ Insert(t) \/ Del(t)
  \/ LibcFree(t) \/ LibcRealloc(t) \/ LibcReallocZero(t) \/ LibcReallocFails(t)

Report == SetThreadid \/ Open \/ Lock \/ PrintLine \/ Copy \/ Unlock

Next == (\E t \in Thread : Call(t) \/ Hook(t)) \/ Report

Spec == Init /\ [][Next]_vars

\* A hook goes on whenever it can, and is given the mutex if it is free again
\* and again: the reporter sleeps thirty seconds before it takes it.  Once it
\* has it the reporter goes on too, and who prints comes to an end.
Fairness ==
  /\ \A t \in Thread : SF_vars(Hook(t)) /\ WF_vars(UseStdout(t) /\ stdout = t)
  /\ SF_vars(PrintLine) /\ WF_vars(Copy \/ Unlock)

FairSpec == Spec /\ Fairness

-----------------------------------------------------------------------------

\* Every variable has its type; in particular no thread's size is negative.
TypeOK ==
  /\ size \in [Addr -> Size \cup {0}]
  /\ by \in [Addr -> Thread \cup {NoThread}]
  /\ owned \subseteq Addr
  /\ ptr \in [Thread -> Addr \cup {Null}]
  /\ op \in [Thread -> {"free", "realloc"}]
  /\ pc \in [Thread -> {"idle", "before", "after", "del", "insert", "libc"}]
  /\ \A t \in Thread : DOMAIN memMap[t] \subseteq Addr \cup {Null}
  /\ total \in [Thread -> Nat]
  /\ sInit \in BOOLEAN
  /\ sgThreadid \in {NoThread, Reporter} /\ mutex \in {NoThread, Reporter}
  /\ stdout \in Thread \cup {NoThread}
  /\ rpc \in {"born", "open", "ended", "sleep", "print", "copy", "unlock"}
  /\ inserted \subseteq Addr /\ forgotten \subseteq inserted

\* The size reported of a thread is that of its live blocks: the sum kept from
\* call to call agrees with the entries, and every entry is a live block of
\* the thread, or the NULL of a call that failed.
ReportedSizeIsLive ==
  \A t \in Thread :
    /\ total[t] = SumFunction(memMap[t])
    /\ \A a \in DOMAIN memMap[t] \ {Null} : by[a] = t /\ size[a] = memMap[t][a]

\* A live block that was inserted is missing from the report in two cases
\* only, whoever holds it: a hook has just removed its entry and goes on to
\* libc, or a realloc of it failed, which the hook does not look at (399).
\* Such a block lives on and is not reported until it is moved.
InsertedIsReported ==
  /\ \A a \in inserted :
       \/ Holders(a) # {}
       \/ \E t \in Thread : pc[t] = "libc" /\ ptr[t] = a
       \/ a \in forgotten
  /\ \A a \in forgotten : size[a] # 0 /\ Holders(a) = {}

\* Whatever the reporter does, every hook returns to the application; if the
\* application allocated while it holds stdout, the reporter, which prints with
\* the mutex in its hands, and the hook would wait for each other.
HookReturns ==
  \A t \in Thread : pc[t] # "idle" ~> pc[t] = "idle"
=============================================================================
