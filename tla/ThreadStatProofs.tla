-------------------------- MODULE ThreadStatProofs --------------------------
(***************************************************************************)
(* Proofs about the thread statistics library of ThreadStat, for any       *)
(* threads, any addresses, any sizes and any calls of the application.     *)
(***************************************************************************)
EXTENDS ThreadStat, Induction

-----------------------------------------------------------------------------
(* Tables and their sums. *)

\* A table: finitely many blocks and their sizes.
IsTable(m) ==
  /\ m = [q \in DOMAIN m |-> m[q]]
  /\ DOMAIN m \subseteq Addr \cup {Null}
  /\ IsFiniteSet(DOMAIN m)
  /\ \A q \in DOMAIN m : m[q] \in Nat

\* An entry more, or another value of one, makes a table of a table.
LEMMA WithTable ==
  ASSUME NEW m, IsTable(m), NEW p \in Addr \cup {Null}, NEW n \in Nat
  PROVE  /\ IsTable(With(m, p, n))
         /\ DOMAIN With(m, p, n) = DOMAIN m \cup {p}
         /\ \A q \in DOMAIN m \cup {p} : With(m, p, n)[q] = IF q = p THEN n ELSE m[q]
<1>1. /\ DOMAIN With(m, p, n) = DOMAIN m \cup {p}
      /\ \A q \in DOMAIN m \cup {p} : With(m, p, n)[q] = IF q = p THEN n ELSE m[q]
      /\ With(m, p, n) = [q \in DOMAIN With(m, p, n) |-> With(m, p, n)[q]]
  BY DEF With
<1>2. IsFiniteSet(DOMAIN m \cup {p})
  BY FS_AddElement DEF IsTable
<1>3. QED
  BY <1>1, <1>2 DEF IsTable

\* So does an entry less.
LEMMA WithoutTable ==
  ASSUME NEW m, IsTable(m), NEW p
  PROVE  /\ IsTable(Without(m, p))
         /\ DOMAIN Without(m, p) = DOMAIN m \ {p}
         /\ \A q \in DOMAIN m \ {p} : Without(m, p)[q] = m[q]
<1>1. /\ DOMAIN Without(m, p) = DOMAIN m \ {p}
      /\ \A q \in DOMAIN m \ {p} : Without(m, p)[q] = m[q]
      /\ Without(m, p) = [q \in DOMAIN Without(m, p) |-> Without(m, p)[q]]
  BY DEF Without
<1>2. IsFiniteSet(DOMAIN m \ {p})
  BY FS_RemoveElement DEF IsTable
<1>3. QED
  BY <1>1, <1>2 DEF IsTable

\* The sum without an entry.
LEMMA SumWithout ==
  ASSUME NEW m, IsTable(m), NEW p \in DOMAIN m
  PROVE  /\ SumFunction(m) = m[p] + SumFunction(Without(m, p))
         /\ SumFunction(Without(m, p)) \in Nat /\ SumFunction(m) \in Nat
         /\ DOMAIN m = {p} => SumFunction(Without(m, p)) = 0
<1> DEFINE w == Without(m, p)
           D == DOMAIN m \ {p}
<1>1. IsTable(w) /\ DOMAIN w = D /\ \A q \in D : w[q] = m[q]
  BY WithoutTable
<1>2. IsFiniteSet(DOMAIN m) /\ IsFiniteSet(D) /\ \A q \in DOMAIN m : m[q] \in Nat
  BY FS_RemoveElement DEF IsTable
<1>3. SumFunctionOnSet(m, DOMAIN m) = m[p] + SumFunctionOnSet(m, D)
  BY <1>2, SumRemove
<1> HIDE DEF w, D
<1>4. SumFunctionOnSet(w, D) = SumFunctionOnSet(m, D)
  BY <1>1, <1>2, SumSame
<1>5. SumFunctionOnSet(w, D) \in Nat /\ SumFunctionOnSet(m, DOMAIN m) \in Nat
  BY <1>1, <1>2, SumType DEF IsTable
<1>6. DOMAIN m = {p} => D = {}
  BY DEF D
<1>7. SumFunction(w) = SumFunctionOnSet(w, D) /\ SumFunction(m) = SumFunctionOnSet(m, DOMAIN m)
  BY <1>1 DEF SumFunction
<1>8. QED
  BY <1>3, <1>4, <1>5, <1>6, <1>7, SumEmpty DEF w

\* The sum with an entry more, or with the same entry again.
LEMMA SumWith ==
  ASSUME NEW m, IsTable(m), NEW p \in Addr \cup {Null}, NEW n \in Nat,
         p \in DOMAIN m => n = 0 /\ m[p] = 0
  PROVE  SumFunction(With(m, p, n)) = SumFunction(m) + n
<1> DEFINE w == With(m, p, n)
<1>1. /\ IsTable(w) /\ DOMAIN w = DOMAIN m \cup {p}
      /\ \A q \in DOMAIN m \cup {p} : w[q] = IF q = p THEN n ELSE m[q]
  BY WithTable
<1> HIDE DEF w
<1>2. SumFunction(m) \in Nat
  BY SumType DEF IsTable, SumFunction
<1>3. CASE p \in DOMAIN m
  <2>1. DOMAIN w = DOMAIN m /\ \A q \in DOMAIN m : w[q] = m[q]
    BY <1>1, <1>3
  <2>2. SumFunctionOnSet(w, DOMAIN m) = SumFunctionOnSet(m, DOMAIN m)
    BY <2>1, SumSame DEF IsTable
  <2>3. QED
    BY <1>2, <1>3, <2>1, <2>2 DEF SumFunction, w
<1>4. CASE p \notin DOMAIN m
  <2>1. /\ IsFiniteSet(DOMAIN w) /\ p \in DOMAIN w /\ \A q \in DOMAIN w : w[q] \in Int
        /\ IsFiniteSet(DOMAIN m) /\ w[p] = n
    BY <1>1 DEF IsTable
  <2>2. DOMAIN w \ {p} = DOMAIN m /\ \A q \in DOMAIN m : w[q] = m[q]
    BY <1>1, <1>4
  <2>3. SumFunctionOnSet(w, DOMAIN w) = w[p] + SumFunctionOnSet(w, DOMAIN w \ {p})
    BY <2>1, SumRemove
  <2>4. SumFunctionOnSet(w, DOMAIN m) = SumFunctionOnSet(m, DOMAIN m)
    BY <2>1, <2>2, SumSame
  <2>5. QED
    BY <1>2, <2>1, <2>2, <2>3, <2>4 DEF SumFunction, w
<1>5. QED
  BY <1>3, <1>4

-----------------------------------------------------------------------------
(* The invariant. *)

\* The types of the hooks' variables; the reporter's.
PlainTypes ==
  /\ size \in [Addr -> Size \cup {0}]
  /\ by \in [Addr -> Thread \cup {NoThread}]
  /\ owned \subseteq Addr
  /\ ptr \in [Thread -> Addr \cup {Null}]
  /\ op \in [Thread -> {"free", "realloc"}]
  /\ pc \in [Thread -> {"idle", "before", "after", "del", "insert", "libc"}]
  /\ memMap = [t \in Thread |-> memMap[t]]
  /\ total \in [Thread -> Int]
  /\ inserted \subseteq Addr /\ forgotten \subseteq inserted

ReportTypes ==
  /\ sInit \in BOOLEAN
  /\ sgThreadid \in {NoThread, Reporter} /\ mutex \in {NoThread, Reporter}
  /\ stdout \in Thread \cup {NoThread}
  /\ rpc \in {"born", "open", "ended", "sleep", "print", "copy", "unlock"}

\* t's call works on a block.
Works(t) == pc[t] # "idle" /\ ptr[t] # Null

\* A live block is the application's or in the hands of one call.
BlockInv ==
  /\ \A t \in Thread : pc[t] \in {"before", "del", "libc"} => ptr[t] # Null
  /\ \A t, u \in Thread : Works(t) /\ Works(u) /\ ptr[t] = ptr[u] => t = u
  /\ \A t \in Thread : Works(t) => ptr[t] \notin owned /\ size[ptr[t]] # 0
  /\ \A t \in Thread : pc[t] \in {"after", "insert"} /\ ptr[t] # Null => by[ptr[t]] = t
  /\ \A a \in owned : size[a] # 0

\* An entry is a live block of its thread, and none whose call has removed it
\* or has not inserted it yet.
EntryInv ==
  /\ \A t \in Thread : IsTable(memMap[t])
  /\ \A t \in Thread : \A a \in DOMAIN memMap[t] :
       IF a = Null THEN memMap[t][a] = 0
       ELSE by[a] = t /\ size[a] = memMap[t][a] /\ size[a] # 0
  /\ \A t, u \in Thread :
       pc[t] \in {"after", "insert", "libc"} /\ ptr[t] # Null => ptr[t] \notin DOMAIN memMap[u]
  /\ ~sInit => \A t \in Thread : DOMAIN memMap[t] = {} /\ pc[t] \notin {"insert", "del"}

\* The size kept from call to call.
SumInv == \A t \in Thread : total[t] = SumFunction(memMap[t])

\* Who is missing from the report; a call does not come back with a block
\* that is.
HistoryInv ==
  /\ InsertedIsReported
  /\ \A t \in Thread : pc[t] \in {"after", "insert"} => ptr[t] \notin forgotten

\* Together they are inductive.
TInv ==
  /\ PlainTypes /\ ReportTypes /\ BlockInv /\ EntryInv
  /\ SumInv /\ HistoryInv

-----------------------------------------------------------------------------
(* Every step keeps it. *)

\* The library starts with no block, no call and empty tables.
LEMMA InitTInv == Init => TInv
<1> SUFFICES ASSUME Init PROVE TInv
  OBVIOUS
<1> USE ThreadStatAssumption
<1>1. PlainTypes /\ ReportTypes /\ BlockInv
  <2>1. memMap = [t \in Thread |-> memMap[t]]
    BY DEF Init
  <2>2. PlainTypes
    BY <2>1 DEF Init, PlainTypes
  <2>3. ReportTypes /\ BlockInv
    BY DEF Init, ReportTypes, BlockInv, Works
  <2>4. QED
    BY <2>2, <2>3
<1>2. \A t \in Thread : memMap[t] = [q \in {} |-> 0] /\ DOMAIN memMap[t] = {}
  BY DEF Init
<1>3. EntryInv
  <2>1. \A t \in Thread : IsTable(memMap[t])
    BY <1>2, FS_EmptySet DEF IsTable
  <2>2. QED
    BY <1>2, <2>1 DEF Init, EntryInv
<1>4. SumInv
  BY <1>2, SumEmpty DEF Init, SumInv, SumFunction
<1>5. HistoryInv
  BY DEF Init, HistoryInv, InsertedIsReported
<1>6. QED
  BY <1>1, <1>3, <1>4, <1>5 DEF TInv

\* Printing touches no block.
LEMMA UseStdoutStep ==
  ASSUME TInv, NEW t \in Thread, UseStdout(t)
  PROVE  TInv'
<1> USE DEF UseStdout, TInv, heapVars, callVars, tableVars, history
<1>1. PlainTypes' /\ ReportTypes'
  BY DEF PlainTypes, ReportTypes
<1>2. BlockInv'
  BY DEF BlockInv, Works
<1>3. EntryInv' /\ SumInv'
  BY DEF EntryInv, SumInv, IsTable
<1>4. HistoryInv'
  BY DEF HistoryInv, InsertedIsReported, Holders
<1>5. QED
  BY <1>1, <1>2, <1>3, <1>4 DEF TInv

\* The block malloc returns was free, so no table has an entry of it.
LEMMA MallocStep ==
  ASSUME TInv, NEW t \in Thread, Malloc(t)
  PROVE  TInv'
<1> USE ThreadStatAssumption DEF Malloc, MayCall, Goto, tableVars, reportVars, history
<1>1. PICK a \in Free, n \in Size :
        /\ size' = [size EXCEPT ![a] = n]
        /\ by'   = [by EXCEPT ![a] = t]
        /\ ptr'  = [ptr EXCEPT ![t] = a]
  OBVIOUS
<1> a \in Addr /\ size[a] = 0 /\ n # 0 /\ n \in Nat
  BY DEF Free
<1>2. PlainTypes' /\ ReportTypes'
  BY <1>1 DEF PlainTypes, ReportTypes, TInv
<1>3. BlockInv'
  BY <1>1 DEF BlockInv, Works, TInv, PlainTypes
<1>4. EntryInv'
  <2>1. \A u \in Thread : IsTable(memMap[u]) /\ IsTable(memMap[u])' /\ a \notin DOMAIN memMap[u]
    BY DEF TInv, EntryInv, IsTable
  <2>2. QED
    BY <1>1, <2>1 DEF EntryInv, TInv, PlainTypes, IsTable
<1>5. SumInv'
  BY DEF SumInv, TInv
<1>6. HistoryInv'
  <2>1. /\ pc[t] = "idle" /\ \A u \in Thread \ {t} : pc'[u] = pc[u] /\ ptr'[u] = ptr[u]
        /\ ptr'[t] = a
    BY <1>1 DEF TInv, PlainTypes
  <2>2. a \notin forgotten /\ \A c \in forgotten : c # a /\ c \in Addr
    BY DEF HistoryInv, InsertedIsReported, TInv, PlainTypes
  <2>3. \A c \in forgotten : size'[c] = size[c]
    BY <1>1, <2>2 DEF TInv, PlainTypes
  <2>4. InsertedIsReported'
    BY <2>1, <2>3 DEF HistoryInv, InsertedIsReported, Holders, TInv
  <2>5. QED
    BY <2>1, <2>2, <2>4 DEF HistoryInv, TInv
<1>7. QED
  BY <1>2, <1>3, <1>4, <1>5, <1>6 DEF TInv

\* A call that failed works on no block.
LEMMA MallocFailsStep ==
  ASSUME TInv, NEW t \in Thread, MallocFails(t)
  PROVE  TInv'
<1> USE ThreadStatAssumption DEF MallocFails, MayCall, Goto, heapVars, tableVars, reportVars, history
<1>1. PlainTypes' /\ ReportTypes'
  BY DEF PlainTypes, ReportTypes, TInv
<1>2. BlockInv'
  BY DEF BlockInv, Works, TInv, PlainTypes
<1>3. EntryInv' /\ SumInv'
  BY DEF EntryInv, SumInv, IsTable, TInv, PlainTypes
<1>4. HistoryInv'
  <2>1. /\ pc[t] = "idle" /\ \A u \in Thread \ {t} : pc'[u] = pc[u] /\ ptr'[u] = ptr[u]
        /\ ptr'[t] = Null /\ Null \notin forgotten
    BY DEF TInv, PlainTypes
  <2>2. InsertedIsReported'
    BY <2>1 DEF HistoryInv, InsertedIsReported, Holders, TInv
  <2>3. QED
    BY <2>1, <2>2 DEF HistoryInv, TInv
<1>5. QED
  BY <1>1, <1>2, <1>3, <1>4 DEF TInv

\* The block a call of free or realloc takes leaves the application's hands.
LEMMA ReleaseStep ==
  ASSUME TInv, NEW t \in Thread, Release(t)
  PROVE  TInv'
<1> USE ThreadStatAssumption DEF Release, MayCall, Goto, tableVars, reportVars, history
<1>1. PICK a \in owned :
        /\ owned' = owned \ {a}
        /\ ptr'   = [ptr EXCEPT ![t] = a]
  OBVIOUS
<1> a \in Addr /\ a # Null
  BY DEF TInv, PlainTypes
<1>2. PlainTypes' /\ ReportTypes'
  BY <1>1 DEF PlainTypes, ReportTypes, TInv
<1>3. BlockInv'
  BY <1>1 DEF BlockInv, Works, TInv, PlainTypes
<1>4. EntryInv' /\ SumInv'
  BY <1>1 DEF EntryInv, SumInv, IsTable, TInv, PlainTypes
<1>5. HistoryInv'
  <2>1. pc[t] = "idle" /\ \A u \in Thread \ {t} : pc'[u] = pc[u] /\ ptr'[u] = ptr[u]
    BY <1>1 DEF TInv, PlainTypes
  <2>2. QED
    BY <2>1 DEF HistoryInv, InsertedIsReported, Holders, TInv
<1>6. QED
  BY <1>2, <1>3, <1>4, <1>5 DEF TInv

\* While s_init is unset the tables are empty: the hook that skips zl_del
\* leaves no entry behind.
LEMMA TestInitStep ==
  ASSUME TInv, NEW t \in Thread, TestInit(t)
  PROVE  TInv'
<1> USE ThreadStatAssumption DEF Goto, heapVars, tableVars, reportVars, history
<1>1. CASE pc[t] = "before"
  <2>1. /\ pc' = [pc EXCEPT ![t] = IF sInit THEN "del" ELSE "libc"]
        /\ UNCHANGED <<heapVars, ptr, op, tableVars, reportVars, history>>
    BY <1>1 DEF TestInit
  <2>2. PlainTypes' /\ ReportTypes'
    BY <2>1 DEF PlainTypes, ReportTypes, TInv
  <2>3. BlockInv'
    BY <1>1, <2>1 DEF BlockInv, Works, TInv, PlainTypes
  <2>4. EntryInv' /\ SumInv'
    BY <1>1, <2>1 DEF EntryInv, SumInv, IsTable, TInv, PlainTypes
  <2>5. HistoryInv'
    BY <1>1, <2>1 DEF HistoryInv, InsertedIsReported, Holders, TInv, PlainTypes
  <2>6. QED
    BY <2>2, <2>3, <2>4, <2>5 DEF TInv
<1>2. CASE pc[t] = "after"
  <2>1. /\ pc' = [pc EXCEPT ![t] = IF sInit THEN "insert" ELSE "idle"]
        /\ owned' = IF sInit \/ ptr[t] = Null THEN owned ELSE owned \cup {ptr[t]}
        /\ UNCHANGED <<size, by, ptr, op, tableVars, reportVars, history>>
    BY <1>2 DEF TestInit
  <2>2. PlainTypes' /\ ReportTypes'
    BY <2>1 DEF PlainTypes, ReportTypes, TInv
  <2>3. BlockInv'
    BY <1>2, <2>1 DEF BlockInv, Works, TInv, PlainTypes
  <2>4. EntryInv' /\ SumInv'
    BY <1>2, <2>1 DEF EntryInv, SumInv, IsTable, TInv, PlainTypes
  <2>5. HistoryInv'
    BY <1>2, <2>1 DEF HistoryInv, InsertedIsReported, Holders, TInv, PlainTypes
  <2>6. QED
    BY <2>2, <2>3, <2>4, <2>5 DEF TInv
<1>3. QED
  BY <1>1, <1>2 DEF TestInit

\* zl_insert adds the size of a block that has no entry, or a NULL of size 0.
LEMMA InsertStep ==
  ASSUME TInv, NEW t \in Thread, Insert(t)
  PROVE  TInv'
<1> USE ThreadStatAssumption DEF reportVars, history
<1> DEFINE p == ptr[t]
           n == UsableSize(p)
           k == memMap[t]
           m == With(k, p, n)
<1>1. p \in Addr \cup {Null} /\ n \in Nat /\ (p = Null => n = 0) /\ (p # Null => n = size[p] /\ n # 0 /\ by[p] = t)
  BY DEF UsableSize, TInv, PlainTypes, BlockInv, Works, Insert
<1>2. IsTable(k) /\ (p \in DOMAIN k => p = Null /\ n = 0 /\ k[p] = 0)
  BY <1>1 DEF TInv, EntryInv, Insert
<1> HIDE DEF p, n, k
<1>3. /\ IsTable(m)
      /\ DOMAIN m = DOMAIN k \cup {p}
      /\ \A q \in DOMAIN k \cup {p} : m[q] = IF q = p THEN n ELSE k[q]
  <2>1. p \in Addr \cup {Null} /\ n \in Nat /\ IsTable(k)
    BY <1>1, <1>2
  <2>2. QED
    BY ONLY <2>1, WithTable
<1>4. SumFunction(m) = SumFunction(k) + n
  BY <1>1, <1>2, SumWith
<1>5. /\ pc[t] = "insert" /\ sInit
      /\ memMap' = [memMap EXCEPT ![t] = m]
      /\ total' = [total EXCEPT ![t] = total[t] + n]
      /\ inserted' = inserted \cup ({p} \ {Null})
      /\ owned' = owned \cup ({p} \ {Null})
      /\ pc' = [pc EXCEPT ![t] = "idle"]
      /\ UNCHANGED <<size, by, ptr, op, sInit, sgThreadid, mutex, stdout, rpc, forgotten>>
  BY DEF Insert, Goto, TInv, EntryInv, p, n, k
<1> HIDE DEF m
<1>6. ptr[t] = p /\ memMap[t] = k
  BY DEF p, k
<1>7. PlainTypes' /\ ReportTypes'
  <2>1. memMap' = [u \in Thread |-> memMap'[u]]
    BY <1>5 DEF PlainTypes, TInv
  <2>2. total' \in [Thread -> Int]
    BY <1>1, <1>5 DEF PlainTypes, TInv
  <2>3. inserted' \subseteq Addr /\ owned' \subseteq Addr /\ forgotten' \subseteq inserted'
    BY <1>1, <1>5 DEF PlainTypes, TInv
  <2>4. QED
    BY <1>5, <2>1, <2>2, <2>3 DEF PlainTypes, ReportTypes, TInv
<1>8. BlockInv'
  <2>1. /\ pc'[t] = "idle" /\ \A u \in Thread \ {t} : pc'[u] = pc[u]
        /\ \A u \in Thread \ {t} : Works(u) => ptr[u] # p
    BY <1>5, <1>6 DEF BlockInv, Works, TInv, PlainTypes
  <2>2. QED
    BY <1>1, <1>5, <2>1 DEF BlockInv, Works, TInv
<1>9. /\ memMap'[t] = m
      /\ \A u \in Thread \ {t} : memMap'[u] = memMap[u]
      /\ total'[t] = total[t] + n
      /\ \A u \in Thread \ {t} : total'[u] = total[u]
  BY <1>5 DEF TInv, PlainTypes
<1>10. EntryInv'
  <2>1. \A u \in Thread : IsTable(memMap'[u])
    BY <1>3, <1>6, <1>9 DEF TInv, EntryInv
  <2>2. \A u \in Thread : \A a \in DOMAIN memMap'[u] :
          IF a = Null THEN memMap'[u][a] = 0
          ELSE by[a] = u /\ size[a] = memMap'[u][a] /\ size[a] # 0
    BY <1>1, <1>3, <1>6, <1>9 DEF TInv, EntryInv
  <2>3. \A v, u \in Thread :
          pc'[v] \in {"after", "insert", "libc"} /\ ptr[v] # Null => ptr[v] \notin DOMAIN memMap'[u]
    BY <1>3, <1>5, <1>6, <1>9 DEF TInv, EntryInv, PlainTypes, BlockInv, Works
  <2>4. QED
    BY <1>5, <2>1, <2>2, <2>3 DEF EntryInv, IsTable
<1>11. SumInv'
  BY <1>4, <1>6, <1>9 DEF SumInv, TInv
<1>12. HistoryInv'
  <2>1. pc[t] = "insert" /\ \A u \in Thread \ {t} : pc'[u] = pc[u] /\ ptr'[u] = ptr[u]
    BY <1>5 DEF TInv, PlainTypes
  <2>2. \A u \in Thread : DOMAIN memMap[u] \subseteq DOMAIN memMap'[u]
    BY <1>3, <1>6, <1>9
  <2>3. p # Null => p \in DOMAIN memMap'[t]
    BY <1>3, <1>6, <1>9
  <2>4. \A a \in inserted' : a \in inserted \/ (a = p /\ p # Null)
    BY <1>5
  <2>5. p \notin forgotten /\ forgotten' = forgotten /\ size' = size
    BY <1>5, <1>6 DEF HistoryInv, TInv
  <2>6. \A u \in Thread : DOMAIN memMap'[u] \subseteq DOMAIN memMap[u] \cup {p}
    BY <1>3, <1>6, <1>9
  <2>7. InsertedIsReported'
    BY <2>1, <2>2, <2>3, <2>4, <2>5, <2>6 DEF HistoryInv, InsertedIsReported, Holders, TInv
  <2>8. QED
    BY <1>5, <2>1, <2>5, <2>7 DEF HistoryInv, TInv, PlainTypes
<1>13. QED
  BY <1>7, <1>8, <1>10, <1>11, <1>12 DEF TInv

\* zl_del finds the only entry of the block, and subtracts what zl_insert added.
LEMMA DelStep ==
  ASSUME TInv, NEW t \in Thread, Del(t)
  PROVE  TInv'
<1> USE ThreadStatAssumption DEF heapVars, tableVars, reportVars, history
<1> DEFINE p == ptr[t]
<1>1. /\ pc[t] = "del" /\ pc' = [pc EXCEPT ![t] = "libc"]
      /\ UNCHANGED <<size, by, owned, ptr, op, sInit, sgThreadid, mutex, stdout, rpc, history>>
      /\ p \in Addr
  BY DEF Del, Goto, TInv, PlainTypes, BlockInv
<1>2. BlockInv'
  BY <1>1 DEF BlockInv, Works, TInv, PlainTypes
<1>3. ASSUME NEW u \in Thread, p \in DOMAIN memMap[u]
      PROVE  by[p] = u /\ size[p] = memMap[u][p]
  BY <1>1, <1>3 DEF TInv, EntryInv
<1>4. CASE Found(t) = {} /\ UNCHANGED tableVars
  <2>1. \A u \in Thread : p \notin DOMAIN memMap[u]
    BY <1>4 DEF Found, Holders
  <2>2. PlainTypes' /\ ReportTypes' /\ SumInv'
    BY <1>1, <1>4 DEF PlainTypes, ReportTypes, SumInv, TInv
  <2>3. EntryInv'
    BY <1>1, <1>4, <2>1 DEF EntryInv, IsTable, TInv, PlainTypes
  <2>4. HistoryInv'
    BY <1>1, <1>4 DEF HistoryInv, InsertedIsReported, Holders, TInv, PlainTypes
  <2>5. QED
    BY <1>2, <2>2, <2>3, <2>4 DEF TInv
<1>5. CASE \E u \in Found(t) : Erased(u, ptr[t])
  <2>1. PICK u \in Thread : p \in DOMAIN memMap[u] /\ Erased(u, p)
    BY <1>5 DEF Found, Holders
  <2> DEFINE m == Without(memMap[u], p)
             n == IF DOMAIN memMap[u] = {p} THEN 0 ELSE total[u] - size[p]
  <2>2. memMap' = [memMap EXCEPT ![u] = m] /\ total' = [total EXCEPT ![u] = n]
    BY <2>1 DEF Erased
  <2>3. IsTable(memMap[u])
    BY DEF TInv, EntryInv
  <2> HIDE DEF p
  <2>4. IsTable(m) /\ DOMAIN m = DOMAIN memMap[u] \ {p} /\ \A q \in DOMAIN memMap[u] \ {p} : m[q] = memMap[u][q]
    BY <2>3, WithoutTable
  <2>5. /\ SumFunction(memMap[u]) = memMap[u][p] + SumFunction(m)
        /\ SumFunction(m) \in Nat /\ SumFunction(memMap[u]) \in Nat /\ memMap[u][p] \in Nat
        /\ DOMAIN memMap[u] = {p} => SumFunction(m) = 0
    BY <2>1, <2>3, SumWithout DEF IsTable
  <2>6. total[u] = SumFunction(memMap[u]) /\ size[p] = memMap[u][p] /\ by[p] = u
    BY <1>3, <2>1 DEF TInv, SumInv
  <2>7. n = SumFunction(m) /\ n \in Nat
    BY <2>5, <2>6
  <2> HIDE DEF m, n
  <2>8. /\ memMap'[u] = m /\ total'[u] = n
        /\ \A v \in Thread \ {u} : memMap'[v] = memMap[v] /\ total'[v] = total[v]
    BY <2>2 DEF TInv, PlainTypes
  <2>9. PlainTypes' /\ ReportTypes'
    <3>1. memMap' = [v \in Thread |-> memMap'[v]]
      BY <2>2 DEF PlainTypes, TInv
    <3>2. total' \in [Thread -> Int]
      BY <2>2, <2>7 DEF PlainTypes, TInv
    <3>3. QED
      BY <1>1, <3>1, <3>2 DEF PlainTypes, ReportTypes, TInv
  <2>10. SumInv'
    BY <2>7, <2>8 DEF SumInv, TInv
  <2>11. \A v \in Thread : DOMAIN memMap'[v] = DOMAIN memMap[v] \ {p}
    BY <1>3, <2>4, <2>6, <2>8
  <2>12. \A v \in Thread : \A a \in DOMAIN memMap'[v] : memMap'[v][a] = memMap[v][a]
    BY <2>4, <2>8
  <2>13. EntryInv'
    <3>1. \A v \in Thread : IsTable(memMap'[v])
      BY <2>4, <2>8 DEF TInv, EntryInv
    <3>2. \A v \in Thread : \A a \in DOMAIN memMap'[v] :
            IF a = Null THEN memMap'[v][a] = 0
            ELSE by[a] = v /\ size[a] = memMap'[v][a] /\ size[a] # 0
      BY <2>11, <2>12 DEF TInv, EntryInv
    <3>3. \A v, w \in Thread :
            pc'[v] \in {"after", "insert", "libc"} /\ ptr[v] # Null => ptr[v] \notin DOMAIN memMap'[w]
      BY <1>1, <2>11 DEF TInv, EntryInv, PlainTypes, p
    <3>4. QED
      BY <1>1, <3>1, <3>2, <3>3 DEF TInv, EntryInv, PlainTypes, IsTable
  <2>14. HistoryInv'
    <3>1. pc'[t] = "libc" /\ ptr'[t] = p /\ \A v \in Thread : pc[v] = "libc" => pc'[v] = "libc"
      BY <1>1 DEF TInv, PlainTypes, p
    <3>2. QED
      BY <1>1, <2>11, <3>1 DEF HistoryInv, InsertedIsReported, Holders, TInv
  <2>15. QED
    BY <1>2, <2>9, <2>10, <2>13, <2>14 DEF TInv
<1>6. QED
  BY <1>4, <1>5 DEF Del

\* The block free gives back has lost its entry.
LEMMA LibcFreeStep ==
  ASSUME TInv, NEW t \in Thread, LibcFree(t)
  PROVE  TInv'
<1> USE ThreadStatAssumption DEF LibcFree, Released, Goto, tableVars, reportVars, history
<1>1. PlainTypes' /\ ReportTypes'
  BY DEF PlainTypes, ReportTypes, TInv
<1>2. /\ pc[t] = "libc" /\ ptr[t] # Null /\ ptr[t] \in Addr
      /\ \A u \in Thread : pc'[u] = IF u = t THEN "idle" ELSE pc[u]
      /\ \A a \in Addr : /\ size'[a] = IF a = ptr[t] THEN 0 ELSE size[a]
                         /\ a # ptr[t] => by'[a] = by[a]
  BY DEF TInv, PlainTypes, BlockInv
<1>3. BlockInv'
  BY <1>2 DEF BlockInv, Works, TInv, PlainTypes
<1>4. EntryInv' /\ SumInv'
  <2>1. \A u \in Thread : IsTable(memMap[u]) /\ IsTable(memMap[u])' /\ ptr[t] \notin DOMAIN memMap[u]
    BY <1>2 DEF TInv, EntryInv, IsTable
  <2>2. QED
    BY <1>2, <2>1 DEF EntryInv, SumInv, TInv, PlainTypes, IsTable
<1>5. HistoryInv'
  BY <1>2 DEF HistoryInv, InsertedIsReported, Holders, TInv
<1>6. QED
  BY <1>1, <1>3, <1>4, <1>5 DEF TInv

\* So has the one realloc moves; where it moves to has none.
LEMMA LibcReallocStep ==
  ASSUME TInv, NEW t \in Thread, LibcRealloc(t)
  PROVE  TInv'
<1> USE ThreadStatAssumption DEF LibcRealloc, Released, Goto, tableVars, reportVars, history
<1>1. PICK b \in Free \cup {ptr[t]}, n \in Size :
        /\ size' = [size EXCEPT ![ptr[t]] = 0, ![b] = n]
        /\ by'   = [by EXCEPT ![ptr[t]] = NoThread, ![b] = t]
        /\ ptr'  = [ptr EXCEPT ![t] = b]
  OBVIOUS
<1>2. /\ pc[t] = "libc" /\ ptr[t] # Null /\ ptr[t] \in Addr /\ b \in Addr /\ b # Null
      /\ n \in Nat /\ n # 0
      /\ b # ptr[t] => size[b] = 0
  BY DEF Free, TInv, PlainTypes, BlockInv
<1>3. PlainTypes' /\ ReportTypes'
  BY <1>1, <1>2 DEF PlainTypes, ReportTypes, TInv
<1>4. /\ \A u \in Thread : pc'[u] = IF u = t THEN "after" ELSE pc[u]
      /\ \A u \in Thread : ptr'[u] = IF u = t THEN b ELSE ptr[u]
      /\ size'[b] = n /\ by'[b] = t
      /\ \A a \in Addr \ {b, ptr[t]} : size'[a] = size[a] /\ by'[a] = by[a]
      /\ inserted' = inserted \ {ptr[t]} /\ forgotten' = forgotten \ {ptr[t]} /\ memMap' = memMap
  BY <1>1, <1>2 DEF TInv, PlainTypes
<1>5. ptr[t] \notin owned /\ b \notin owned /\ \A u \in Thread \ {t} : Works(u) => ptr[u] \notin {b, ptr[t]}
  BY <1>2 DEF TInv, BlockInv, Works
<1>6. BlockInv'
  BY <1>2, <1>4, <1>5 DEF BlockInv, Works, TInv, PlainTypes
<1>7. \A u \in Thread : /\ IsTable(memMap[u]) /\ IsTable(memMap[u])'
                        /\ ptr[t] \notin DOMAIN memMap[u] /\ b \notin DOMAIN memMap[u]
  BY <1>2 DEF TInv, EntryInv, IsTable
<1>8. EntryInv' /\ SumInv'
  BY <1>2, <1>4, <1>7 DEF EntryInv, SumInv, TInv, PlainTypes, IsTable
<1>9. HistoryInv'
  <2>1. b \notin forgotten' /\ inserted \subseteq Addr /\ forgotten \subseteq Addr
    BY <1>2, <1>4 DEF HistoryInv, InsertedIsReported, TInv, PlainTypes
  <2>2. \A a \in forgotten' : size'[a] # 0 /\ Holders(a)' = {}
    BY <1>4, <2>1 DEF HistoryInv, InsertedIsReported, Holders, TInv
  <2>3. \A a \in inserted' :
          Holders(a)' # {} \/ (\E u \in Thread : pc'[u] = "libc" /\ ptr'[u] = a) \/ a \in forgotten'
    BY <1>4 DEF HistoryInv, InsertedIsReported, Holders, TInv
  <2>4. InsertedIsReported'
    BY <2>2, <2>3 DEF InsertedIsReported
  <2>5. \A u \in Thread : pc'[u] \in {"after", "insert"} => ptr'[u] \notin forgotten'
    BY <1>4, <2>1 DEF HistoryInv, TInv
  <2>6. QED
    BY <2>4, <2>5 DEF HistoryInv
<1>10. QED
  BY <1>3, <1>6, <1>8, <1>9 DEF TInv

\* The one a realloc to size 0 gives back as well; its call goes on without.
LEMMA LibcReallocZeroStep ==
  ASSUME TInv, NEW t \in Thread, LibcReallocZero(t)
  PROVE  TInv'
<1> USE ThreadStatAssumption DEF LibcReallocZero, Released, Goto, tableVars, reportVars
<1>1. PlainTypes' /\ ReportTypes'
  BY DEF PlainTypes, ReportTypes, TInv
<1>2. /\ pc[t] = "libc" /\ ptr[t] # Null /\ ptr[t] \in Addr
      /\ \A u \in Thread : pc'[u] = IF u = t THEN "after" ELSE pc[u]
      /\ \A u \in Thread : ptr'[u] = IF u = t THEN Null ELSE ptr[u]
      /\ \A a \in Addr : /\ size'[a] = IF a = ptr[t] THEN 0 ELSE size[a]
                         /\ a # ptr[t] => by'[a] = by[a]
  BY DEF TInv, PlainTypes, BlockInv
<1>3. BlockInv'
  BY <1>2 DEF BlockInv, Works, TInv, PlainTypes
<1>4. EntryInv' /\ SumInv'
  <2>1. \A u \in Thread : IsTable(memMap[u]) /\ IsTable(memMap[u])' /\ ptr[t] \notin DOMAIN memMap[u]
    BY <1>2 DEF TInv, EntryInv, IsTable
  <2>2. QED
    BY <1>2, <2>1 DEF EntryInv, SumInv, TInv, PlainTypes, IsTable
<1>5. HistoryInv'
  <2>1. /\ inserted' = inserted \ {ptr[t]} /\ forgotten' = forgotten \ {ptr[t]} /\ memMap' = memMap
        /\ forgotten \subseteq Addr /\ Null \notin Addr
    BY DEF TInv, PlainTypes
  <2>2. InsertedIsReported'
    BY <1>2, <2>1 DEF HistoryInv, InsertedIsReported, Holders, TInv
  <2>3. QED
    BY <1>2, <2>1, <2>2 DEF HistoryInv, TInv
<1>6. QED
  BY <1>1, <1>3, <1>4, <1>5 DEF TInv

\* A realloc that fails leaves the block to the application, without entry.
LEMMA LibcReallocFailsStep ==
  ASSUME TInv, NEW t \in Thread, LibcReallocFails(t)
  PROVE  TInv'
<1> USE ThreadStatAssumption DEF LibcReallocFails, Goto, tableVars, reportVars, history
<1>1. /\ pc[t] = "libc" /\ ptr[t] # Null /\ ptr[t] \in Addr
      /\ \A u \in Thread : pc'[u] = IF u = t THEN "after" ELSE pc[u]
      /\ \A u \in Thread : ptr'[u] = IF u = t THEN Null ELSE ptr[u]
  BY DEF TInv, PlainTypes, BlockInv
<1>2. PlainTypes' /\ ReportTypes'
  BY <1>1 DEF PlainTypes, ReportTypes, TInv
<1>3. BlockInv'
  BY <1>1 DEF BlockInv, Works, TInv, PlainTypes
<1>4. EntryInv' /\ SumInv'
  BY <1>1 DEF EntryInv, SumInv, IsTable, TInv, PlainTypes
<1>5. HistoryInv'
  <2>1. /\ forgotten' \subseteq forgotten \cup {ptr[t]} /\ inserted' = inserted
        /\ forgotten \subseteq forgotten' /\ ptr[t] \in inserted => ptr[t] \in forgotten'
        /\ forgotten' \subseteq Addr /\ Null \notin Addr /\ memMap' = memMap /\ size' = size
    BY <1>1 DEF TInv, PlainTypes
  <2>2. \A u \in Thread : ptr[t] \notin DOMAIN memMap[u] /\ size[ptr[t]] # 0
    BY <1>1 DEF TInv, EntryInv, BlockInv, Works
  <2>3. \A u \in Thread : pc'[u] \in {"after", "insert"} => ptr'[u] \notin forgotten'
    <3> TAKE u \in Thread
    <3>1. CASE u = t
      BY <1>1, <2>1, <3>1
    <3>2. CASE u # t
      BY <1>1, <2>1, <3>2 DEF HistoryInv, BlockInv, Works, TInv
    <3>3. QED
      BY <3>1, <3>2
  <2>4. \A a \in forgotten' : size'[a] # 0 /\ Holders(a)' = {}
    BY <1>1, <2>1, <2>2 DEF HistoryInv, InsertedIsReported, Holders, TInv
  <2>5. \A a \in inserted' :
          Holders(a)' # {} \/ (\E u \in Thread : pc'[u] = "libc" /\ ptr'[u] = a) \/ a \in forgotten'
    BY <1>1, <2>1 DEF HistoryInv, InsertedIsReported, Holders, TInv
  <2>6. InsertedIsReported'
    BY <2>4, <2>5 DEF InsertedIsReported
  <2>7. QED
    BY <2>3, <2>6 DEF HistoryInv
<1>6. QED
  BY <1>2, <1>3, <1>4, <1>5 DEF TInv

\* The reporter changes no table.
LEMMA ReportStep ==
  ASSUME TInv, Report
  PROVE  TInv'
<1> USE ThreadStatAssumption DEF Report, SetThreadid, Open, Lock, PrintLine, Copy, Unlock, heapVars, callVars, tableVars, history
<1>1. /\ UNCHANGED <<heapVars, callVars, tableVars, history>>
      /\ ~sInit' => ~sInit
  BY DEF TInv, ReportTypes
<1>2. ReportTypes'
  BY DEF ReportTypes, TInv
<1>3. PlainTypes' /\ BlockInv' /\ SumInv'
  BY <1>1 DEF PlainTypes, BlockInv, Works, SumInv, TInv
<1>4. EntryInv' /\ HistoryInv'
  BY <1>1 DEF EntryInv, IsTable, HistoryInv, InsertedIsReported, Holders, TInv
<1>5. QED
  BY <1>2, <1>3, <1>4 DEF TInv

\* Nor does a step that changes nothing.
LEMMA StutterStep ==
  ASSUME TInv, UNCHANGED vars
  PROVE  TInv'
<1> USE DEF vars, heapVars, callVars, tableVars, reportVars, history, TInv
<1>1. PlainTypes' /\ ReportTypes' /\ SumInv'
  BY DEF PlainTypes, ReportTypes, SumInv
<1>2. BlockInv' /\ HistoryInv'
  BY DEF BlockInv, Works, HistoryInv, InsertedIsReported, Holders
<1>3. EntryInv'
  BY DEF EntryInv, IsTable
<1>4. QED
  BY <1>1, <1>2, <1>3

-----------------------------------------------------------------------------
(* The theorems. *)

\* The invariant holds of every state of the library.
THEOREM ThreadStatInvariant == Spec => []TInv
<1>1. TInv /\ [Next]_vars => TInv'
  <2> SUFFICES ASSUME TInv, [Next]_vars PROVE TInv'
    OBVIOUS
  <2>1. ASSUME NEW t \in Thread, Call(t) PROVE TInv'
    BY <2>1, UseStdoutStep, MallocStep, MallocFailsStep, ReleaseStep DEF Call
  <2>2. ASSUME NEW t \in Thread, Hook(t) PROVE TInv'
    BY <2>2, TestInitStep, InsertStep, DelStep, LibcFreeStep, LibcReallocStep,
       LibcReallocZeroStep, LibcReallocFailsStep DEF Hook
  <2>3. QED
    BY <2>1, <2>2, ReportStep, StutterStep DEF Next
<1>2. QED
  BY InitTInv, <1>1, PTL DEF Spec

\* Every variable has its type; in particular no size of a thread that
\* zl_del has taken from goes below zero.
THEOREM ThreadStatTypes == Spec => []TypeOK
<1>1. TInv => TypeOK
  <2> SUFFICES ASSUME TInv PROVE TypeOK
    OBVIOUS
  <2>1. \A t \in Thread : total[t] \in Nat /\ DOMAIN memMap[t] \subseteq Addr \cup {Null}
    <3> TAKE t \in Thread
    <3>1. /\ IsFiniteSet(DOMAIN memMap[t]) /\ \A a \in DOMAIN memMap[t] : memMap[t][a] \in Nat
          /\ DOMAIN memMap[t] \subseteq Addr \cup {Null}
      BY DEF TInv, EntryInv, IsTable
    <3>2. SumFunctionOnSet(memMap[t], DOMAIN memMap[t]) \in Nat
      BY <3>1, SumType
    <3>3. total[t] \in Nat
      BY <3>2 DEF TInv, SumInv, SumFunction
    <3>4. QED
      BY <3>1, <3>3
  <2>2. QED
    BY <2>1 DEF TInv, PlainTypes, ReportTypes, TypeOK
<1>2. QED
  BY ThreadStatInvariant, <1>1, PTL

\* The size zl_insert and zl_del keep from call to call is that of the
\* thread's entries, and the entries are its live blocks.
THEOREM SizesAreLive == Spec => []ReportedSizeIsLive
<1>1. TInv => ReportedSizeIsLive
  BY DEF TInv, SumInv, EntryInv, ReportedSizeIsLive
<1>2. QED
  BY ThreadStatInvariant, <1>1, PTL

\* A block zl_insert entered keeps its entry until a release of it is past
\* zl_del, or a realloc of it fails: then it is live, and in no table until it
\* is moved or released.
THEOREM InsertedStaysReported == Spec => []InsertedIsReported
<1>1. TInv => InsertedIsReported
  BY DEF TInv, HistoryInv
<1>2. QED
  BY ThreadStatInvariant, <1>1, PTL
=============================================================================
