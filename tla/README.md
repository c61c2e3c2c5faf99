# memTool in TLA+

memTool finds memory leaks of C and C++ programs. This directory models it: what
is modelled is translated from the source, checked by TLC on small instances,
and proved by TLAPS, in good part, for every instance. `PROJECT.json` lists every run,
the lines each definition models, the hazards and the theorems.

## The system

| component | source | state | operations | what makes it correct |
|---|---|---|---|---|
| allocation hooks and maps | `memCount/src/preload.cpp`, `count.h` | `sm_threadMemMap`, `sm_threadNameMap`, `sg_count_init`, the thread's key `sg_isNeedCallRealMalloc` | malloc, calloc, realloc, free, `zl_malloc_b`, `zl_free_b`, `insert`, `remove` | the maps hold exactly the live blocks, each once, under its allocator |
| sessions and reports | `count.cpp` | `sm_bStart`, `sm_tid`, `sm_mutex`, `s_fileMutex`, `bStop` | `start`, `stop`, `autoPrint`, `printMemSizeDetail`, `printMemDetail` | a report never stops the program, iterates over stable maps, and comes to its end |
| parameter file thread | `count.cpp` | `g_count_start`, `sm_minSize`, `sm_maxSize` | `autoReadParam`, `readNumberFromFile` | a file read at any time leaves the tracker consistent |
| receiver, UDP | `huoyantu/tools/recvDiagMemInfo` | reordering buffer, list of output files | the loop `__recvAndProcDiagMemInfo` | each record that arrives is written once, in order, to its source's file |
| receiver, TCP | the same, and the Windows port in `huoyantu/win32` | the same per connection, and the part of a record left in the buffer; shared by the threads of the Windows port | `accept`, the same loop | each complete record of a stream is written once, wherever the stream is cut; what is kept is written at the end |
| converter | `huoyantu/tools/cvntGProfFmt` | table of call stacks, cache, peak | `updateDiagMemInfo`, `procEach`, `procCur`, the profiles at the end or on a signal | in-use figures are what allocations and releases add up to, and what is printed adds up |
| cutter, describer | `huoyantu/tools/cutDiagMemInfo`, `descDiagMenInfo` | times, counters, sums | sequential passes over a file | the pieces are the records asked for, and the summary is the piece's |
| thread statistics | `memCount/threadstat.cpp` | table of blocks by address | `zl_insert`, `zl_del`, the hooks, the reporting thread | a thread's figure is the size of its live blocks |
| wrapper, test program, scripts | `memCount` | none | | |

The hooks and the reports meet in one thread: a `free` that ends a session runs
`stop()` inside the hook, and a report that allocates in the printer thread runs
the hooks on top of itself. The parameter thread writes the flags that the hooks
read without a lock. The device's processes send datagrams or streams to the
receiver, whose files the converter, the cutter and the describer read; a piece
that the cutter writes is a file like the others.

## Modules

| module | models | state ↔ code |
|---|---|---|
| `Preload` | hooks, maps, parameter thread | `memMap[t][a]` is `sm_threadMemMap[t][a]`, 0 for no entry; `pc` walks a hook through one shared access per step; `size`, `by` are libc's heap |
| `Ledger` | nothing in the code: what a leak tracker promises of a block | |
| `PreloadLedger` | the refinement mapping from `Preload` to `Ledger` | |
| `MCPreload` | instances of `Preload` | |
| `PreloadProofs` | theorems about `Preload` and `PreloadLedger`: always on, the refinement, in sessions | |
| `CountReport` | `start`, `stop`, the printer and the two reports, their locks and flags | two frames per thread, its own code and the hook it is in; `smHeld` counts the recursive `sm_mutex`, `fileHolder` is `s_fileMutex` |
| `CountReportProofs` | theorems about `CountReport` | |
| `ThreadStat` | `threadstat.cpp` | `memMap`, `total` are the two fields of `sg_threadMemMap[tid]`; `mutex`, `sInit`, `sgThreadid` its globals; `stdout` is stdio's lock |
| `ThreadStatProofs` | theorems about `ThreadStat` | |
| `Stator`, `MCStator` | the converter's two passes over its files, its profiles, its signal handler | `stat.main`, `stat.peak` are the two statisticians; a call stack with its record type is one model value; `unread`, `avail` count units of half a record; `printed` has the profiles. The cache is a set: a block has the number of its allocation, since a row begins with the newest |
| `StatorProofs` | theorems about `Stator` | |
| `Recv`, `MCRecv` | the UDP loop with `-S` and its files | A source is a pair of address and pid; `expect`, `forward`, `rord` are `ExpectNextSeqID`, `IsForwardReordering`, `RordBuf`; `writers` has the list of `_mCtxFileWriterHead` as a set: the list is searched from its newest entry, and a newer writer has a newer file |
| `Loop` | the loop `__forEachDiagMemInfo`, of any body, as a recursive function | |
| `RecvProofs` | theorems about `Recv` | |
| `Induction` | nothing in the code: induction over numbers and finite sets, sums over finite sets, loops as recursive functions | |
| `RecvTcp`, `MCRecvTcp` | the loop with `-S -T`, of both ports | `buf`, `left` are `RcvBuf` with `RcvLen` and `BufLeftProcLen` of a connection; `expect`, `forward`, `rord`, `writers` are per process: `Proc` is the connection's own on Linux (`fork`) and one for all in the Windows port (threads) |
| `RecvTcpProofs` | theorems about `RecvTcp` | |
| `Cutter` | tos-cutDiagMemInfo | `argv`, `optind` are getopt's: the command line and how far it is read; `times` are `StartSecond`, `BaseSecond`, `FromSecond`, `ToSecond`; `piece` is the file written |
| `Describer` | tos-descDiagMemInfo | `cnt`, `siz` are `CNT`, `SIZ`; `times` are `StartTime`, `TvSecBase`, `EndTime` |
| `ToolChain`, `MCToolChain` | a file is cut, the piece is cut again, what that leaves is described | two instances of `Cutter` and one of `Describer` |
| `ToolChainProofs` | theorems about `ToolChain` | |

`Preload` takes each section under `sm_mutex` as one step: nothing in it waits,
and all that touches the maps takes that mutex. `CountReport` then opens the
sections that do wait or call back, leaves the maps' content out, and asks
about the locks. `Thread` of `Preload` are the threads whose hooks run; the
parameter thread's own allocations (its ifstream) are hooked like those of any
thread, and stand for one member of `Thread`.

## Runs

Expected to pass:

| run | question | bounds |
|---|---|---|
| `preload_always_on` | Does the tracker, always on and unfiltered, implement `Ledger`? Are entries live, of the right thread and size, and their threads named? | 2 threads, 2 addresses, 2 sizes |
| `preload_sessions` | The switch flips at any moment of the hooks: does a session whose switch-on found the one before it over stay separate from it, and is no live block of it missing up to the end of `stop()`? | 2 threads, 2 addresses, files: on, off by another number and on again, or empty |
| `report_locks` | Are locks given back on every path, and is `sm_mutex` never held by a waiter for `s_fileMutex`? | 1 thread, 2 printers, 3 flips of the switch, `fopen` fails anywhere |
| `report_session` | Are iterators valid, do mallocs return, does the printer go on? | 2 threads, 1 printer, 2 flips |
| `recv_reorder` | Is everything received written once? Which records come into another source's file, or into `/dev/null` although their source goes on sending? Is a file in order if one source is heard? | 3 sources on 2 devices, two of them with one pid, up to 4 records each and 6 in all, datagrams of 1 or 2, 3 in flight, 2 units of time |
| `stator_one_file` | Is the profile that of the blocks in use by the records alone, and the second that at the peak? Do the lines add up, also when a signal cuts in? | all files of up to 4 records, 2 addresses (one of pages), 2 call stacks (one of 64-bit records), any cut of the pipe |
| `recv_tcp` | Is every complete record of a stream written or kept, is a connection's file the beginning of its stream, and is what is kept written at the end? | 2 connections, one with a gap or with numbers in disorder, of 3 and 2 records, 3 units to a record (2 of them its head), a buffer of 2 records, 1 unit of time, both ports |
| `file_tools` | Are pieces, and pieces of pieces, the records the command lines ask for, and does the summary agree with them? | all files of up to 3 records in 4 seconds, 11 command lines, 32-bit sums reduced to 8 |
| `thread_stat` | Are the sizes per thread those of their live blocks, which live blocks are missing, and does every hook return? | 2 threads, 2 addresses, 1 size, a reporter that may fail to start |

Two threads and two addresses are enough for every race on one entry: an
allocator, a releaser that is another thread, and the reuse of the address
while the first hook is under way. A second address keeps the maps from being
empty. `Window` and `Hole` of `Recv` stand for the literals 100 and 50: only
their order relative to the distances in play matters, and both sides of each
limit occur, in `RecvTcp` too. Three units to a record are the least with a
cut inside the head, a cut behind it and a whole record.

Expected to be violated, each one a disagreement between a line of the
repository and the code (`findings` of `PROJECT.json` quote the lines):

| run | what it shows |
|---|---|
| `preload_filter` | the switch takes effect before the filters of the same file; a block inserted in between is never erased, and a later block at its address is taken for another thread's |
| `report_self_lock` | the printer's `fclose` under `s_fileMutex` can end the session in its own free hook, whose `printMemSizeDetail` waits for the mutex the thread holds |
| `stator_two_files` | the mode of the second pass is never reset: a second file is not counted, or only up to the first one's peak |

The same property as in `report_self_lock`, `SizeDetailReturns`, also fails with
`OpenMayFail`: `printMemSizeDetail` returns without unlocking `s_fileMutex` when
`fopen` fails (count.cpp:291).

Other differences between the repository's words and the code, seen while
modelling, for which no run is spent:

- `-d` of the cutter adds its seconds to the start of the file, and to 0 if it
  comes before `-F` (tos-cutDiagMemInfo.c:87); the usage says 'From NYRSFM ->
  Duration of +Seconds' (32). `CutIsTheInterval` leaves command lines with `-d` out.
- The name of a piece has `From` in it (202), which the next tool takes for the
  second of its first record. Where no record was made in that second, cutting
  the piece again with `-f` and `-t` (31: 'From NYRSFM -> To NYRSFM') gives the
  records of an interval that is later by the difference: `RecutIsTheInterval`
  fails without its condition.
- The `struct tm` of `-f` and of `-t` (51, 65) is not initialised, and sscanf does
  not set `tm_isdst`: where there is summer time mktime may be an hour off.
- The cutter goes on when `fopen` fails, since `_tos_abort` (214) is empty, to an
  `fwrite` or `fclose` of NULL.
- A `realloc` that fails has had its block erased from the thread's statistics
  (threadstat.cpp:399) although the block is alive: it is missing from the report
  until it is moved or, with the address, inserted again. The tracker of
  `preload.cpp` (287) does the same. `InsertedIsReported` and `NoMissedLeak` name
  these blocks (`forgotten`).
- A source that is quiet for ten seconds has no file any more: its writer is not
  found (tos-recvDiagMemInfo.c:205) and all but an identifying record goes to
  `/dev/null` (271).
- A datagram kept in the reordering buffer is written under the address of the
  sender of the datagram that flushes it (527), because the expected number, the
  buffer and its flag are one for all sources (493-580). With the same pid on two
  devices it lands in the other's file, with another pid it has no file and goes
  to `/dev/null`; the tool's README.md:36 says that target address and
  program/PID are the boundary of a file. `recv_reorder` reaches both; its
  properties name the records concerned, `crossed`, and fail without that
  exception.
- A connection whose numbers come in disorder may have its end held back for
  ever, on Linux as on Windows: of the stream 1, 4, 2 the 4 is kept, the 2 leaves a
  small hole before it (tos-recvDiagMemInfo.cpp:650-654), and each pass at the end
  of the file finds the 2 late again (625-665).
- The checks that call `_tos_abort` stop nothing, because it is empty: a wait in
  vain of the TCP mode goes on with the buffer's old content, and the check
  against overrunning it (tos-recvDiagMemInfo.cpp:528) lets the copy happen.
- The hooked branch of `realloc` zeroes the head of a block that grew
  (preload.cpp:292), the other branch its new tail (280).
- 0 in the parameter file does not reset a filter (count.cpp:157), and a filter's
  bound is itself tracked; the comment at 120 says '0 不检测 >minSize'.

`CHECK_DEADLOCK FALSE` is said of `CountReport`, whose threads can wait for ever
as `report_self_lock` shows; of `Stator` and `ToolChain`, which end; of `RecvTcp`,
whose process is not followed once it is astray; and of `ThreadStat`, so that
a hook that waits for ever is reported as a violation of `HookReturns`.

### Assumptions of the runs

- The parameter thread flips the switch at any moment. `ExactAttribution` and
  `NoMissedLeak` are about the sessions that are `settled`: the switch-on found
  `sg_count_init` back at 0, and no hook past its test of it that has not set it,
  inserted or stopped yet. A session that is not settled may be cleared in
  the middle, by a late `sg_count_init = 0` or `sm_bStart = false`, or may show
  released blocks. One way there needs no haste of the switch: a thread stalls
  before `sg_count_init = 1` (preload.cpp:148), another inserts, the switch goes
  off, the block is freed through `stop()`, which leaves its entry, the first
  thread sets `sg_count_init`, and the next session runs no `start()`. The
  repository does not say what a session promises then. The first session is
  settled, and so is every one before which a release has ended the last.
- `IteratorsValid` and `PrintingContinues` are about one session. After a
  restart the printer's own malloc may run `start()` and clear the maps it
  iterates over, and `bStop`, once set, ends the printer for good.
- `tame` is the network the loop's comment describes (tos-recvDiagMemInfo.c:487):
  of each source one datagram comes early, by at most `EarlyMax`, and then the
  missing ones in order; the sources' streams mix in any way. `FilesInOrder` is
  about such a network while one source is heard (`Alone`): all sources share the
  expected number, so with two the buffer holds records back for numbers of the
  other. `EarlyMax` above `Hole` breaks the property: a datagram 50 to 99 ahead is
  kept, but written before the missing ones as soon as the first of them
  arrives.
- `MatchedRecords`: pages are released as pages, and page operations come in
  32-bit records, and `PageSize` is `Page`. A 64-bit record of a page allocation
  adds its order in bytes and its release takes off `4096 << order`, so the
  unsigned sum wraps; the same with pages of another size.
- `PrintMallocs` is FALSE: the application does not allocate while it holds
  stdout. If it does, it and the reporter, which prints under the mutex, can wait
  for each other for ever; TLC shows it in seconds.
- `NothingDropped` is about sources, any number of them, that are never quiet for
  ten seconds (`ticks = 0`) on a tame network; `OneSourcePerFile` about any
  network. Both except the records `crossed`, see the differences above.
- A process of `RecvTcp` is `astray` where the code loses the record boundaries:
  the buffer is overrun, half a head is read as a head, a gap is met while a part
  of a record is left, or an old chunk is gone over whose beginning a part has
  overwritten. What follows is not modelled, and the properties are about loops
  on track (`OnTrack`). `NothingLost` holds for connections that share the state
  too; `StandaloneStream` and `EndFlushes` are about a connection `Alone` in its
  process: in the Windows port a second connection may take the chunk that the
  first has kept for part of its own stream. `StandaloneStream` asks for increasing
  numbers, gaps or not, and for no pass over an old chunk, which writes it again;
  `EndFlushes` asks for neither and excepts, of streams in disorder, what is kept
  behind a small hole (`WaitsForHole`).
- A reset is one read that fails. Where `recv` keeps failing, as on Windows, the
  loop repeats that pass for ever; the model repeats it once, and once more for
  each wait in vain.
- The cutters' command lines are read as getopt gives them, bad dates, numbers
  and names included (`Refused`). `CutIsTheInterval` is about command lines
  without `-d`, wherever `-F` comes in them; `RecutIsTheInterval` besides about
  pieces whose first record was made in the second `From`. The function that
  reads the second back from a file's name is not in the repository: it is taken
  to find what strftime wrote there.
- `Plain` files of `ToolChain` have no second below that of their first record,
  which is not 0; the code's formula for an overflow (tos-cutDiagMemInfo.c:130)
  adds the base, and no line says at what the seconds wrap. `DescribedSizes` is
  about pieces that never release more than they allocated: otherwise the 32-bit
  sum wraps.
- `Stator`'s handler calls malloc, free, fopen, localtime and qsort_r
  (tos-cvntGProfFmt.c:614, 694-717), which are not safe there, also while the
  program itself is in calloc or free (264, 331, 463): they are taken to return.
  The handler that finds memory freed by the profile just printed, or one
  element more than its array, is a crash; what it prints then is not modelled.

### Fairness

`CountReport`, `ThreadStat` and `RecvTcp` have liveness properties. The first two
assume strong fairness of each thread's hook and of the printer: threads are scheduled, and a mutex that is released
again and again is given to each waiter, its holders leaving it after finitely
many steps (the printer sleeps a minute between rounds, the application's
sections end). `RecvTcp` assumes weak fairness of the loop of a connection at its
end: a thread or process that runs and never waits, since poll and recvfrom return
at once; the peers owe nothing. The iteration over the maps ends because they are finite.
The application owes no call, and the switch no flip; it only leaves stdout again.

## Proofs

All for any number of threads, addresses, sources and so on; what a theorem
assumes beyond the `ASSUME` of the constants' types is a hypothesis in its
statement, named below, and true of the constants of the run that checks the
same property.

**The tracker, always on** (`PreloadProofs`).

- `TypeCorrect`: `Spec => []TypeOK`; `NamesKept`: `Spec => []TrackedThreadNamed`.
  Neither has a hypothesis.
- `AlwaysOnExact`, `AlwaysOnOwnBlock`: if every file has all four fields, keeps
  the switch on and sets no filter (`AlwaysOn`), then `ExactAttribution` and
  `OwnMapMeansOwnBlock` are invariants.
- `ImplementsLedger`: under `AlwaysOn`, `Preload` implements `Ledger`.

`ExactAttribution` is not inductive: that the entry of a released block is gone
follows from where the releasing hook is and from no block ever having been left
out. The invariant `IInv` (`AlwaysOnInvariant`) adds `Unfiltered` (the filters are
0, in the file, in the locals and in force), `OneSession` (`stop` is never
reached, and what is in the maps was inserted after `start`), `OneHolder` (of the
application and the hooks exactly one has a block in its hands), `NotYetListed`
(a block whose malloc has not reached `insert`, or whose release is past
`remove`, has no entry) and `ExactEntries`. `OneHolder` is what lets a hook rely
on its block: no other hook works on it. The refinement goes action by action:
each maps to one operation of the ledger on its block, or to a stutter; `IInv`
excludes the steps that would not.

**The tracker in sessions** (`PreloadProofs`).

- `NoLeakMissed`: `NoMissedLeak` is an invariant for any files, filters and flips.
- `SessionsExact`: if every file that switches the tracker on is complete and has
  no filter (`PlainSessions`), `ExactAttribution` is one, for any flips.

Here the flags change under the hooks, in the middle of any of them. What holds
of a settled session starts with what `Settled` says at its switch-on:
`InsertsCovered`, for `NoLeakMissed`, that up to the first `stop()` what a hook
inserts goes to a session that has started and that no `start()` clears; for
`SessionsExact`, `SessionOrder` says where no hook can be while the session is on,
and `SessionExact` that from its `start()` on every entry is a block of its own
and none is there for a block in the hands of a hook. `StartPending` keeps, of every
session, settled or not, that while `sm_bStart` is set and `sg_count_init` is not
a hook is on its way to repair it: so a settled switch-on finds `sm_bStart` false,
and its first `start()` clears the maps. Without `settled` both properties are false
(see Assumptions).

**Reports** (`CountReportProofs`).

- `TypeCorrect`, `SmGivenBack` (`SmHeldOnlyInside`), `FileWaitsFree`
  (`LockOrder`), `OneWriter` (mutual exclusion under `s_fileMutex`), for any
  number of printers and flips, with `fopen` failing or not. The invariant
  `LockInv` computes both mutexes from the places of the threads' two frames, and
  restricts the pairs of places: a hook is entered only where the frame below
  calls malloc or free. `OneWriter` needs that `printMemSizeDetail` never reaches
  its second frame's file section while the first one is in its own: it waits for
  ever instead, as `report_self_lock` shows.
- `RemoveSparesIterators`: no step erases from the maps while a thread iterates,
  for any number of flips. `IteratorsStayValid`: with at most two flips of the
  switch, one session, nothing clears them either (`SessionInv`: before the
  switch goes off nobody is in `stop()`, and a report that allocates on its way to
  `start()` finds the tracker started, with nobody about to reset `sm_bStart`).

**Receiver** (`RecvProofs`).

- `ReceiverTypes`, `RecordsOutOnce` (`OutputOnce`), `FilesOfOneSource`: any
  network, any number of sources, any limits. `RInv`: a record sent is on its
  way, arrived or lost, and in one datagram at most (`NetOK`); what arrived and is
  not in the buffer in force was output once or dropped (`OutOK`); a
  writer's file holds records of its pid only, and writers of one file have one key
  (`Good`). `OwnersInvariant`, for `FilesOfOneSource`, says besides that a file has an
  owner, an address and a pid, and that every record in it of another source is
  `crossed`. Deliveries are a few
  passes of `OutputPacket` in turn; a lemma for each of its forms (in sequence,
  buffer, give up, fill the hole, late) says which records it outputs.
- `NothingIsDropped`: if the first record of a source identifies it
  (`FirstIdentifies`), `NothingDropped` is an invariant, for any number of sources.
  `KeptInv`: before a unit of time has passed every source heard has a writer, as
  its first datagram begins with record 1 (`Complete`: nothing is lost), which no
  expected number makes an early one.
- `FilesAreInOrder`: if what the tame network lets come early is buffered and
  waited for (`LimitsFit`: `EarlyMax <= Hole`, `EarlyMax < Window`), `FilesInOrder`
  is one. The code's limits are 50 and 100. `OrderInv`, of one source heard: all
  that arrived lies
  before the expected record or in the buffer, and the files end before it.

What `OutputPacket` does to any number of records is proved with `OutputKeeps`:
what one turn of the loop keeps, the loop keeps. That is induction over data, for
which the library's theorems (they take an operator as parameter) cannot be
used; `Induction` states it for sets: a set of numbers that has 0 and the
successor of each of its members is `Nat`, from the well-foundedness of finite
sets. From that it has that a loop of any length is defined (`LoopDefined`) and
what its turns keep (`LoopStays`), the turns being functions.

**Thread statistics** (`ThreadStatProofs`).

- `ThreadStatTypes`, `SizesAreLive` (`ReportedSizeIsLive`), `InsertedStaysReported`
  (`InsertedIsReported`), without hypothesis. `TInv`: a block is the application's
  or in the hands of one call (`BlockInv`); an entry is a live block of its thread,
  and a call that has removed its block, or not inserted it yet, finds no
  entry of it; while `s_init` is unset the tables are empty (`EntryInv`). So
  `zl_del` subtracts what `zl_insert` added, from the thread it added it to, and
  the size of a thread is the sum of its table (`SumInv`). `HistoryInv`: a block
  that a failed realloc left without entry is in no hook that would insert it. The
  sum is the community
  modules' `SumFunction`; what it does when an entry comes or goes is proved in
  `Induction` from its definition.

**Receiver, TCP** (`RecvTcpProofs`), on both ports.

- `SpecTypeOK`: in particular, what a buffer holds of a cut record is what was
  read of it. `SpecNothingLost`: `NothingLost` is an invariant for any streams,
  cuts, gaps and connections, of one process or of several.
- `SpecStandaloneStream`: if every stream starts with a record that identifies
  its source, `StandaloneStream` is one; the property itself asks for increasing
  numbers and no pass over an old chunk.

Both rest on `IInv`: a chunk in a buffer, or kept, is a run of records of one
stream that were read (`Fits`), what is left of it is its last, cut record
(`Loops`), and on a loop that is on track each record read is output or kept,
as often as it should be (`Accounted`, which makes `NothingLost` inductive: a
record that is kept was not output yet). What a pass outputs is that of the
chunks it goes over, by the same lemma on loops as for the UDP loop.
`Straight` adds, for a connection alone in its process, that all that came
before what is kept is in the first file, in order, that its writer stays in use,
and that only the last chunk read can be kept.

**File tools** (`ToolChainProofs`), for files of any length and any options, without
hypotheses; the properties have their own (`Plain` files, no `-d`, a record in the
second `From`, sums below `Word32`).

- `SpecTypeOK`, `SpecCutIsTheInterval`, `SpecRecutIsTheInterval`,
  `SpecDescribedAsCut`, `SpecDescribedSizes`, from `SpecIInv`.

`IInv` says of each cutter what its options are and mean (`Control`, with `Got`:
the last `-f` and `-t` read so far are `From` and `To`) and that the
piece is, in order, the records so far that the interval takes (`Work`); of the
describer that its times span, and its sizes weigh, the records so far
(`Spanned`, `Weighed`); and that the tools run in turn, each on what the one
before has left (`InOrder`). Both cutters are instances of one module: its lemmas
are proved once, with its state as parameters. That an interval of an interval
is one comes from the ranks of indices in a set: `Chosen` composes.

**Converter** (`StatorProofs`), for any number of records per file, addresses and
call stacks.

- `SpecTypeOK`, `SpecLinesAddUp`: any files, any records, any cut of the pipe,
  a signal anywhere. No hypothesis.
- `SpecEveryFileCounted`: for one file. For two it is false, as `stator_two_files`
  shows.
- `SpecInUseIsLive`: if the records are `Matched`. `SpecSignalPrintsFirstPass`,
  `SpecPeakIsTheProfile`: if besides there is one file. `Matched` is
  `MatchedRecords` for any set of records: pages are released as pages and
  recorded in 32-bit records, and the converter's pages are as large as those the
  release takes off; without it the sums are wrong (see Assumptions).
  `PeakIsTheProfile` itself asks that something is in use at some time and
  that what is in use fits 64 bits.

The invariant `IInv` says that what is unread, in the buffer and processed is the
file (`Places`), and that a statistician's books are `Sound` (`Books`): the cache
has as many blocks of each call stack as its element has allocations less
releases, and the heading is what the elements add up to, modulo the word. This
holds through releases without a block, blocks allocated twice at an address,
and page sizes that do not match.

That the profile is the reference's is `Holds`: the cache is the set of the
allocations in use by the records alone (`Entries` of `Live`). The reference counts
as parentheses are counted (`Balance`), the code takes the newest block of the
address: `LiveAllocated` and `LiveReleased` say what a record adds to, or
takes from, `Live`, and that what is released is the newest (`LaterLive`). For the
peak, use only falls with a release (`UseFalls`), so the greatest sum is met
where an allocation ends (`Peaked`); the second pass follows the file up to the
first place of the peak and then stays there (`Following`, `Follows`): no earlier sum
equals it, and every later record finds it reached.

**Only model-checked.** Liveness (`MallocReturns`, `PrintingContinues`, `HookReturns`,
`EndFlushes`) is out of the prover's reach, like ENABLED. Every invariant of a run
that passes is proved, under the hypotheses named. The inductive invariants were
checked by TLC, on the runs' instances, before they were proved.

## Not modelled

The text of the reports and names of files and threads; the contents of blocks
(so not what `calloc` and `realloc` zero); `calloc`'s multiplication; the
constructor; stdio's own locks. Two threads of the Windows port inside one pass
of the loop, which is a data race; what a receiver does after it has lost the
record boundaries; its compressor pipe and its output to stdout. Damaged records,
the CSV output and the sorting of the converter: a bad `Magic` breaks out of its
loop (tos-cvntGProfFmt.c:834-839). Inputs and outputs of the converter that do not
open: `_tos_abort` is empty and the calls after it work on -1 or NULL (694-718,
923-927, 963-967). What reading a freed node does besides missing the name
(count.h:165). The reading loops of the cutter
and the describer, and the functions behind the hooks of `wrap.cpp`: the
repository declares them and does not define them. What `PROJECT.json` lists as
`not_modelled` has its reason there.

## Plan

Done: all the modules, and proofs of every invariant the passing runs check. Left:
the converter's damaged records and its CSV output; the reading loops of the
cutter and the describer.
