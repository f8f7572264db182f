# SBMA verification

TLA+ models of the SBMA library (Storage Backed Memory Allocation), model-checked
with TLC; the central properties are also proved with TLAPS. Paths below are
relative to the repository (`src/...` is the library, `old/...` its predecessors).

SBMA is a user-space virtual memory manager for cooperating processes. Every
allocation is backed by a file. Pages are brought into memory on first access (a
SIGSEGV handler), charged against a budget that all processes on the machine
share, and written back and released when another process needs the budget (a
SIGIPC handler) or when the application asks. On top sit a small-object allocator
(klmalloc) and hooks that replace functions of libc.

## Parts of the system

| Part | Source | What it does | Model |
|---|---|---|---|
| ipc | `src/ipc`, `include/ipc.h` | shared segment `s_mem`, `c_mem[]`, `d_mem[]`, `pid[]`, `flags[]`; semaphores `inter_mtx` and `done`; admit and release pages, choose a victim, signal it | `Ipc`, `MadmitScan` |
| start and end | `ipc/init.c`, `ipc/destroy.c`, `vmm/init.c`, `vmm/destroy.c`, `api/init.c`, `api/destroy.c` | open or create semaphores and segment, take an id; unlink | `Startup` |
| vmm handlers | `vmm/init.c` | `vmm_sigsegv` (page faults), `vmm_sigipc` (give everything back) | `Ipc`, `Pages`, `MmuThreads` |
| vmm swapping | `vmm/swap_i.c`, `swap_o.c`, `swap_x.c` | move pages between memory and file, discard | `Pages` |
| api, pages | `api/mtouch.c`, `mevict.c`, `mclear.c` | touch, evict, clear ranges or everything | `Pages`, `Ipc`, `PageRange` |
| api, allocations | `api/malloc.c`, `free.c`, `realloc.c`, `calloc.c` | create, resize, destroy | `Pages`, `Ipc`, `MmuThreads` |
| api, check | `api/mcheck.c` | compares flags, per-allocation counters and shared counters | `Pages!sbma_mcheck`; in `Ipc` the property `McheckConsistent` |
| options | `api/parse_optstr.c`, `mallopt.c` | option string, options at run time | `OptParse`; the options are state of `Pages` |
| mmu, lock | `src/mmu`, `src/lock` | the list of allocations; recursive locks of the threaded build | `MmuThreads` |
| klmalloc | `klmalloc/klmalloc.c` | bricks and chunks inside large blocks | `Klmalloc`, `KlBins` |
| hooks | `api/hooks.c` | interposes libc calls, touches their buffers, forwards | `Hooks` |
| sbmalloc | `old/sbmalloc.c` | the predecessor of the library, threaded | `SbMalloc` |
| asio | `old/asio` | thread pool, ring buffer, readers-writer lock, each with its test program | `Asio`, `PcQueue`, `RwLock` |

How they interact: an access faults into `vmm_sigsegv`, which calls `sbma_mtouch`;
that probes how many pages must be charged, obtains them with `ipc_madmit` and
swaps them in. `ipc_madmit` holds `inter_mtx`. While the budget is too small it
sends SIGIPC to a process and waits on `done`. That process, wherever it is,
runs `vmm_sigipc`: it evicts all its allocations, returns the pages with
`ipc_atomic_dec` *without* `inter_mtx`, and posts `done`. Everything hard in
SBMA comes from this: a handler that changes the allocation table and the shared
counters between any two instructions of a library call.

## The modules

Operators that a comment calls a mutant are faulty variants of the definition
after them; each property has one that violates it, which shows that the property
depends on the code.

`Ipc` models N processes. Each has a program counter `pc` for the library call it
is in, and `hpc` for its SIGIPC handler, which runs on top of the call; while
`hpc` is not `"none"` the call stands still. The allocation table is reduced to
one allocation per process: `alloc`, the set of `charged` pages, the set of
`dirty` pages (the flags) and `d_pages` (the counter, which `vmm_sigsegv` updates
later than the flag). Each update of `s_mem` is a load and a store. The actions
follow the code between two points where something another process or handler
can see happens:

* `ipc_madmit`: `MadmitBeg`, `MadmitRead`, then the loop: `MadmitSignal`,
  `MadmitWoken`, `MadmitKillFails` (the error exit), and out of the loop
  `AtomicIncLoad`, `AtomicIncStore`, `MadmitEnd`; a turn of the loop that finds
  nobody changes nothing, so `MadmitRetry` is a state and not an action;
* `ipc_mevict`: `MevictBeg`, `AtomicDecLock`, `AtomicDecLoad` or
  `AtomicDecAssert`, `AtomicDecStore`, `MevictEnd`;
* `vmm_sigipc`: `SigipcDeliver`, `SigipcCheck`, `SigipcEvict` or
  `SigipcEvictAssert`, `SigipcDecLock`, `SigipcDecLoad` or `SigipcDecAssert`,
  `SigipcDecStore`, `SigipcPost` or `SigipcPostInterrupts`;
* the calls: a probe that reads the table (`MtouchProbe`, `MevictProbe`,
  `MclearProbe`, `FreeProbe`, `sbma_malloc`) and later a step that changes it
  (`SwapI`, `SwapO`, `SwapX`, `Unlink`, `Insert`, `MallocFails`);
* a write fault: `WriteFault`, `WriteFaultCount`, `MdirtyLock`, `ipc_mdirty`;
* `ipc_sigon`, `ipc_sigoff`, `ipc_destroy`.

A failed ASSERT ends the process (`Abort`): `pc` becomes `"gone"`, `fault` says
why, the private state vanishes, and the shared segment and semaphores stay.

`MadmitScan` is the `for` loop in `ipc_madmit` that picks the victim, one
iteration per step, with other processes changing `d_mem` meanwhile. `Ipc` uses
its result (`Victims`): `ChoiceCorrect` is what justifies that abstraction.
`Victims` allows every process that covers the shortage, so it holds with and
without the option `admitd`. (The comment at `ipc/madmit.c:87` says that a candidate
has "greater" resident memory than is needed, the code says at least as much;
the model follows the code.)

`Startup` models the processes of a run joining and leaving. A name leads to a
numbered object; an unlinked object lives on for those who have it open. The
steps are those of `ipc_init` (`OpenSem` for each semaphore, `ShmCreate` or
`ShmExists` and `ShmOpen`, `Truncate`, `WriteMax`, `SidWait`, `LoadId`, `StoreId`,
`SidPost`, `Join`) and of `ipc_destroy` (`SbmaDestroy`, `ShmUnlink`, `CloseSem`).
Processes start in any order and race for the segment. `Together` says whether they
leave once all have joined and start again once all have left; `Kill` ends a
process anywhere.

`Pages` models the pages of one allocation of one process: per page the flag bits
of `enum mmu_status_code` (with the polarity of the code: `RSDNT` set means *not*
resident), the mprotect state, the contents in memory and in the file; per
allocation `n_pages`, `l_pages`, `c_pages`, `d_pages`; and the process's `c_mem`
and `d_mem`. Every library call is one action; `sbma_mevictall` is also what
SIGIPC does between two calls. The options (`lzyrd`, `aggch`, `ghost`, `rsdnt`,
`merge`) and the calls an application uses are in the variable `opts`, chosen
in `Init` from `Configs` and changed by `sbma_mallopt`. `MCPages` names the
combinations that the runs use.

`AppMemory` is the abstract specification of an allocation: it has the contents
the application last wrote, zeros at the start, and unspecified data after
`sbma_mclear` and in pages gained by `sbma_realloc`. `Pages!Implements` says that
`Pages` implements it, with the contents of a page taken from memory when it is
resident, from the file when `ZFILL` is set, and zero otherwise.

`PageRange` is the arithmetic from a byte range to pages, with `size_t`
wrapping round at `SizeT`. `OptParse` is `sbma_parse_optstr` over the sequence of
the string's words: the macro toggles the bits of a word in a mask (`Toggled`), a
word whose bits are off afterwards was given before.

`MmuThreads` has the threads of one process in the build with `USE_THREAD`. A call
is the list of the lock operations and list steps still to do, `Get` and `Let`
execute them on recursive locks, and `Search`, `Walk`, `WalkOn`, `mmu_insert_ate`,
`mmu_invalidate_ate` and `Munmap` work on the links. Every thread makes any of the
`Calls` at any time; only an allocation that a call of another thread is about is
not freed, which the notes in `mmu/insert_ate.c` leave to the application. Walks
over all entries (`sbma_mevictall`, `sbma_mtouchall`) hold `vmm.lock` and not
`mmu.lock`, so that an entry may be freed under them. What follows is undefined:
`caught` records it and the behaviour ends there. The SIGIPC handler makes the walk
of `sbma_mevictall` and is modelled as that call of some thread; that it may run
inside another call of the same thread is not.

`Hooks` treats a call of a hooked function in the same way: allocation hooks with
`HOOK_INIT`, `dlsym` (which itself calls `calloc`), `internal_calloc` and the choice
between libc and klmalloc; file hooks as what is done to the pages of the buffer
before the kernel reads or writes it. Threads share buffers, and a SIGIPC takes all
pages at any time. `bare` holds the pages that a call hands to the kernel though its
hook does not prepare them for it (`fwrite` touches the first element only, `stat`
does not make its result writable), or though they were evicted after the hook had.
Whether libc's function was looked up by an earlier call is left open. `Usage`
switches on what the passing run leaves out: pointers kept across `SBMA_init` and a
second thread during the first look-up.

`KlBins` holds the size arithmetic of klmalloc with the source's own constants and
tables; `Klmalloc` uses it on blocks of 152 bytes instead of 262112. The state is
a record `m` with, per block, its bricks or its chunks with header and footer, the
bins, the lists of brick blocks, the stack of undesignated blocks and
`total`. Every call runs under one lock and is one action. `AppHeap` is the
abstract specification: live objects are disjoint ranges.

`SbMalloc` models threads calling `old/sbmalloc.c`, the fault handler included, at
the granularity of its locks. A swap-out is two steps, since its pages stay
accessible while they are written. `SB_mmap` may fail: its exit unmaps
`m_pages*ld_pages` pages where it had mapped `m_pages+ld_pages` (`sbmalloc.c:856`). With
one page of metadata that leaves pages mapped (`left`). With more, which an allocation
has from about 3900 pages on, it can unmap memory behind its own, and if pages of
another allocation were there (`torn`), nothing more is claimed. `Asio` models the thread pool and the program
that drives it, with condition variables as sets of waiters, timeouts, spurious
wake-ups, cancellation and a failure of any call of `asio_init`; `BoundedFifo` is
what its queue promises. `PcQueue` and `RwLock` model the two other programs.

`MCAlgorithms`, `MCProcess` and `MCOldAsio` put modules that share no state into
one run; a variable says which one a behaviour is about.

## Runs

| Run | Checks | Bounds, distinct states |
|---|---|---|
| `IpcTwo` | `Conservation`, `Handshake`, `CopiesCurrent`, `StillEligible`, `NoLeak` | 2 processes, 2 pages and 1 page of metadata each, budget 3; 2.6 million |
| `IpcLive` | `Woken`, `EvictionEnds` | 2 processes, 1 page, budget 1, fairness |
| `PagesCore` | `Mcheck`, `NoAssert`, `Protected`, `Implements` | 3 pages, budget 3, two contents, lists of 2 ranges, lazy and eager options; 93 thousand |
| `PagesCalls` | `Protected`, `Implements` | 2 pages, budget 4, shrinking, `sbma_mclearall`, aggressive charging; 23 thousand |
| `Algorithms` | `ChoiceCorrect`, `LeastDirty`, `OptMeaning`, `TouchExact`, `ClearInside`, `BinsFit` | scan: 3 processes, every `c_mem`, `d_mem` up to 2, every flag; 3 option words; every range of 3 pages of 4 bytes; every chunk size of a real block (32 to 262112); 1.4 million |
| `Startup` | `RunSound`, `AllOrNone`, `EveryoneJoins` | 3 processes, 2 runs one after the other; 34 thousand |
| `Process` | `LookupSound`, `CircleCause`, `RightAllocator`, `KernelServed` | 2 threads, 3 allocations, all calls; 2 callers, 2 buffer pages, 2 pointers; 1.1 million |
| `Klmalloc` | `BlocksSound`, `Returned`, `ImplementsHeap` | 3 blocks, 3 live objects, sizes 0, 31, 32, 136, 144, 160, 176; 36 thousand |
| `SbMalloc` | `Preserved`, `FaultsHandled`, `Counted`, `NoCircle` | 2 threads, 2 allocations, 2 pages, 3 pages of metadata; 1.9 million |
| `OldAsio` | `PoolSafe`, `InOrder`, `Exclusion`, `ImplementsFifo`, `EachFinishes` | 3 threads, queue of 2, 5 works, 1 timeout; ring of 3; 3 readers, 1 writer; fairness; 51 thousand |
| `IpcRetry` | `RetryEnds`, violated | see the next section |
| `MmuWalk` | `NoLockCircle`, violated | see the next section |

Some of these are conjunctions of named parts, type invariants included
(`BlocksSound`, `Returned`, `RunSound`, `LookupSound`, `RightAllocator`, `FaultsHandled`,
`Counted`, `PoolSafe`).

What they show.

*Exchange.* `Conservation`: the budget left and what processes are charged
for always add up to `max_mem`, though three code paths update `s_mem` and one of
them holds no lock. `Handshake`: that path is safe because the handler runs only
while the lock's holder waits for it. `CopiesCurrent`: hence no
read-modify-write loses an update, and `ipc_madmit` decides on the real `s_mem`.
`StillEligible`: the handler's test for eligibility can never fail.
`NoLeak`: whatever interrupts a call, a process at rest is never charged for more
than its table shows. `Woken`, `EvictionEnds`: no lost wake-up, and
`ipc_mevict` leaves the section.

*Pages.* `Mcheck`, `NoAssert`: after each call the
counters match the flags and no ASSERT has failed. `Protected`: an
access let through by mprotect finds its data, and a page is writable exactly
when it is counted dirty. `Implements`: no data is lost.

*Start and end.* With a common end, the processes of a run that join share one set
of semaphores and one segment whose budget is set or about to be, a SIGIPC for an id
reaches its owner, and the names are gone when all have left (`RunSound`). A process
may meet the segment before its creator has sized it and die of SIGBUS; it does so
inside the `sid` section, so it is the only one, and then nobody of the run has an id
or gets one (`AllOrNone`): no run goes on with a member missing. Where nobody dies,
everyone who starts joins.

*Process.* The list keeps its links in both directions (`ListIntact`), and no lookup
reads memory that was unmapped or misses an entry that is there throughout, up to a
free under a walk. Threads do wait for each other's locks in a circle (`MmuWalk`);
`CircleCause` says that nothing leads there but `sbma_mtouch_atomic`, and a walk that
meets a read fault. Pointers go back to the allocator they came from, dlsym's
included, and the temporary `calloc` serves dlsym only. `KernelServed`: a system call
fails with EFAULT on `bare` pages only. Whatever was evicted before the hook, and
whatever the hooks of other threads do to the same pages, the hook makes up for.

*klmalloc.* Chunks tile their blocks and no two free ones adjoin, every free chunk
is in the bin its size says, every brick block with room is in its list, the
total is the sum of the blocks, no block is kept after `M_ENABLED_OFF`; a request that
fails an assertion ends the process, and the run does not claim that none does. The
bins agree with the table `bin2size`, which `KL_BIN2SIZE` reproduces in full.

*Predecessors.* `SbMalloc`: contents survive eviction, flags agree with
protections, and when no call is under way the statistics are exact and what was
charged is what is loaded, the charges of failed `SB_mmap` calls aside (with lazy
reads it is never less than what is loaded), until a failing `SB_mmap` unmaps pages of
another allocation. `NoCircle` excepts a thread stuck in
`SB_mtouchall`.
`OldAsio`: a work is in one place at a time, threads are cancelled only while idle,
a failed `asio_init` releases what it acquired, and each work finishes.

Bounds. Two processes are enough for every role to occur (sender, victim,
third-party waiting for `inter_mtx` being the victim itself); the theorems
remove the bound for the safety properties. A budget of 3
lets both hold an allocation and compete for the last page; a budget smaller than
one allocation (`IpcRetry`) makes the retry loop happen. Three
pages are the least for a range with a page on each side, and for a run of pages
with a gap. `PagesCalls` has two pages and a larger budget because the
counters drift apart there, which multiplies the states. `MaxXfer`
is the size of the allocation in the passing runs: every write(2) is complete.
Three processes start so that two race with the creator of the segment; two objects
per name give a second run. Three allocations are the least with an entry that has both
neighbours. A klmalloc block has room for 152 bytes: three chunks of the smallest
request (48 bytes with header and footer, so a freed one can have a free chunk on
both sides) or several bricks. The sizes include 0, the largest brick, the smallest
chunk, the largest chunk, one that fails an assertion (144, see below) and two for
blocks of their own, so that `realloc` enlarges such a block. In `Asio` there are as many works
as queue and threads can hold; one more would block `main` in `asio_addw` for good.

`MaxDrift` bounds in `SbMalloc` how far the charges may exceed the loaded pages when
a call begins. With 0 no further call begins after a page was charged twice by a
lazy read, nor while another thread has evicted pages and not discharged them;
calls already under way go on. With `MaxDrift = 2` the same properties hold too
(4,458,531 distinct states); the run keeps 0 for its running time. `MaxFail` bounds
the pages that failing calls of `SB_mmap` were charged, and them together with the
pages mapped when `SB_mmap` is called: with 5, a call for one page fails beside
another allocation and leaves a page mapped, one page can be mapped after that, and a
call for two pages fails and unmaps more than it had mapped.

Deadlock is not checked: an application may stop calling, a program ends, and a
process may have aborted. `CircleCause`, `NoCircle` and the liveness properties
say what must not block.

Fairness. `FairSpec` of `Ipc` assumes weak fairness of each process's library steps
and of its handler: the operating system schedules runnable processes and delivers
signals. The application's decisions (`AppStep`) carry no fairness. No strong
fairness of `inter_mtx` is assumed, so nothing is claimed about a process that
waits to enter the critical section. `StartSpec` assumes weak fairness of each
process inside `sbma_init` and `sbma_destroy`. That suffices although processes
wait for `sid`: each passes it a bounded number of times. `MCSpec` of `OldAsio` assumes
that each thread runs and gets a mutex it keeps finding free, and that in `rw.c`
only finitely many waits end without a signal.

## Disagreements between the code and what it says

`IpcRetry` finds `RetryEnds` violated: with no candidate, `ipc_madmit` spins inside
the critical section on a local `s_mem` that it never reads again, although the
comment at `ipc/madmit.c:110` speaks of a "retry loop in case a stale value was" read.

`MmuWalk` finds `NoLockCircle` violated: `sbma_mevictall_int` takes `vmm.lock` and then
every entry's lock (`api/mevict.c:170`), a read fault calls `sbma_mtouch`, which takes
`vmm.lock` for the statistics, with its entry locked (`vmm/init.c:85`). Each thread then
waits for the other, although `vmm/init.c:48` and `:128` call the handlers "MT-Safe".

Other configurations in this directory record further disagreements met while
modelling. They are not part of the regular runs; each is violated within seconds
by `tlc -config X.cfg` on the module of its name (`Pages...` on `MCPages`, `Hooks...`
on `Hooks`, `Kl...` on `Klmalloc`, `Sb...` on `SbMalloc`, `Start...` on `Startup`,
`RangeZero` on `MCAlgorithms`).

| Configuration | Property | What happens |
|---|---|---|
| `IpcEintr` | `WaitUninterrupted` | the SIGIPC handler is installed without SA_RESTART; a process that waits for `inter_mtx` when SIGIPC arrives gets EINTR, and `ASSERT(0 == _ret)` aborts it |
| `IpcMcheck` | `McheckConsistent` | `sbma_mtouch` probes, a SIGIPC evicts the allocation, and the swap-in charges pages that were never admitted |
| `IpcSelfLock` | `HandlerNotSelfLocked` | SIGIPC during `ipc_mdirty`: the handler waits for the `intra_mtx` its own process holds |
| `IpcRelease` | `ReleaseCovered` | `sbma_mevict` returns pages the handler has returned since the probe: ASSERT in `ipc_atomic_dec` |
| `IpcSection` | `SectionReleased` | `kill` fails: `ipc_madmit` returns -1 holding `inter_mtx` |
| `PagesShrink` | `Mcheck` | `sbma_realloc` to a smaller size computes the amounts to return from counters it has lowered already |
| `PagesMerge` | `Protected` | with option `merge`, which is in the default set, the loop that restores protections starts a readable run at its end (`i`) instead of its start (`ifirst`) |
| `PagesShortWrite` | `WrittenBack` | `len -= len` after a short write(2): the rest is not written |
| `PagesAggch` | `NothingCharged` | `vmm_swap_o` returns early when nothing is resident, though with `aggch` pages are charged |
| `PagesStale` | `DirtyResident` | the flags of dropped pages come back when the allocation grows |
| `RangeZero` | `TouchWithin` | a range of length 0 at the start of an allocation: `addr+len-1` wraps round |
| `StartRace` | `StartsSafely` | a process uses the segment before its creator has sized it: SIGBUS; `ipc/init.c:44` says "MP-Safe" |
| `StartKill` | `AllOrNone` | after a kill the names stay and the next run continues the id counter: the last to join fails an ASSERT while the others are in |
| `HooksThreads` | `InternalOnlyFirst` | two threads in `HOOK_INIT`: `internal_calloc` is called again after `calloc` was found, or gives the same memory twice; `hooks.c:83` says that it "will never be called again" |
| `KlFooter` | `ActiveFooter` | `realloc` in place accepts sizes up to the chunk's, so the object covers the footer that tells that the chunk is in use |
| `KlNull` | `NoAbort` | out of memory ends in an assertion (`klmalloc.c:1730`, `:1853`); `:51` says that "a null pointer is returned" |
| `SbLost` | `Preserved` | two threads on one page: a write between the page's write-out and its protection is lost |

These have no file of their own; the last column says how to see them.

| Module | Property | What happens | From |
|---|---|---|---|
| `Ipc` | `SigoffRespected` | `ipc_is_eligible` ORs its conditions, so `sbma_sigoff` does not protect a process with resident memory | `IpcRelease.cfg` |
| `Ipc` | `DirtyCounted` | SIGIPC between the dirty flag and its counters: ASSERT in `vmm_swap_o` | `IpcRelease.cfg` |
| `MCPages` | `MdirtyCovered` | `sbma_mclearall` lowers `d_mem` twice: ASSERT in `ipc_mdirty` | `PagesStale.cfg`, `Configs <- MclearallConfigs` |
| `MCPages` | `AtomicCovered` | a second range of an uncharged allocation with `aggch` reaches `ASSERT(0)` | `PagesAggch.cfg`, 3 pages, `MaxMem` 3, `MaxXfer` 3 |
| `MCPages` | `AllTouched` | `sbma_mtouch_atomic` given two ranges that begin at the same address keeps the one passed last, even when it is shorter | `PagesCore.cfg`, `Configs <- LazyConfigs` |
| `MCPages` | `NoDoubleCount` | a third range that overlaps the second is admitted twice | the same with 4 pages, `MaxMem` 4, `MaxXfer` 4, `MaxRanges` 3 |
| `MCAlgorithms` | `AggchAlone` | "VMM_AGGCH is only valid without VMM_LZYRD" stands over a test that refuses `aggch` without `lzyrd` and accepts both | `Algorithms.cfg` |
| `MCAlgorithms` | `DefaultDecides` | `sbma.h:175` spells `default` out with `admitr`, but the mask at `parse_optstr.c:49` lacks `VMM_ADMITD`: `default,admitd` is accepted and turns it on, `default,admitr` is accepted though given twice | `Algorithms.cfg` |
| `Startup` | `OneRun` | one leaves while others start, and those open new semaphores | `StartRace.cfg`, `Together = FALSE`, `MaxObjects = 2` |
| `MCProcess` | `NoLockCircle` | `sbma_mtouch_atomic` looks its second range up, which waits for `mmu.lock`, with the first entry locked | `MmuWalk.cfg`, `Calls = {"atomic", "malloc"}` |
| `MCProcess` | `FreesApart` | `sbma_mevictall` walks the list without `mmu.lock` while `sbma_free` removes and unmaps the entry it stands on | `MmuWalk.cfg`, `Calls = {"mevictall", "malloc", "free"}` |
| `Hooks` | `Matched` | `realloc` has no test for memory of `internal_calloc`, `free` has | `HooksThreads.cfg` |
| `Hooks` | `Matched` | a pointer kept across `SBMA_init` or `SBMA_destroy` goes to the other allocator | `Usage = {"kept"}` |
| `Hooks` | `BufferServed` | the kernel meets a page that is not accessible: `fwrite` touches `size` bytes, not `size*num`; `stat` touches its result and does not make it writable; a SIGIPC or an `msync` of another thread evicts the buffer after the touch. A comment in `read` (`hooks.c:615`) calls such an eviction an error | `HooksThreads.cfg`, `Usage = {}` |
| `Klmalloc` | `NoAbort` | a size below `FIXED_MAX_SIZE` whose chunk is larger than that (137 to 152 here) gets a block of its own, and `assert(size > FIXED_MAX_SIZE)` fails (`:1845`) | `Klmalloc.cfg`, `Sizes = {32, 144}` |
| `Klmalloc` | `Tiled` | a small request that gets no block for bricks is served with a chunk below `CHUNK_MIN_SIZE`, too small for a free chunk's links | `Klmalloc.cfg`, `Sizes = {8, 32}` or `{0, 32}`, `SysFails = TRUE` |
| `SbMalloc` | `Undone` | a failing `SB_mmap` leaves pages mapped or unmaps pages that are not its own, see above; it also leaves its file | `SbLost.cfg`, `SharePages = FALSE` |
| `SbMalloc` | `NoAbort` | two threads fault on one page: the second fault fails an assertion | `SbLost.cfg` |
| `SbMalloc` | `MtouchallReturns` | `SB_mtouchall` calls `SB_mtouch`, which takes the lock it holds | `SbLost.cfg`, `SharePages = FALSE`, `FairSpec` |
| `SbMalloc` | `Initialised` | `init` is set before the handler is installed and is read without the lock | `SbLost.cfg`, `SharePages = FALSE`, `EarlyCalls = TRUE` |
| `Asio` | `TimedWaitReturns` | a wait that timed out asks for the mutex it holds already (`asio.c:110`) | `OldAsio.cfg` |
| `Asio` | `NoThreadLeft` | `asio_init` that fails can leave a thread running (`asio.c:284`) | `OldAsio.cfg` |

Seen in the code and left at that: two writers of `rw.c` may wait for ever because
`writeunlock` wakes readers only, `KL_realloc(ptr, 0)` does not free, and `KL_free`
and `KL_realloc` do not accept NULL.

The passing properties are stated so that these do not hide anything else: after
a failed ASSERT nothing is claimed about the process that aborted, and `Woken`
excepts an aborted process and `SelfLocked`. The calls that break `Mcheck` are
left out of `PagesCore` (`Configs`), and `PagesCalls` checks that, counters
aside, they keep data and protections. `CircleCause`, `KernelServed`, `AllOrNone` and
`OptMeaning` are stated so that they hold with the disagreement in the model.
`Usage`, `SharePages`, `EarlyCalls`, `SysFails`, `Footers` and `Together` leave the
other cases out of the passing runs and into the configurations above, and so does
the absence of `Kill`.

## Proofs

All of these hold for every value of the constants that satisfies the assumptions
named in the modules, not only for the bounds of the runs.

`IpcProofs`, for every number of processes, every finite set of pages, every budget
and either setting of `Rsdnt` (`ConstantsAssumption`):

* `HandshakeHolds`: `Spec => []Handshake`
* `CopiesAreCurrent`: `Spec => []CopiesCurrent`
* `BudgetConserved`: `Spec => []Conservation`
* `EligibilityKept`: `Spec => []StillEligible`
* `TypesHold`: `Spec => []TypeOK`
* `NothingLeaks`: `Spec => []NoLeak`

in layers, each inductive relative to the ones before it:

1. `ControlInv`: the types of the control variables, `Handshake`, and that a
   process whose handler runs has no second SIGIPC waiting. Without the last
   conjunct a delivery could start a second handler.
2. `TableInv`: `d_pages` is the number of dirty flags, one less in the window of
   `vmm_sigsegv`. It makes the subtractions of the table non-negative.
3. `ValueInv`: the counters are natural numbers, `CopiesCurrent`, and what
   the ASSERTs of `ipc_atomic_dec` established still holds at the stores
   (`AssertsHold`). It uses `Handshake`: whoever stores to `s_mem` is
   alone or acts for the process that waits.
4. `Conservation`: by `Transfer`, a step that moves k pages between `s_mem` and one
   `c_mem[p]` shifts the partial sums from p on by k. `Conservation` is stated with
   a function of partial sums instead of a recursive sum so that no induction is
   needed.
5. `ChosenInv`: a process with a SIGIPC under way that its handler has not examined
   has `c_mem > 0`. Its own `ipc_mevict` would need `inter_mtx`.
6. `BooksInv`: a process is charged for no more than its table holds, its handler has
   evicted and not yet given back, and its call was admitted for or is giving back;
   the same for dirty pages (`Covered`). `NoLeak` is the case of a process between two
   calls. What a call read off the table before a SIGIPC emptied it must still be
   enough when it is used, which is `ProbeHolds`; that a handler's eviction keeps it is
   `BooksVanish`. Each kind of step has two lemmas: what it does to the books of its own
   process (`FlowBooks`, `HandlerBooks`, `AppBooks`), and that it leaves those of the
   others alone (`FlowElsewhere`, `HandlerElsewhere`, `AppElsewhere`).

`AlgorithmsProofs`, for every number of processes: `ScanTyping`, `ScanChoice` and
`ScanLeastDirty` from the loop invariant `ScanInv` (the current `ii` is the best of
the processes passed) and `DirtyInv` (the same for dirty pages while `d_mem` stands
still).

`StartupPagesProofs` is about two parts that share no state. Of `Pages`, for an
allocation of any size: `PagesTypeCorrect`, `McheckHolds`,
`NoAssertFails` and `ProtectionHolds` under `Core`, and `DataSurvives`
(`Spec => Implements`, the refinement of `AppMemory`) under `Core` and `WholeWrites`.
`Core` excludes what `PagesShrink`, `PagesMerge` and the like refute: the
options `aggch` and `merge`, shrinking, `sbma_mclearall`, and lists of two or more
ranges. `WholeWrites` says that no write(2) is short. The inductive invariant
`PagesInv` adds to the properties that charged and resident pages are the same, that
each counter is the cardinality of its set of flags, and that pages beyond the last
have none; the lemmas `SwapIFields`, `SwapOFields` and `SwapXFields` say what a swap
does to each field and are used by every action. `DataInv` adds `Backed`: what the
library may drop from memory is in the file or is zero.

Also in `AlgorithmsProofs`: `OptCorrect`, for an option string of any length, from
`OptInv` (after each word the mask is the union of the words' masks), and
`TouchesExactly`, `TouchesWithin` and `ClearsInside`, for every page size, number of
pages and range (a touch needs a nonempty range, see `RangeZero`).

Of `Startup` in `StartupPagesProofs`, for any number of processes and of runs:
`RunIsSound` and `AllJoinOrNone`, if the processes of a run stop together (`Together`).
The inductive invariant `StartInv` says where the processes of a run can be together
(`Phases`), that a name is bound to the object that everybody has open (`Linkage`),
that one process is between the `sid` calls, or has died there, and has read the
counter that is still there (`Section`), that nobody gets past the load of the counter
before the segment has its size (`Creation`), that after a death nobody has an id
(`Wreck`), and that the ids below the counter are those given out (`Numbering`).

`ProcessProofs`, for any number of threads and of entries (`MmuAssumption`: the
entries are not the names of the other locks):

* `CirclesHaveACause`: `MmuSpec => []CircleCause`
* `LookupsAreRight`: `MmuSpec => []LookupSound`

Both are for all calls but `sbma_mtouchall` (`NoTouchAll`), which gives back locks that
it may not hold and is model-checked only. `LockBase` says that a lock is held by the
thread whose remaining steps release it, as deep as they do, and in which order the
calls nest the locks (`Nesting`); from it a circle without one of the two causes would
have to go down that order for ever. `MmuInv` adds that the links form one list of the
entries inserted and not removed, which only the holder of `mmu.lock` changes, that
the entry searched for lies ahead of a search, that an entry a call is about stays in
the list, and that a walk stands on an entry of the list until `caught`. What
is in the list is defined as the smallest set closed under `next`, so that inserting
and removing need no induction along the list.

`HooksProofs`, for any number of threads, pointers and pages:

* `AllocatorsAreRight`: `HookSpec => []RightAllocator` under `Settled`: no pointer is kept
  across `SBMA_init` or `SBMA_destroy` and no second thread calls during the first
  look-up. `AllocInv` says that one thread runs until `calloc` has been found, that
  its remaining steps lead out of the look-up, and where every pointer that is
  held or about to be given back came from.
* `KernelIsServed`: `HookSpec => []KernelServed`, with no assumption. `FileInv` says of
  each call under way that every page the kernel will use is accessible, or is still
  to be brought in by this call, or is `bare`.

`AsioProofs`, for any number of threads, works and slots (`AsioAssumption`):
`WorkAndPoolAreSafe` (`Spec => []PoolSafe`) and `RingIsFifo`
(`Spec => ImplementsFifo`, the refinement of `BoundedFifo`) from `AsioInv`: who holds
which mutex, in which phase of `main` the threads can be where, that the slots
between the two lazily wrapped indices hold works that are queued once and in no
thread's hands, and what `free_work` may assume of a work that was signalled.

Also in `AlgorithmsProofs`: `QueueInOrder`, for every size of the ring and any number
of rounds, from `PcInv` (the flags tell full from empty, and what is stored is, slot by
slot, what was added and not received), and `RwExclusion`, for any finite number of
readers and writers, from `RwInv`: the two counters count the threads inside.

`SbControlProofs` and `SbMallocProofs`, for any number of threads and allocations and
allocations of any size (`SbAssumption`):

* `ControlKeeps`: `Spec => []ControlInv`, if `~SharePages`;
* `DataPreserved`: `Spec => []Preserved`, if `~SharePages`;
* `FaultsAreHandled`: `Spec => []FaultsHandled`, if `~SharePages` and `~EarlyCalls`.

The last two are for any number of pages of metadata and up to the failing `SB_mmap`
that unmaps pages of other allocations (`torn`).

`SharePages` lets two threads use one page at the same time; `SbLost` shows that
`Preserved` then fails. `EarlyCalls` lets a thread call the library while another is
inside `__info_init__`, where there is no handler yet. The proof is in three layers:

1. `ControlInv`: the types; at which labels each call can be and within which
   allocation and list its arguments lie (`CallInv`); that a lock is held by the
   thread at a label inside its section, and by no other (`LockInv`; for
   `SB_mevictall` the allocation locked is the one its index points to, so that
   nobody may change the list); that the list has no duplicates and which
   allocations are in it while they are mapped and unmapped (`ListInv`); and what
   the application keeps apart (`ApartInv`).
2. `PageInv` and `FaultInv`: every page has one of five sets of flags; where it
   is accessible its memory has what was written last, and where it is not dirty the
   file, or zero, has it; its protection follows from its flags except while
   `__swap_out__` has cleared the flags and not yet dropped the pages (`Dropping`);
   `ld_pages` counts the loaded pages; and a page whose fault is being served is not
   dirty. Under these the abort in the handler is unreachable.
3. `StartInv`: while the library starts or ends no other call is under way.

Only model-checked:

* liveness properties and `NoCircle` of `SbMalloc`: liveness under fairness and
  ENABLED are beyond the prover;
* `Counted` of `SbMalloc`, all of `Klmalloc` and the bins of klmalloc: they speak of
  sums and folds over sets, and what a fold computes needs an induction the prover
  cannot carry out (`BinsFit` is checked for every size up to the real
  `FIXED_MAX_SIZE`);
* the properties of `Pages` outside `Core`, which the runs check on two pages with the
  counters drifting apart.

## Not modelled

* `sbma_remap` (`api/remap.c`): its only caller is klmalloc's realloc, whose model
  copies the object. `mallinfo.c`, `timeinfo.c` and the queries of `old/sbmalloc.c`
  (`SB_mcal`, `SB_mfile` and the usage counters) set or read configuration and
  statistics.
* `old/sbmalloc.old.c`, `old/mmu.old.h`, `old/vmm.old.h`: earlier versions of code that
  is modelled, not built. `old/micro1.c` and `bench`: straight-line programs
  that measure time. The test programs inside `klmalloc.c` and `sbmalloc.c`.
* System-call errors other than `kill`, `mmap` and `mremap` in the library: open,
  close, mprotect and read errors only lead to error returns. File descriptors.
* `sbma_mclearall` in `Ipc`: it alone calls `ipc_mdirty` with a negative amount, which
  `Pages` has with its ASSERT.
* `alarm(1)` in the test program of `asio.c`, which ends it after a second.
* A SIGIPC *inside* the page-level steps of a call. `Ipc` has it between the probe
  and the swap; `Pages` has it between calls.
* The counters of the threaded build: `MmuThreads` has the locks and the table,
  `Ipc` and `Pages` have one thread per process.
* Partial pages in `Pages`: ranges are whole pages, and `s_pages` (system pages per
  SBMA page) is 1; the arithmetic is in `PageRange`.
* More than `SBMA_ATOMIC_MAX` ranges in one call and option strings of more than 511
  characters.
* Statistics of the library, timers and checkpoint output.
