# Verification of pageTableWalk's memory-pressure monitor

This directory holds TLA+ models of the memory-pressure monitor in
`src/`, the TLC configurations that check them, and the TLAPS proofs
about them.

## The system

The repository watches a Xen guest from dom0 and decides whether the guest
swaps enough to need more memory. Every program talks to a hypervisor
extension through one hypercall, `__HYPERVISOR_change_ept_content`, issued
with `ioctl(fd, IOCTL_PRIVCMD_HYPERCALL, ...)`. The hypercall's fourth
argument selects the operation:

| flag | operation (as the callers use it) |
|------|-----------------------------------|
| 13 | set up the per-VM environment |
| 14 | tear it down |
| 7 | copy the recently scheduled CR3 values into a buffer |
| 12 | walk the page tables of a list of CR3s, replacing each by its swapped-page count |
| 15, 18, 16, 19, 17 | SCHEDULE_SWAP: refresh, re-sample, copy deltas, copy swap counts, stop |
| 5, 6 | all_walk_page / tmp.c: start registration, register one CR3 |

The parts, and how they interact:

- **`src/swap_diff/swap_calculate.c`** is the one-shot monitor (policy STOP).
  Each tick it does the following:
  - copies the recent CR3 values (flag 7);
  - counts each value in `all_cr3` and ranks it into a top-K table `top_cr3`;
  - builds a watch list from the top-K table and the first `RECENT_WALK_SIZE`
    recent CR3s;
  - walks that list (flag 12), sleeps, and walks it again;
  - sums the increases of the swapped-page counts.

  After `TIMES` consecutive sums above `THRESHOLD` it reports a bottleneck,
  tears down (flag 14) and exits. The first tick's sum is ignored (`flag`).
- **`src/SCHEDULE_SWAP/swap_calculate.c`** is the continuous monitor (policy
  CONTINUE). In refresh cycles it sums the hypervisor's per-address-space
  deltas each tick (flag 16). When a tick is over the threshold, it prints
  an estimate of the extra memory: the swapped pages (flag 19) divided by
  256. SIGINT runs `end_process`.
- **`src/libvmi-0.8/libvmi/driver/memory_cache.c`** is libvmi's page cache, with
  TTL refresh and LRU eviction. libvmi is vendored, and the programs above
  use it only for introspection.
- **`src/all_walk_page.c`** and **`src/tmp.c`** register guest CR3s with the
  hypervisor. all_walk_page pauses the VM, walks the guest's process list and
  registers each process's CR3 (flag 6).
- `kvm.c`, `os/windows/process.c`, `config/grammar.h` and
  `examples/map-addr.c` are vendored libvmi code: a driver, a signature scan,
  a generated parser header and an example.

`spec.md` describes the monitor as a design: Sampler, Top-K tracker, Recency
window, Pressure detector (WARMUP, MONITORING, CONFIRMED, with policy STOP or
CONTINUE) and the estimate.

## Modules

| module | models |
|--------|--------|
| `SwapDiff` | `main` of `src/swap_diff/swap_calculate.c`, statement by statement |
| `PressureDetector` | the pressure detector of spec §4.4 (abstract; modelled from the spec) |
| `MC_SwapDiff` | TLC instance of `SwapDiff`: a bound on the counts |
| `SwapDiffProofs` | TLAPS proofs about `SwapDiff` |
| `ScheduleSwap` | `main` and the SIGINT handler `end_process` of `src/SCHEDULE_SWAP/swap_calculate.c` |
| `MC_ScheduleSwap` | TLC instance of `ScheduleSwap` |
| `ScheduleSwapProofs` | TLAPS proofs about `ScheduleSwap` |
| `MemoryCache` | libvmi's page cache, `src/libvmi-0.8/libvmi/driver/memory_cache.c` |
| `MC_MemoryCache` | TLC instance of `MemoryCache`: three pages as model values |
| `MemoryCacheProofs` | TLAPS proofs about `MemoryCache` |
| `ProcessWalk` | `main` of `src/all_walk_page.c`, with `main` of `src/tmp.c` running beside it |
| `MC_ProcessWalk` | TLC instance of `ProcessWalk`: a four-entry guest list and a two-entry ring beside it |
| `ProcessWalkProofs` | TLAPS proofs about `ProcessWalk` |

### SwapDiff

The program is single-threaded, so the model is a sequential state machine.
`pc` is the program point, and each action is one statement group of `main`
between two program points. The loops over `i` and `j` are taken one
iteration per step, with `i` and `j` as variables, as in the code:

| action | code (swap_calculate.c) |
|--------|-------------------------|
| `Setup` | lines 49-78: allocations, `open`, init hypercall 13, and the three ways it ends |
| `Snapshot` | lines 79-90: zero `new_cr3` and copy the recent CR3s (flag 7) |
| `Count` | lines 91-94: one iteration of the count loop |
| `Rank` | lines 95-105: one iteration of the ranking loop over `j` |
| `Walk1` | lines 108-128: build `answer_cr3` and walk it (flag 12) |
| `Sleep` | line 131 |
| `Walk2` | lines 133-149: save `last_diff_swap_num`, rebuild `answer_cr3`, walk again, `tot_diff = 0` |
| `Sum` | lines 150-163: one iteration of the guarded sum |
| `Decide` | lines 165-182: the `times` counter, the break, `flag = 1` |
| `Teardown` | lines 186-199: hypercall 14 and exit |

`chan` records the hypervisor's per-VM state (idle, active, released).
`swapped` is the guest's swapped-page count per address space. It is the
environment: it may change at the snapshot and during the sleep.

A walk replaces each CR3 in the list by its count. When `WalkMayFail` holds,
a walk may fail and leave the list as it was, because the code ignores
`ret`. `tot_diff` is computed modulo `ULongMod`, which models the width of
`unsigned long`. `cr3 >> 12` is `c \div 4096`.

`PressureDetector` is the abstract detector. `SwapDiff` defines
`Detector == INSTANCE PressureDetector WITH ...` with this mapping:

| detector | SwapDiff |
|----------|----------|
| `state` | `WARMUP` while `flag = 0`, `CONFIRMED` once `times >= TIMES`, else `MONITORING` |
| `consecutiveViolations` | `times` |
| `totalDelta` | `tot_diff` |
| `sampled` | `pc` is `sum` or `decide` |

`Walk2` and each `Sum` step are detector `Sample` steps. `Decide` is a
warm-up, violation or quiet step. Every other step is a stutter.

### ScheduleSwap

This is again a single-threaded `main` with a `pc`, one action per statement
group, and the summing loops taken one iteration per step:

| action | code (SCHEDULE_SWAP/swap_calculate.c) |
|--------|-------------------------|
| `Alloc`, `Open`, `InitEnv` | lines 53-85: mallocs, `open`, init hypercall 13 (its `ret` is not checked, so `chan` may stay idle) |
| `Refresh` | lines 86-99: hypercall 15, sleep, `show_times` and `sample_times` reset |
| `Resample` | lines 102-109: hypercall 18 |
| `EndCycle`, `Copy` | line 111 (the inner loop's test) and lines 111-123: hypercall 16 fills `swap_diff`, `total_diff = 0` |
| `Sum` | lines 124-127: one iteration over `ary_size`, modulo `ULongMod` |
| `Check` | lines 131-157: over `THRESHOLD`, `sample_times--`; when it reaches 0, go to the estimate |
| `Report`, `SwapSum` | lines 135-149: hypercall 19 and the sum of swapped pages |
| `NextTick` | lines 159-161: `show_times--` |
| `Interrupt` | lines 28-41, `end_process`: hypercalls 17 and 14 when `fd` is open, then exit |

The signal handler is installed by the first statement of `main`, so
`Interrupt` is enabled at every program point. `chan` is the hypervisor's
per-VM environment. `overInCycle`, `reportsInCycle` and `consecutive` are
history variables: they record what the detector of spec §4.4 would count.
They are written by the actions and read only by the properties.

### MemoryCache

The state is the following:

- `table` is the hash table, as a function from page to `last_updated`;
- `lru` is the key list, newest first, as a sequence of pages;
- `size` is `memory_cache_size`;
- `now` is `time(NULL)`;
- `alive` is false once `memory_cache_destroy` has run;
- `crashed` records a NULL dereference in `clean_cache`.

The list is compared by key pointer and the table by value. Keeping the list
as a sequence with repeats models exactly that: `g_list_remove` of a fresh
pointer (line 103) removes nothing, so a refresh prepends a second key for the
same page. The actions are these:

| action | code (memory_cache.c) |
|--------|-----------------------|
| `Hit` | lines 175-178 and 92-108: a lookup hit; an entry older than `age_limit` is refreshed and its key prepended |
| `Miss` | lines 182-195 and 110-144: `clean_cache` (lines 76-90) when `size >= max`, then insert, prepend a key, `size++` |
| `Destroy` | lines 205-211: `clean_cache` with a maximum of 0 |
| `Tick` | time passing |

`clean_cache` is one step. It pops `Pops(size, max)` keys from the tail,
removes their entries, and crashes if the list runs out first. The entry's
data, `last_used` (which nothing reads) and the early returns that change
nothing are left out.

### ProcessWalk

The guest's process list is given by constants, because the VM is paused
while it is read:

- `Nodes` are the list entries;
- `Succ` is the next pointer of each entry, injective, so the list is made of cycles;
- `InitLink` is the entry of `init_task` or `PsInitialSystemProcess`;
- `PidOf` is the value read as each entry's pid;
- `DtbOf` is `vmi_pid_to_dtb`;
- `Null` is address 0.

The code ignores the status of every guest read. A failed read leaves its
output variable unchanged: `Reads(v, old)` is `{v, old}` when `GuestFaults`
holds, and `{v}` otherwise. `next_process` is not initialised, so `Init`
lets it hold any address.

The variables are these:

- `pc` and `toolPc` are the program counters of the two programs;
- `vm` is whether the guest is paused;
- `os` is `vmi_get_ostype`;
- `tasksOk` is whether `tasks_offset` was found;
- `np`, `lh` and `pid` are `next_process`, `list_head` and `pid`;
- `issued` is the set of roots given to hypercall 6;
- `broke` records the `break` of line 131.

| action | code |
|--------|------|
| `VmiInit` | all_walk_page lines 36-39: `vmi_init`, or `exit(1)` |
| `Offsets` | lines 44-70. Only Windows checks an offset, and lines 61 and 66 re-test `tasks_offset`, so only a missing tasks offset goes to `error_exit`. The offset lookup is a guest read: it can fail only under `GuestFaults`, so on Linux, which never checks it (lines 44-53), a missing offset is a fault of the pw_readfail setting and never happens in pw_main |
| `Pause` | lines 75-78: pause, or `goto error_exit` |
| `Open` | lines 80-84: open privcmd, or `exit(1)` with the VM paused |
| `Start` | lines 86-91: hypercall 5 |
| `Head` | lines 94-123: the head read, and on Windows the pid and the name read, whose failure goes to `error_exit`; then `list_head = next_process` |
| `Walk` | lines 124-148: one iteration. It reads `tmp_next`, which stays 0 when the read fails. It breaks at `list_head`. Otherwise it reads the pid, registers a non-zero DTB of a non-negative pid, and advances |
| `Cleanup` | lines 150-158: resume and destroy |
| `ToolOpen`, `ToolCall` | tmp.c lines 41-45 and 29-52: open, or `exit(1)`; then hypercall 13 or hypercall 6 of the address in `argv[2]` |

## Runs

The SwapDiff runs use these constants, except where the run table says otherwise:

| constant | value | why |
|----------|-------|-----|
| `Cr3s` | `{4096, 5242880}` | two address spaces; `5242880 >> 12 = 1280` is out of range of `all_cr3` and is skipped by the range check at line 93 |
| `tot_pages` | 1280 | |
| `RECENT_WALK_SIZE` | 2 | |
| `THRESHOLD` | 1 | |
| `MaxSnapshot` | 2 | snapshots of up to two entries |
| `MaxSwap` | 2 | swap counts 0..2 |
| `ULongMod` | 2^24 | |

`MC_SwapDiff` bounds each count in `all_cr3` by 3. That is enough for a
count to pass a CR3 in the ranking comparison.

Deadlock checking is off. The program's `main` ends (state `done`), and that
is the only state without a successor.

| run | cfg | expect | shows |
|-----|-----|--------|-------|
| swapdiff_main | `MC_SwapDiff.cfg` | pass | the built configuration (K = 0, TIMES = 1) with walks that succeed: no position adds more than the real increase of the address space walked there (`TrueIncreases`), and the loop refines the detector |
| swapdiff_walkfail | `MC_SwapDiff_walkfail.cfg` | violation | a failed walk makes `tot_diff` = cr3 − count: a false bottleneck |
| swapdiff_topk | `MC_SwapDiff_topk.cfg` | violation | `Cr3s` {4096, 8192}, K = 2: the ranking compares a count with a CR3, and the table is not the top K |
| swapdiff_overlap | `MC_SwapDiff_overlap.cfg` | violation | `Cr3s` {4096, 8192}, K = 1, R = 1, `MaxSnapshot` 1, walks that succeed: an address space in `top_cr3` that is also the newest CR3 is summed twice (line 113), against spec.md's deduplicated WatchSet |

No fairness is assumed. The properties checked are all safety or refinement
of a safety specification. The new_cr3 malloc exit that skips the teardown
(line 72) has no run of its own; the model still has the path.

`NoInflatedDiff` compares `tot_diff` at `decide` with the sum of the real
increases over the set of watched address spaces. It is the property of the
two SwapDiff violation runs, where a failed walk or a repeated address space
breaks it. It is not checked on swapdiff_main: with K = 0 and a copy
hypercall that returns distinct CR3 values, it is `TrueIncreases` summed.

`Snapshots` returns lists of distinct CR3 values. The list is the
hypervisor's recency window, which is not in this repository; spec.md states
that it holds distinct address spaces (RecencyEntry, and "inserting a
duplicate id does not change the count of entries"). Lines 88-122 neither
check nor remove repeats, so a hypervisor that sent one would make line 158
add that address space's increase twice. For every TIMES, the refinement
proof below covers the debounce counter.

### SCHEDULE_SWAP runs

The constants are `THRESHOLD` 200 (as built), `SAMPLE_TIMES` 2,
`SHOW_TIMES` 3, `Deltas` {0, 150}, `SwapCounts` {0, 512}, `MaxAry` 2 and
`ULongMod` 2^24. Two deltas of 150 exceed the threshold and one does not, so
both loud and quiet ticks happen. Three ticks per cycle allow
loud-quiet-loud and two loud ticks in a row. `SAMPLE_TIMES` is at most
`SHOW_TIMES`, so a cycle can reach a report.

| run | cfg | expect | shows |
|-----|-----|--------|-------|
| sched_main | `MC_ScheduleSwap.cfg` | pass | the checks below |
| sched_consecutive | `MC_ScheduleSwap_consecutive.cfg` | violation | loud, quiet, loud reports: violations need not be consecutive (spec §4.4) |
| sched_uninit | `MC_ScheduleSwap_uninit.cfg` | violation | a failed init hypercall goes unnoticed; the loop issues hypercalls on an unset environment |

sched_main checks three things:

- every exit, SIGINT included, leaves the environment released or never set up;
- a refresh cycle reports exactly once when it had `SAMPLE_TIMES` loud ticks,
  and otherwise never;
- every cycle ends (`CycleEnds`).

`CycleEnds` is checked under `WF_vars(MainStep)`. `main` is one thread whose
hypercalls and sleeps return, so it keeps taking steps. `Interrupt` has no
fairness: nothing forces the user to press Ctrl-C.

### Page cache runs

The constants are three pages, `MAX_PAGE_CACHE_SIZE` 2, `age_limit` 1 and
`MaxTime` 3. Three pages with room for two force `clean_cache` to run. The
age of one second, with time up to 3, lets entries go stale and be
refreshed, and then be refreshed again. The runs also pass with a maximum of
3 and 4. Deadlock checking is off because `Destroy` ends the instance.

| run | cfg | expect | shows |
|-----|-----|--------|-------|
| cache_main | `MC_MemoryCache.cfg` | pass | `clean_cache` never pops from an empty list (`NoNullDeref`); every cached page keeps a key (`TableInLru`) |
| cache_bound | `MC_MemoryCache_bound.cfg` | violation | after a refresh, evicting the stale duplicate key removes the live entry; `size` drifts below the table's size and the table reaches 3 pages with a maximum of 2 |

### ProcessWalk runs

The guest list is the cycle s → p → q → h → s, with `InitLink` = s. The pids
are s: 4, p: 7, q: 9 and h: −1. Their DTBs are 4096, 8192, 0 (pid 9) and
none (pid −1). So each of the following appears on the walk:

- a registered entry;
- an entry with DTB 0;
- an entry with a negative pid;
- the first entry, which the loop does not visit.

Beside the list, x → y → x is a ring of guest memory that is not the
process list. x is a process with pid 5 and DTB 16384. With reads that
succeed the walk never reaches it: `Head` reads the first entry's next
pointer and `Walk` follows next pointers. `Procs` is
{s, p, q, x}. The tool's address is 12288. Both OS kinds are
enumerated. Deadlock checking is off, because both programs end.

| run | cfg | expect | shows |
|-----|-----|--------|-------|
| pw_main | `MC_ProcessWalk.cfg` | pass | reads succeed. The walk ends (`WalkTerminates`). When it breaks, it has registered the DTB of every registrable entry but the first (`WalkRegistersList`). |
| pw_exit | `MC_ProcessWalk_exit.cfg` | violation | a failed privcmd open after the pause exits with the VM paused (`VmResumedOnExit`) |
| pw_readfail | `MC_ProcessWalk_readfail.cfg` | violation | with `GuestFaults`, a read that fails in the middle of the walk (line 128) leaves `tmp_next` 0, so `next_process` becomes 0. Every later read at 0 fails, 0 is never `list_head`, and the loop never ends |

`WalkTerminates` is checked under `WF_vars(WalkerStep)`. all_walk_page is
one thread whose libvmi calls and ioctls return. tmp.c has no fairness:
nothing forces it to be run.

## Proofs

`SwapDiffProofs` proves, for every value of the constants that satisfies
the module's ASSUMEs:

- `TypeCorrect`: `Spec => []TypeOK`;
- `Refinement`: `Spec => DetectorRefinement`. The loop implements
  `PressureDetector!Spec` under the mapping above.

Both proofs rest on the inductive invariant `IInv`, which strengthens
`TypeOK` with the following facts:

- `i` is in range at `count`, `rank` and `sum`;
- `times < TIMES` before teardown: the loop has not yet broken;
- `flag = 0` implies `times = 0` and `tot_diff = 0`.

The last fact is what makes `Decide` with `flag = 0` a detector warm-up
step: the first sum is 0, because every guard at line 154 fails. The
`times < TIMES` conjunct makes the mapped state `MONITORING` at each
`Decide`. TLC checked `IInv` as an invariant before it was proved.

- `IncreasesAreTrue`: under `~WalkMayFail`, `Spec => []TrueIncreases`.
  At `sum` and `decide`, the difference each position adds (line 154) is
  at most the real swap increase, since the first walk, of the address
  space walked there.

This third proof rests on `WInv == IInv /\ WalksAgree`. `WalksAgree` ties
both walks' answers to the guest's counts, with `WL` the watch list and
`CountsOf(sw)` what a walk of `WL` reports when the counts are `sw`:

- from `sleep` to `walk2`, `answer_cr3 = CountsOf(swappedAtWalk1)`;
- at `sum` and `decide`, `last_diff_swap_num = CountsOf(swappedAtWalk1)`
  and `answer_cr3 = CountsOf(swapped)`.

It holds because nothing between the two walks changes `top_cr3` or
`new_cr3`, so both walks read the same list. The assumption `~WalkMayFail`
is the main run's and is needed: a failed walk leaves CR3 values in
`answer_cr3` (run `swapdiff_walkfail`).

Left to TLC alone: `NoInflatedDiff`, a property of the violation runs.
`TrueIncreases` is its position-by-position core.
`NoInflatedDiff` compares `tot_diff` with `MapThenSumSet` over the watched
set. `MapThenSumSet` is a recursive function over `SUBSET S` with a CHOOSE.
Relating it to the position-by-position sum needs its unfolding and
induction over finite sets. Both go through theorems that take an operator
parameter, which the installed provers cannot instantiate.

`ScheduleSwapProofs` proves `TypeCorrect`, `ReportsOncePerCycle` and
`ChannelReleased` (`ChannelReleasedOnExit`) for all constants that satisfy
`ScheduleAssumption`. The inductive invariant adds the following facts:

- in a cycle, `overInCycle = SAMPLE_TIMES - sample_times`;
- `overInCycle` is bounded by the ticks already taken;
- at `report`, `sample_times = 0` and no report has been made yet;
- the summing index stays in range;
- `fd` is open from `init` on, and `chan` is idle before it.

The first fact is what ties the code's counter to the history variable. It
gives "exactly once": the report fires when the count reaches
`SAMPLE_TIMES`, and `sample_times` is below 0 afterwards.

`MemoryCacheProofs` proves `NoNullDereference` (`NoNullDeref`),
`KeysCoverTable` (`TableInLru`) and `TypeCorrect` for every set of pages,
maximum and age limit. The inductive invariant adds
`size <= Len(lru)`. A miss adds one key and one to the counter. A refresh
adds a key only. `clean_cache` takes from the counter exactly as many keys as
it pops. So every pop finds a last element, even though the counter drifts
below the table's real size (cache_bound). The lemmas are:

- `SplitList`: every key is either kept or popped;
- `ConsList`: prepending keeps the old keys;
- `PopsBound`: `clean_cache` pops at most `size` keys.

`ProcessWalkProofs` proves `TypeCorrect` (`Spec => []TypeOK`) for every
guest list, pid set and fault setting that satisfy `WalkAssumption`. The
inductive invariant `IInv` adds `PausedWhileWalking` (the VM is paused from
the privcmd open to the end of the walk). `TypeOK` is needed because the walk's registration looks up
`DtbOf[pid']` and `Head` chooses `np'` from `Nodes`. The pause needs no
strengthening: only `Pause` enters `open`, and it does so with `vm' =
"paused"`. Nothing sets `vm` to running before `cleanup`. The lemma
`ReadsSub` says that a read returns the value or the old one.

With reads that succeed (`~GuestFaults`, the setting of pw_main), the module
also proves `WalkRegisters`: `Spec => []WalkRegistersList`. It holds for every shape of the guest's next pointers. The inductive
invariant `RInv` adds three facts to `IInv`:

- `TasksFound`: the tasks offset was found before the pause;
- `WalkFrontier`: while walking, `next_process` is on the list and
  `list_head = Succ[InitLink]`. Also, there is a set V of visited entries,
  without the first entry, with these properties:
  - every entry of V is registered if it is registrable;
  - the next pointer of every entry of V stays in V or leads to
    `next_process`;
  - V holds `list_head` unless the walk is still there;
- `WalkRegistersList` itself.

At the break, `Succ[np] = list_head = Succ[InitLink]`. The next pointer is
injective, so `np` is the first entry. Then V ∪ {first entry} holds
`Succ[InitLink]` and is closed under `Succ`. `ListEntries` is the least such
set (lemma `ListLeast`), so every listed entry but the first is in V. TLC
checked `RInv` as an invariant on the pw_main instance before it was proved.
It also checked `RInv` with the next pointers forming two rings, and with a
first entry that points to itself.

The theorem assumes `~GuestFaults`. That is not a weakening: with failing
reads, a stale pid skips a process, and a read that fails mid-walk makes
the walk never end (pw_readfail).

`ListEntries` is written as the least set that holds `Succ[InitLink]` and is
closed under `Succ`. It used to be the reflexive transitive closure of the
Relation module. Both give the same set of reachable entries, but the
closure unfolds a recursive function that the provers cannot reason about.

Left to TLC alone:

- liveness (`CycleEnds`, `WalkTerminates`), which TLAPS cannot prove here;
- the action property `ReportIffConfirmed`, which fails;
- `CacheBounded`, which fails.

## Not modelled

- The KVM driver, the Windows process scan, the generated grammar header and
  the map-addr example are vendored I/O code.
- The heap overflow of the unparenthesised `RECENT_CR3_SIZE 100+1` is in
  the byte layout of a buffer, which the models abstract to a sequence.
- `memory_cache_destroy` leaves the duplicate keys of line 103, and the
  entries they name, behind: a leak after the last use of the instance.
- The key leak when `create_new_entry` fails (memory_cache.c line 185) is on
  the heap, which the cache model does not have.

## Plan

1. A refinement of `ScheduleSwap` to `PressureDetector` with policy
   CONTINUE. The mapping must explain non-consecutive confirmation, and
   sched_consecutive shows that it cannot. A weaker abstract detector
   (count per cycle) is the honest target.
2. Proofs of the `ScheduleSwap` action property `ReportIffConfirmed`
   restricted to the first report of a cycle. Also a proof that
   `size <= Cardinality(DOMAIN table)` fails only after a refresh, to
   characterise the drift.
