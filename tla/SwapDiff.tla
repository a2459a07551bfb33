------------------------------ MODULE SwapDiff ------------------------------
(***************************************************************************)
(* The sampling loop of src/swap_diff/swap_calculate.c: each iteration     *)
(* copies the list of recently seen CR3 values from the hypervisor,        *)
(* updates the per-page counters all_cr3 and the table top_cr3, builds the *)
(* watch list answer_cr3 (top_cr3 followed by the first RECENT_WALK_SIZE   *)
(* new CR3 values), asks the hypervisor twice, one SAMPLE_PERIOD apart, to *)
(* walk those page tables and count swapped pages, and sums the increases. *)
(* TIMES consecutive sums above THRESHOLD end the loop, after which the    *)
(* hypervisor environment is emptied.                                      *)
(*                                                                         *)
(* The loops of the C code are kept as loops: one step per snapshot entry  *)
(* (count), per iteration of the ranking loop (rank) and per summed        *)
(* position (sum).  The guest is the environment: its swapped-page counts  *)
(* change while the loop sleeps and between iterations.  The hypervisor    *)
(* calls are atomic; the page-table walk may fail, in which case the       *)
(* buffer is left as it was.                                               *)
(***************************************************************************)
EXTENDS Integers, Sequences, FiniteSets

LOCAL INSTANCE FiniteSetsExt

CONSTANTS
    Cr3s,             \* CR3 values the guest may load (page-table roots)
    tot_pages,        \* length of all_cr3 (VM memory in pages + 1024)
    TOP_CR3_SIZE,     \* K: entries of top_cr3
    RECENT_WALK_SIZE, \* R: new CR3 values walked per iteration
    THRESHOLD,        \* swap increase per iteration counted as pressure
    TIMES,            \* consecutive over-threshold iterations that stop the loop
    MaxSnapshot,      \* bound: CR3 values the hypervisor reports per copy
    MaxSwap,          \* bound: swapped pages of one address space
    ULongMod,         \* 2^w for the unsigned long arithmetic of tot_diff
    WalkMayFail       \* whether the walk hypercall (flag 12) may fail

ASSUME Cr3Assumption == Cr3s \subseteq Nat \ {0}
ASSUME PagesAssumption == tot_pages \in Nat \ {0}
ASSUME SizeAssumption ==
    /\ TOP_CR3_SIZE \in Nat
    /\ RECENT_WALK_SIZE \in Nat \ {0}
    /\ MaxSnapshot \in Nat
ASSUME ThresholdAssumption == THRESHOLD \in Nat /\ TIMES \in Nat \ {0}
ASSUME SwapAssumption == MaxSwap \in Nat
ASSUME WidthAssumption ==
    /\ ULongMod \in Nat \ {0}
    /\ \A c \in Cr3s : c < ULongMod
    /\ MaxSwap < ULongMod
ASSUME FailAssumption == WalkMayFail \in BOOLEAN

VARIABLES
    pc,              \* where the loop is
    chan,            \* hypervisor per-VM environment: "idle", "active", "released"
    all_cr3,         \* all_cr3[cr3 >> 12]: how often the CR3 was reported
    top_cr3,         \* top_cr3[0..K-1]
    new_cr3,         \* new_cr3[1..new_cr3_size] as a sequence
    answer_cr3,      \* answer_cr3[0..K+R-1]: CR3 list in, swap counts out
    last_diff_swap_num, \* swap counts of the first walk
    tot_diff,        \* sum of the increases
    times,           \* consecutive over-threshold iterations
    flag,            \* 0 on the first iteration, 1 afterwards
    i, j,            \* loop indices
    swapped,         \* guest: swapped pages of each address space
    swappedAtWalk1   \* history: the guest's counts when the first walk ran

vars == <<pc, chan, all_cr3, top_cr3, new_cr3, answer_cr3, last_diff_swap_num,
          tot_diff, times, flag, i, j, swapped, swappedAtWalk1>>

K == TOP_CR3_SIZE
R == RECENT_WALK_SIZE

\* Positions of top_cr3 and of the watch list answer_cr3.
TopPos == 0 .. (K - 1)
Pos == 0 .. (K + R - 1)

\* cr3_index = cr3 >> 12
Cr3Index(c) == c \div 4096

\* The all_cr3 slots the guest's CR3 values can reach: index 0 and
\* indices from tot_pages on are never touched (line 93).
Indices == {Cr3Index(c) : c \in Cr3s} \cap 1 .. (tot_pages - 1)

\* What the copy hypercall (flag 7) can return: at most MaxSnapshot CR3
\* values.  The list is the hypervisor's recency window, which is not in
\* this repository; spec.md (RecencyEntry, and the invariant that inserting
\* a duplicate id does not change the window) makes its entries distinct,
\* and the copy is modelled from that.  Lines 88-122 neither check nor
\* remove duplicates.  A failed copy leaves new_cr3 zeroed, which reads as
\* the empty list.
Snapshots == {s \in UNION {[1 .. n -> Cr3s] : n \in 0 .. MaxSnapshot} :
                 \A a, b \in DOMAIN s : a # b => s[a] # s[b]}

\* Lines 109-122: top_cr3 followed by the first R new CR3 values, 0-padded.
WatchList(top, new) ==
    [p \in Pos |-> IF p < K THEN top[p]
                   ELSE IF p - K < Len(new) THEN new[p - K + 1] ELSE 0]

\* The walk hypercall (flag 12) replaces each CR3 by its swapped-page count.
Walk(list) == [p \in Pos |-> IF list[p] \in Cr3s THEN swapped[list[p]] ELSE 0]

\* Line 158: tot_diff += answer - last, in unsigned long arithmetic.
Contribution(p) ==
    IF /\ answer_cr3[p] > last_diff_swap_num[p]
       /\ flag = 1
       /\ last_diff_swap_num[p] > 0
    THEN answer_cr3[p] - last_diff_swap_num[p]
    ELSE 0

\* One iteration of the ranking loop, lines 96-104, for the CR3 value c
\* whose counter is cnt.
RankTop(top, jj, cnt, c) ==
    IF cnt > top[jj]
    THEN IF jj # K - 1
         THEN [top EXCEPT ![jj + 1] = top[jj], ![jj] = c]
         ELSE [top EXCEPT ![jj] = c]
    ELSE top

-----------------------------------------------------------------------------

Init ==
    /\ pc = "setup"
    /\ chan = "idle"
    /\ all_cr3 = [x \in Indices |-> 0]
    /\ top_cr3 = [p \in TopPos |-> 0]
    /\ new_cr3 = << >>
    /\ answer_cr3 = [p \in Pos |-> 0]
    /\ last_diff_swap_num = [p \in Pos |-> 0]
    /\ tot_diff = 0
    /\ times = 0
    /\ flag = 0
    /\ i = 1
    /\ j = -1
    /\ swapped \in [Cr3s -> 0 .. MaxSwap]
    /\ swappedAtWalk1 = swapped

\* Lines 49-78: allocations, open of privcmd and the init hypercall
\* (flag 13).  Each failure jumps to ERROR_EXIT; the allocation of new_cr3
\* fails after the environment was set up.
Setup ==
    /\ pc = "setup"
    /\ \/ pc' = "snapshot" /\ chan' = "active"
       \/ pc' = "done" /\ chan' = "idle"
       \/ pc' = "done" /\ chan' = "active"
    /\ UNCHANGED <<all_cr3, top_cr3, new_cr3, answer_cr3, last_diff_swap_num,
                   tot_diff, times, flag, i, j, swapped, swappedAtWalk1>>

\* Lines 80-90: zero new_cr3 and copy the new CR3 values (flag 7).  The
\* guest has run since the previous iteration's second walk.
Snapshot ==
    /\ pc = "snapshot"
    /\ \E s \in Snapshots : new_cr3' = s
    /\ swapped' \in [Cr3s -> 0 .. MaxSwap]
    /\ i' = 1
    /\ pc' = "count"
    /\ UNCHANGED <<chan, all_cr3, top_cr3, answer_cr3, last_diff_swap_num,
                   tot_diff, times, flag, j, swappedAtWalk1>>

\* Lines 91-94: head of the loop over new_cr3; count a valid CR3 and
\* start ranking it, skip an invalid one.
Count ==
    /\ pc = "count"
    /\ i <= Len(new_cr3)
    /\ LET x == Cr3Index(new_cr3[i]) IN
         IF x \in Indices
         THEN /\ all_cr3' = [all_cr3 EXCEPT ![x] = @ + 1]
              /\ j' = K - 1
              /\ pc' = "rank"
              /\ i' = i
         ELSE /\ i' = i + 1
              /\ UNCHANGED <<all_cr3, j, pc>>
    /\ UNCHANGED <<chan, top_cr3, new_cr3, answer_cr3, last_diff_swap_num,
                   tot_diff, times, flag, swapped, swappedAtWalk1>>

\* Lines 95-105: one iteration of the ranking loop, j = K-1 down to 0.
Rank ==
    /\ pc = "rank"
    /\ IF j >= 0
       THEN /\ top_cr3' = RankTop(top_cr3, j, all_cr3[Cr3Index(new_cr3[i])],
                                  new_cr3[i])
            /\ j' = j - 1
            /\ UNCHANGED <<i, pc>>
       ELSE /\ i' = i + 1
            /\ pc' = "count"
            /\ UNCHANGED <<top_cr3, j>>
    /\ UNCHANGED <<chan, all_cr3, new_cr3, answer_cr3, last_diff_swap_num,
                   tot_diff, times, flag, swapped, swappedAtWalk1>>

\* Mutant of Walk1: the walk hypercall of line 128 left out; answer_cr3
\* keeps the previous iteration's second counts.
Walk1NoWalk ==
    /\ pc = "count"
    /\ i > Len(new_cr3)
    /\ swappedAtWalk1' = swapped
    /\ pc' = "sleep"
    /\ UNCHANGED <<chan, all_cr3, top_cr3, new_cr3, answer_cr3,
                   last_diff_swap_num, tot_diff, times, flag, i, j, swapped>>

\* Lines 109-128: build answer_cr3 from top_cr3 and new_cr3 and walk the
\* page tables (flag 12).  The return value is not checked: a failed walk
\* leaves the CR3 values in the buffer.
Walk1 ==
    /\ pc = "count"
    /\ i > Len(new_cr3)
    /\ LET list == WatchList(top_cr3, new_cr3) IN
         \/ answer_cr3' = Walk(list)
         \/ WalkMayFail /\ answer_cr3' = list
    /\ swappedAtWalk1' = swapped
    /\ pc' = "sleep"
    /\ UNCHANGED <<chan, all_cr3, top_cr3, new_cr3, last_diff_swap_num,
                   tot_diff, times, flag, i, j, swapped>>

\* Line 131: sleep(SAMPLE_PERIOD); the guest runs and swaps meanwhile.
Sleep ==
    /\ pc = "sleep"
    /\ swapped' \in [Cr3s -> 0 .. MaxSwap]
    /\ pc' = "walk2"
    /\ UNCHANGED <<chan, all_cr3, top_cr3, new_cr3, answer_cr3,
                   last_diff_swap_num, tot_diff, times, flag, i, j,
                   swappedAtWalk1>>

\* Lines 133-149: keep the first counts, rebuild the CR3 list, walk again,
\* and clear tot_diff before the sum.
Walk2 ==
    /\ pc = "walk2"
    /\ last_diff_swap_num' = answer_cr3
    /\ LET list == WatchList(top_cr3, new_cr3) IN
         \/ answer_cr3' = Walk(list)
         \/ WalkMayFail /\ answer_cr3' = list
    /\ tot_diff' = 0
    /\ i' = 0
    /\ pc' = "sum"
    /\ UNCHANGED <<chan, all_cr3, top_cr3, new_cr3, times, flag, j, swapped,
                   swappedAtWalk1>>

\* Lines 150-163: one position of the sum.
Sum ==
    /\ pc = "sum"
    /\ tot_diff' = (tot_diff + Contribution(i)) % ULongMod
    /\ i' = i + 1
    /\ pc' = IF i + 1 = K + R THEN "decide" ELSE "sum"
    /\ UNCHANGED <<chan, all_cr3, top_cr3, new_cr3, answer_cr3,
                   last_diff_swap_num, times, flag, j, swapped,
                   swappedAtWalk1>>

\* Mutants of Decide: the break test off by one (times > TIMES); flag
\* never set after the first iteration; the count not cleared by a quiet
\* iteration.
DecideOffByOne ==
    /\ pc = "decide"
    /\ times' = IF tot_diff > THRESHOLD THEN times + 1 ELSE 0
    /\ IF times' > TIMES
       THEN pc' = "teardown" /\ flag' = flag
       ELSE pc' = "snapshot" /\ flag' = 1
    /\ UNCHANGED <<chan, all_cr3, top_cr3, new_cr3, answer_cr3,
                   last_diff_swap_num, tot_diff, i, j, swapped,
                   swappedAtWalk1>>

DecideNoFlag ==
    /\ pc = "decide"
    /\ times' = IF tot_diff > THRESHOLD THEN times + 1 ELSE 0
    /\ IF times' >= TIMES
       THEN pc' = "teardown" /\ flag' = flag
       ELSE pc' = "snapshot" /\ flag' = flag
    /\ UNCHANGED <<chan, all_cr3, top_cr3, new_cr3, answer_cr3,
                   last_diff_swap_num, tot_diff, i, j, swapped,
                   swappedAtWalk1>>

\* Lines 165-181: count a consecutive over-threshold iteration, reset the
\* count otherwise; stop after TIMES of them, else set flag and loop.
Decide ==
    /\ pc = "decide"
    /\ times' = IF tot_diff > THRESHOLD THEN times + 1 ELSE 0
    /\ IF times' >= TIMES
       THEN pc' = "teardown" /\ flag' = flag
       ELSE pc' = "snapshot" /\ flag' = 1
    /\ UNCHANGED <<chan, all_cr3, top_cr3, new_cr3, answer_cr3,
                   last_diff_swap_num, tot_diff, i, j, swapped,
                   swappedAtWalk1>>

\* Lines 186-195: empty the environment (flag 14) and exit.
Teardown ==
    /\ pc = "teardown"
    /\ chan' = "released"
    /\ pc' = "done"
    /\ UNCHANGED <<all_cr3, top_cr3, new_cr3, answer_cr3, last_diff_swap_num,
                   tot_diff, times, flag, i, j, swapped, swappedAtWalk1>>

Next ==
    \/ Setup
    \/ Snapshot
    \/ Count
    \/ Rank
    \/ Walk1
    \/ Sleep
    \/ Walk2
    \/ Sum
    \/ Decide
    \/ Teardown

Spec == Init /\ [][Next]_vars

-----------------------------------------------------------------------------

\* Every variable holds a value of its C type's range.
TypeOK ==
    /\ pc \in {"setup", "snapshot", "count", "rank", "sleep", "walk2", "sum",
               "decide", "teardown", "done"}
    /\ chan \in {"idle", "active", "released"}
    /\ all_cr3 \in [Indices -> Nat]
    /\ top_cr3 \in [TopPos -> {0} \cup Cr3s]
    /\ new_cr3 \in Snapshots
    /\ answer_cr3 \in [Pos -> 0 .. (ULongMod - 1)]
    /\ last_diff_swap_num \in [Pos -> 0 .. (ULongMod - 1)]
    /\ tot_diff \in 0 .. (ULongMod - 1)
    /\ times \in 0 .. TIMES
    /\ flag \in {0, 1}
    /\ i \in Nat
    /\ j \in -1 .. (K - 1)
    /\ swapped \in [Cr3s -> 0 .. MaxSwap]
    /\ swappedAtWalk1 \in [Cr3s -> 0 .. MaxSwap]

-----------------------------------------------------------------------------
(***************************************************************************)
(* The watch list and the guest's true increases.                          *)
(***************************************************************************)

\* The address spaces walked this iteration, each once.
Watched == {WatchList(top_cr3, new_cr3)[p] : p \in Pos} \cap Cr3s

\* How many pages an address space swapped out between the two walks.
Increase(c) ==
    IF swapped[c] > swappedAtWalk1[c] THEN swapped[c] - swappedAtWalk1[c] ELSE 0

\* Once the sum over answer_cr3 is complete, tot_diff is no larger than the
\* swap increase the guest really had, over the distinct walked address
\* spaces.  A larger tot_diff (a failed walk read as counts, an address
\* space walked twice, a wrapped subtraction) raises a false alarm.
NoInflatedDiff ==
    pc = "decide" => tot_diff <= MapThenSumSet(Increase, Watched)

\* Both walks of an iteration measure the same address spaces: at every
\* position of the sum (lines 150-163) the first counts are the guest's
\* counts when the first walk ran and the second counts its counts now, so
\* what a position adds to tot_diff is at most that address space's real
\* increase across the sleep.  A first count taken from another list or
\* another iteration would make a position report swapping that did not
\* happen.
TrueIncreases ==
    pc \in {"sum", "decide"} =>
        \A p \in Pos :
           LET c == WatchList(top_cr3, new_cr3)[p]
           IN  Contribution(p) <= IF c \in Cr3s THEN Increase(c) ELSE 0

\* The loop implements the debounced detector of the design: the first
\* iteration is a warm-up, TIMES consecutive sums above THRESHOLD confirm,
\* any other sum clears the run, and confirmation stops the loop.
Detector == INSTANCE PressureDetector WITH
    Threshold <- THRESHOLD,
    ConfirmationThreshold <- TIMES,
    OnConfirmed <- "STOP",
    Deltas <- 0 .. (ULongMod - 1),
    state <- IF flag = 0 THEN "WARMUP"
             ELSE IF times >= TIMES THEN "CONFIRMED" ELSE "MONITORING",
    consecutiveViolations <- times,
    totalDelta <- tot_diff,
    sampled <- pc \in {"sum", "decide"}

DetectorRefinement == Detector!Spec

\* The count of a CR3 value in all_cr3 (0 for one that is never counted).
Score(c) == IF Cr3Index(c) \in Indices THEN all_cr3[Cr3Index(c)] ELSE 0

\* Between iterations top_cr3 holds the hottest address spaces, as the
\* design's Top-K tracker does: distinct entries in descending order of
\* their counts, none left out that is hotter than one held, and every
\* counted one held while the table has room.
TopKConsistent ==
    LET Held == {top_cr3[p] : p \in TopPos} \ {0} IN
    pc = "snapshot" =>
        /\ \A p, q \in TopPos :
              (p < q /\ top_cr3[q] # 0) =>
                  /\ top_cr3[p] # top_cr3[q]
                  /\ Score(top_cr3[p]) >= Score(top_cr3[q])
        /\ \A c \in Cr3s \ Held, e \in Held : Score(c) <= Score(e)
        /\ Cardinality(Held) < K =>
              \A c \in Cr3s : Score(c) > 0 => c \in Held

\* When the program has exited, the hypervisor environment it set up has
\* been emptied again (the teardown hypercall, flag 14).
ChannelReleasedOnExit == pc = "done" => chan # "active"

=============================================================================
