---------------------------- MODULE ScheduleSwap ----------------------------
(***************************************************************************)
(* main and end_process of src/SCHEDULE_SWAP/swap_calculate.c: the        *)
(* continuous monitor.  Each refresh cycle resets the hypervisor's         *)
(* counters (flag 15), re-samples (flag 18) and then, for SHOW_TIMES ticks, *)
(* copies the per-address-space deltas (flag 16) and sums them.  A tick    *)
(* over THRESHOLD decrements sample_times; when it reaches 0 the estimate  *)
(* is computed from the swapped-page counts (flag 19).  The loop never     *)
(* ends by itself: SIGINT runs end_process, which stops (flag 17), empties *)
(* the environment (flag 14) and exits.                                    *)
(*                                                                         *)
(* The signal handler is installed by the first statement of main, so the  *)
(* action Interrupt may run between any two steps of main.                 *)
(***************************************************************************)
EXTENDS Integers, Sequences

CONSTANTS
    THRESHOLD,      \* line 22
    SAMPLE_TIMES,   \* line 21
    SHOW_TIMES,     \* (REFRESH_PERIOD*1000*1000)/SHOW_PERIOD, line 91
    Deltas,         \* values the hypervisor reports per address space
    SwapCounts,     \* swapped-page counts hypercall 19 reports
    MaxAry,         \* largest ary_size the hypervisor reports
    ULongMod        \* 2^(bits of unsigned long)

ASSUME ScheduleAssumption ==
    /\ THRESHOLD \in Nat
    /\ SAMPLE_TIMES \in Nat \ {0}
    /\ SHOW_TIMES \in Nat \ {0}
    /\ Deltas \subseteq Nat /\ SwapCounts \subseteq Nat
    /\ MaxAry \in Nat
    /\ ULongMod \in Nat \ {0}

VARIABLES
    pc,             \* the statement main executes next, or "exited"
    chan,           \* the hypervisor's per-VM environment
    fdOpen,         \* fd refers to /proc/xen/privcmd
    show_times,
    sample_times,
    swap_diff,      \* the entries 1..ary_size of the buffer swap_diff
    i,
    total_diff,
    tot_swap,
    (* history: what the detector of spec section 4.4 would know *)
    overInCycle,    \* ticks over THRESHOLD since the last refresh
    reportsInCycle, \* reports since the last refresh
    consecutive     \* consecutive ticks over THRESHOLD, cleared by a report

vars == <<pc, chan, fdOpen, show_times, sample_times, swap_diff, i,
          total_diff, tot_swap, overInCycle, reportsInCycle, consecutive>>

\* What a copy hypercall can put in swap_diff: ary_size, then the entries.
Buffers(vals) == UNION {[1 .. n -> vals] : n \in 0 .. MaxAry}

Init ==
    /\ pc = "alloc"
    /\ chan = "idle"
    /\ fdOpen = FALSE
    /\ show_times = 0
    /\ sample_times = 0
    /\ swap_diff = << >>
    /\ i = 1
    /\ total_diff = 0
    /\ tot_swap = 0
    /\ overInCycle = 0
    /\ reportsInCycle = 0
    /\ consecutive = 0

\* The variables only the loop body touches.
loopVars == <<show_times, sample_times, swap_diff, i, total_diff, tot_swap,
              overInCycle, reportsInCycle, consecutive>>

\* Lines 55-61: the two mallocs; exit(1) when one fails.
Alloc ==
    /\ pc = "alloc"
    /\ pc' \in {"open", "exited"}
    /\ UNCHANGED <<chan, fdOpen>>
    /\ UNCHANGED loopVars

\* Lines 68-72: open privcmd; exit(1) when it fails.
Open ==
    /\ pc = "open"
    /\ \/ fdOpen' = TRUE /\ pc' = "init"
       \/ fdOpen' = FALSE /\ pc' = "exited"
    /\ UNCHANGED chan
    /\ UNCHANGED loopVars

\* Lines 75-85: init hypercall 13, whose ret is never checked.
InitEnv ==
    /\ pc = "init"
    /\ chan' \in {"active", chan}
    /\ pc' = "refresh"
    /\ UNCHANGED fdOpen
    /\ UNCHANGED loopVars

\* Lines 86-99: top of the outer loop; refresh hypercall 15.
Refresh ==
    /\ pc = "refresh"
    /\ show_times' = SHOW_TIMES
    /\ sample_times' = SAMPLE_TIMES
    /\ overInCycle' = 0
    /\ reportsInCycle' = 0
    /\ pc' = "resample"
    /\ UNCHANGED <<chan, fdOpen, swap_diff, i, total_diff, tot_swap,
                   consecutive>>

\* Lines 102-109: re-sample hypercall 18.
Resample ==
    /\ pc = "resample"
    /\ pc' = "loop"
    /\ UNCHANGED <<chan, fdOpen>>
    /\ UNCHANGED loopVars

\* Line 111 when show_times has run out: back to the top of the outer loop.
EndCycle ==
    /\ pc = "loop"
    /\ show_times <= 0
    /\ pc' = "refresh"
    /\ UNCHANGED <<chan, fdOpen>>
    /\ UNCHANGED loopVars

\* Mutant: the loop condition of line 111 tested after the copy, not before.
CopyNoGuard ==
    /\ pc = "loop"
    /\ swap_diff' \in Buffers(Deltas)
    /\ total_diff' = 0
    /\ i' = 1
    /\ pc' = "sum"
    /\ UNCHANGED <<chan, fdOpen, show_times, sample_times, tot_swap,
                   overInCycle, reportsInCycle, consecutive>>

\* Lines 111-123: zero swap_diff, copy hypercall 16, total_diff = 0.
Copy ==
    /\ pc = "loop"
    /\ show_times > 0
    /\ swap_diff' \in Buffers(Deltas)
    /\ total_diff' = 0
    /\ i' = 1
    /\ pc' = "sum"
    /\ UNCHANGED <<chan, fdOpen, show_times, sample_times, tot_swap,
                   overInCycle, reportsInCycle, consecutive>>

\* Lines 124-127: one iteration of the sum over ary_size entries, in
\* unsigned long arithmetic, or the loop's exit.
Sum ==
    /\ pc = "sum"
    /\ \/ /\ i <= Len(swap_diff)
          /\ total_diff' = (total_diff + swap_diff[i]) % ULongMod
          /\ i' = i + 1
          /\ UNCHANGED pc
       \/ /\ i > Len(swap_diff)
          /\ pc' = "check"
          /\ UNCHANGED <<total_diff, i>>
    /\ UNCHANGED <<chan, fdOpen, show_times, sample_times, swap_diff,
                   tot_swap, overInCycle, reportsInCycle, consecutive>>

\* Mutant: line 134 tests sample_times <= 0 instead of == 0.
CheckAtOrBelowZero ==
    /\ pc = "check"
    /\ IF total_diff > THRESHOLD
       THEN /\ sample_times' = sample_times - 1
            /\ pc' = IF sample_times' <= 0 THEN "report" ELSE "next"
            /\ overInCycle' = overInCycle + 1
            /\ consecutive' = consecutive + 1
       ELSE /\ pc' = "next"
            /\ consecutive' = 0
            /\ UNCHANGED <<sample_times, overInCycle>>
    /\ UNCHANGED <<chan, fdOpen, show_times, swap_diff, i, total_diff,
                   tot_swap, reportsInCycle>>

\* Lines 131-134 (and 153-157): a tick over THRESHOLD decrements
\* sample_times; reaching exactly 0 starts the report.
Check ==
    /\ pc = "check"
    /\ IF total_diff > THRESHOLD
       THEN /\ sample_times' = sample_times - 1
            /\ pc' = IF sample_times' = 0 THEN "report" ELSE "next"
            /\ overInCycle' = overInCycle + 1
            /\ consecutive' = consecutive + 1
       ELSE /\ pc' = "next"
            /\ consecutive' = 0
            /\ UNCHANGED <<sample_times, overInCycle>>
    /\ UNCHANGED <<chan, fdOpen, show_times, swap_diff, i, total_diff,
                   tot_swap, reportsInCycle>>

\* Lines 135-145: zero swap_diff, hypercall 19 for the swapped-page
\* counts, tot_swap = 0.
Report ==
    /\ pc = "report"
    /\ swap_diff' \in Buffers(SwapCounts)
    /\ tot_swap' = 0
    /\ i' = 1
    /\ reportsInCycle' = reportsInCycle + 1
    /\ consecutive' = 0
    /\ pc' = "swapsum"
    /\ UNCHANGED <<chan, fdOpen, show_times, sample_times, total_diff,
                   overInCycle>>

\* Lines 146-149: one iteration of the sum of the swapped-page counts, or
\* the loop's exit and the printed estimate tot_swap/256.
SwapSum ==
    /\ pc = "swapsum"
    /\ \/ /\ i <= Len(swap_diff)
          /\ tot_swap' = (tot_swap + swap_diff[i]) % ULongMod
          /\ i' = i + 1
          /\ UNCHANGED pc
       \/ /\ i > Len(swap_diff)
          /\ pc' = "next"
          /\ UNCHANGED <<tot_swap, i>>
    /\ UNCHANGED <<chan, fdOpen, show_times, sample_times, swap_diff,
                   total_diff, overInCycle, reportsInCycle, consecutive>>

\* Mutant: show_times-- of line 159 left out.
NextTickNoDecrement ==
    /\ pc = "next"
    /\ pc' = "loop"
    /\ UNCHANGED <<chan, fdOpen>>
    /\ UNCHANGED loopVars

\* Lines 159-160: end of a tick.
NextTick ==
    /\ pc = "next"
    /\ show_times' = show_times - 1
    /\ pc' = "loop"
    /\ UNCHANGED <<chan, fdOpen, sample_times, swap_diff, i, total_diff,
                   tot_swap, overInCycle, reportsInCycle, consecutive>>

\* Mutant: end_process without the hypercall 14 of lines 34-38.
InterruptNoRelease ==
    /\ pc # "exited"
    /\ pc' = "exited"
    /\ UNCHANGED <<chan, fdOpen>>
    /\ UNCHANGED loopVars

\* Lines 28-41: SIGINT runs end_process wherever main is.  Hypercalls 17 and
\* 14 reach the hypervisor only through an open privcmd fd (before line 68
\* fd is the global's 0); exit(0) ends the process.
Interrupt ==
    /\ pc # "exited"
    /\ chan' = IF fdOpen THEN "released" ELSE chan
    /\ pc' = "exited"
    /\ UNCHANGED fdOpen
    /\ UNCHANGED loopVars

\* The steps of main, which the single thread takes one after the other.
MainStep ==
    \/ Alloc \/ Open \/ InitEnv \/ Refresh \/ Resample \/ EndCycle
    \/ Copy \/ Sum \/ Check \/ Report \/ SwapSum \/ NextTick

Next == MainStep \/ Interrupt

\* main never blocks for good (hypercalls return, usleep returns), so its
\* next step is eventually taken; SIGINT comes from outside and is not
\* assumed to come.
Spec == Init /\ [][Next]_vars /\ WF_vars(MainStep)

-----------------------------------------------------------------------------
(***************************************************************************)
(* Properties                                                              *)
(***************************************************************************)

TypeOK ==
    /\ pc \in {"alloc", "open", "init", "refresh", "resample", "loop", "sum",
               "check", "report", "swapsum", "next", "exited"}
    /\ chan \in {"idle", "active", "released"}
    /\ fdOpen \in BOOLEAN
    /\ show_times \in 0 .. SHOW_TIMES
    /\ sample_times \in (-SHOW_TIMES) .. SAMPLE_TIMES
    /\ swap_diff \in Buffers(Deltas) \cup Buffers(SwapCounts)
    /\ i \in 1 .. (MaxAry + 1)
    /\ total_diff \in 0 .. (ULongMod - 1)
    /\ tot_swap \in 0 .. (ULongMod - 1)
    /\ overInCycle \in 0 .. SHOW_TIMES
    /\ reportsInCycle \in 0 .. 1
    /\ consecutive \in Nat

\* Whichever way the process ends (a failed malloc or open, or SIGINT at any
\* point of the loop), the hypervisor's per-VM environment is not left set
\* up: end_process always issues hypercall 14 through the open fd.
ChannelReleasedOnExit == pc = "exited" => chan # "active"

\* The debounce of lines 131-134: within a refresh cycle, the estimate is
\* reported exactly once if SAMPLE_TIMES ticks of that cycle were over
\* THRESHOLD, and not at all otherwise, whatever order the quiet and the
\* loud ticks came in (sample_times is reset only by the refresh).
ReportOncePerCycle ==
    pc \notin {"report", "exited"} =>
        reportsInCycle = IF overInCycle >= SAMPLE_TIMES THEN 1 ELSE 0

\* Every refresh cycle ends: the inner loop of line 111 runs out of
\* show_times, so the counters are reset again (hypercall 15), unless the
\* process exits.
CycleEnds == pc = "resample" ~> pc \in {"refresh", "exited"}

\* Spec section 4.4 with policy CONTINUE: a tick over THRESHOLD confirms,
\* and is reported, exactly when it ends a run of SAMPLE_TIMES consecutive
\* violations counted since the last report.
ReportIffConfirmed ==
    [][pc = "check" /\ total_diff > THRESHOLD =>
           (pc' = "report" <=> consecutive' >= SAMPLE_TIMES)]_vars

\* Spec section 7: a channel that could not be set up is fatal at session
\* start; no refresh, re-sample, copy or swap-count call is made on it.
\* Line 79 never looks at the init hypercall's ret.
NoCallOnUnsetChannel ==
    pc \in {"resample", "loop", "sum", "check", "report", "swapsum", "next"}
        => chan = "active"

=============================================================================
