-------------------------- MODULE ScheduleSwapProofs --------------------------
(***************************************************************************)
(* Proofs about the SCHEDULE_SWAP loop: the type invariant, the debounce   *)
(* (one report per refresh cycle, after SAMPLE_TIMES loud ticks) and the   *)
(* release of the hypervisor's environment on every exit.                  *)
(***************************************************************************)
EXTENDS ScheduleSwap, TLAPS

\* The program points inside a refresh cycle, after hypercall 15.
InCycle == {"resample", "loop", "sum", "check", "report", "swapsum", "next"}

(***************************************************************************)
(* The inductive invariant.  sample_times counts down from SAMPLE_TIMES    *)
(* once per loud tick, so within a cycle overInCycle is SAMPLE_TIMES -     *)
(* sample_times, and a cycle of SHOW_TIMES ticks has at most as many loud  *)
(* ticks as ticks taken; the report starts only when sample_times has just *)
(* reached 0.  The channel conjuncts say that the fd is open whenever the  *)
(* environment may have been set up.                                       *)
(***************************************************************************)
IInv ==
    /\ TypeOK
    /\ pc \in InCycle => overInCycle = SAMPLE_TIMES - sample_times
    /\ pc \in {"resample", "loop"} => overInCycle <= SHOW_TIMES - show_times
    /\ pc \in {"sum", "check"} =>
           show_times >= 1 /\ overInCycle <= SHOW_TIMES - show_times
    /\ pc \in {"report", "swapsum", "next"} =>
           show_times >= 1 /\ overInCycle <= SHOW_TIMES - show_times + 1
    /\ pc = "report" => sample_times = 0 /\ reportsInCycle = 0
    /\ pc = "sum" => swap_diff \in Buffers(Deltas) /\ i <= Len(swap_diff) + 1
    /\ pc = "swapsum" =>
           swap_diff \in Buffers(SwapCounts) /\ i <= Len(swap_diff) + 1
    /\ ReportOncePerCycle
    /\ pc \in {"alloc", "open"} => chan = "idle"
    /\ pc \notin {"alloc", "open", "exited"} => fdOpen
    /\ ChannelReleasedOnExit


USE ScheduleAssumption

-----------------------------------------------------------------------------
\* What a copy hypercall leaves in swap_diff is a sequence of at most
\* MaxAry values.
LEMMA BufferIsSeq ==
    ASSUME NEW V, NEW b \in Buffers(V)
    PROVE  /\ b \in Seq(V)
           /\ Len(b) \in 0 .. MaxAry
           /\ \A k \in 1 .. Len(b) : b[k] \in V
<1>1. PICK n \in 0 .. MaxAry : b \in [1 .. n -> V]
    BY DEF Buffers
<1>2. b \in Seq(V)
    BY <1>1
<1>3. Len(b) = n
    BY <1>1, <1>2
<1>. QED
    BY <1>1, <1>2, <1>3

\* The empty buffer is a buffer of any values.
LEMMA EmptyBuffer ==
    ASSUME NEW V
    PROVE  << >> \in Buffers(V)
<1>1. << >> \in [1 .. 0 -> V]
    OBVIOUS
<1>. QED
    BY <1>1 DEF Buffers

LEMMA InitIInv == Init => IInv
<1> SUFFICES ASSUME Init PROVE IInv
    OBVIOUS
<1>1. << >> \in Buffers(Deltas)
    BY EmptyBuffer
<1>2. TypeOK
    <2>1. swap_diff \in Buffers(Deltas) \cup Buffers(SwapCounts)
        BY <1>1 DEF Init
    <2>2. sample_times \in (-SHOW_TIMES) .. SAMPLE_TIMES
        BY DEF Init
    <2>3. i \in 1 .. (MaxAry + 1)
        BY DEF Init
    <2>4. /\ total_diff \in 0 .. (ULongMod - 1)
          /\ tot_swap \in 0 .. (ULongMod - 1)
        BY DEF Init
    <2>5. /\ show_times \in 0 .. SHOW_TIMES
          /\ overInCycle \in 0 .. SHOW_TIMES
          /\ reportsInCycle \in 0 .. 1
          /\ consecutive \in Nat
        BY DEF Init
    <2>6. fdOpen \in BOOLEAN
        BY DEF Init
    <2>. QED
        BY <2>1, <2>2, <2>3, <2>4, <2>5, <2>6, Zenon DEF Init, TypeOK
<1>3. ReportOncePerCycle
    BY DEF Init, ReportOncePerCycle
<1>. QED
    BY <1>2, <1>3 DEF Init, IInv, ChannelReleasedOnExit, InCycle

\* Every step of main, and the signal handler, keeps the invariant.
LEMMA NextIInv == IInv /\ [Next]_vars => IInv'
<1> SUFFICES ASSUME IInv, [Next]_vars PROVE IInv'
    OBVIOUS
<1> USE DEF IInv, TypeOK, ReportOncePerCycle, ChannelReleasedOnExit, InCycle
<1>1. CASE Alloc
    BY <1>1 DEF Alloc, loopVars
<1>2. CASE Open
    BY <1>2 DEF Open, loopVars
<1>3. CASE InitEnv
    BY <1>3 DEF InitEnv, loopVars
<1>4. CASE Refresh
    BY <1>4 DEF Refresh
<1>5. CASE Resample
    BY <1>5 DEF Resample, loopVars
<1>6. CASE EndCycle
    BY <1>6 DEF EndCycle, loopVars
<1>7. CASE Copy
    <2>1. PICK b \in Buffers(Deltas) : swap_diff' = b
        BY <1>7 DEF Copy
    <2>2. Len(b) \in 0 .. MaxAry
        BY BufferIsSeq
    <2>. QED
        BY <1>7, <2>1, <2>2 DEF Copy
<1>8. CASE Sum
    <2>1. swap_diff \in Buffers(Deltas) /\ i <= Len(swap_diff) + 1
        BY <1>8 DEF Sum
    <2>2. Len(swap_diff) \in 0 .. MaxAry
          /\ \A k \in 1 .. Len(swap_diff) : swap_diff[k] \in Nat
        BY <2>1, BufferIsSeq
    <2>3. CASE i <= Len(swap_diff)
        <3>1. /\ total_diff' = (total_diff + swap_diff[i]) % ULongMod
              /\ i' = i + 1
              /\ UNCHANGED <<pc, swap_diff>>
            BY <1>8, <2>3 DEF Sum
        <3>2. swap_diff[i] \in Nat
            BY <2>2, <2>3
        <3>3. total_diff' \in 0 .. (ULongMod - 1)
            BY <3>1, <3>2
        <3>. QED
            BY <1>8, <2>1, <2>2, <2>3, <3>1, <3>3 DEF Sum
    <2>4. CASE ~(i <= Len(swap_diff))
        BY <1>8, <2>1, <2>4 DEF Sum
    <2>. QED
        BY <2>3, <2>4
<1>9. CASE Check
    <2>1. CASE total_diff > THRESHOLD
        BY <1>9, <2>1 DEF Check
    <2>2. CASE ~(total_diff > THRESHOLD)
        BY <1>9, <2>2 DEF Check
    <2>. QED
        BY <2>1, <2>2
<1>10. CASE Report
    <2>1. PICK b \in Buffers(SwapCounts) : swap_diff' = b
        BY <1>10 DEF Report
    <2>2. Len(b) \in 0 .. MaxAry
        BY BufferIsSeq
    <2>. QED
        BY <1>10, <2>1, <2>2 DEF Report
<1>11. CASE SwapSum
    <2>1. swap_diff \in Buffers(SwapCounts) /\ i <= Len(swap_diff) + 1
        BY <1>11 DEF SwapSum
    <2>2. Len(swap_diff) \in 0 .. MaxAry
          /\ \A k \in 1 .. Len(swap_diff) : swap_diff[k] \in Nat
        BY <2>1, BufferIsSeq
    <2>3. CASE i <= Len(swap_diff)
        <3>1. /\ tot_swap' = (tot_swap + swap_diff[i]) % ULongMod
              /\ i' = i + 1
              /\ UNCHANGED <<pc, swap_diff>>
            BY <1>11, <2>3 DEF SwapSum
        <3>2. swap_diff[i] \in Nat
            BY <2>2, <2>3
        <3>3. tot_swap' \in 0 .. (ULongMod - 1)
            BY <3>1, <3>2
        <3>. QED
            BY <1>11, <2>1, <2>2, <2>3, <3>1, <3>3 DEF SwapSum
    <2>4. CASE ~(i <= Len(swap_diff))
        BY <1>11, <2>1, <2>4 DEF SwapSum
    <2>. QED
        BY <2>3, <2>4
<1>12. CASE NextTick
    BY <1>12 DEF NextTick
<1>13. CASE Interrupt
    BY <1>13 DEF Interrupt, loopVars
<1>14. CASE UNCHANGED vars
    BY <1>14 DEF vars
<1>. QED
    BY <1>1, <1>2, <1>3, <1>4, <1>5, <1>6, <1>7, <1>8, <1>9, <1>10, <1>11,
       <1>12, <1>13, <1>14 DEF Next, MainStep

-----------------------------------------------------------------------------
\* Every reachable state of the SCHEDULE_SWAP loop is well typed: in
\* particular sample_times never runs below -SHOW_TIMES and i stays within
\* the ary_size entries the copy hypercalls returned.
THEOREM TypeCorrect == Spec => []TypeOK
<1>1. Spec => []IInv
    BY InitIInv, NextIInv, PTL DEF Spec
<1>. QED
    BY <1>1, PTL DEF IInv

\* For every value of the constants, the debounce of lines 131-134 reports
\* exactly once in a refresh cycle that had SAMPLE_TIMES ticks over
\* THRESHOLD, and never in one that had fewer.
THEOREM ReportsOncePerCycle == Spec => []ReportOncePerCycle
<1>1. Spec => []IInv
    BY InitIInv, NextIInv, PTL DEF Spec
<1>. QED
    BY <1>1, PTL DEF IInv

\* For every value of the constants, SIGINT at any point, a failed malloc
\* and a failed open all leave the hypervisor's environment released or
\* never set up.
THEOREM ChannelReleased == Spec => []ChannelReleasedOnExit
<1>1. Spec => []IInv
    BY InitIInv, NextIInv, PTL DEF Spec
<1>. QED
    BY <1>1, PTL DEF IInv

=============================================================================
