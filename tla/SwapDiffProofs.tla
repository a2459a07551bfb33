---------------------------- MODULE SwapDiffProofs ----------------------------
(***************************************************************************)
(* Proofs about the swap_diff sampling loop: the type invariant, and that  *)
(* the loop implements the debounced detector of PressureDetector under    *)
(* the refinement mapping Detector of SwapDiff.                            *)
(***************************************************************************)
EXTENDS SwapDiff, TLAPS

(***************************************************************************)
(* The inductive invariant.  TypeOK alone is not inductive: the increment  *)
(* of times in Decide stays within 0..TIMES only because the loop has not  *)
(* broken yet, ranking reads new_cr3[i] only for a valid i, and the sum    *)
(* reads answer_cr3[i] only for a position i.  The last conjunct is what   *)
(* the refinement needs: during the warm-up iteration nothing is counted.  *)
(***************************************************************************)
IInv ==
    /\ TypeOK
    /\ pc = "count" => i >= 1
    /\ pc = "rank" => i \in 1 .. Len(new_cr3)
    /\ pc = "sum" => i \in Pos
    /\ pc \notin {"teardown", "done"} => times < TIMES
    /\ flag = 0 => times = 0 /\ tot_diff = 0

USE Cr3Assumption, PagesAssumption, SizeAssumption, ThresholdAssumption,
    SwapAssumption, WidthAssumption, FailAssumption

-----------------------------------------------------------------------------
(***************************************************************************)
(* Lemmas about the helpers.                                               *)
(***************************************************************************)

\* A snapshot is a finite sequence of CR3 values.
LEMMA SnapshotIsSeq ==
    ASSUME NEW s \in Snapshots
    PROVE  /\ s \in Seq(Cr3s)
           /\ \A k \in 1 .. Len(s) : s[k] \in Cr3s
<1>1. PICK n \in 0 .. MaxSnapshot : s \in [1 .. n -> Cr3s]
    BY DEF Snapshots
<1>2. s \in Seq(Cr3s)
    BY <1>1
<1>3. Len(s) = n
    BY <1>1, <1>2
<1>. QED
    BY <1>1, <1>2, <1>3

\* The watch list holds 0 or CR3 values.
LEMMA WatchListType ==
    ASSUME NEW top \in [TopPos -> {0} \cup Cr3s], NEW new \in Snapshots
    PROVE  WatchList(top, new) \in [Pos -> {0} \cup Cr3s]
<1>1. \A k \in 1 .. Len(new) : new[k] \in Cr3s
    BY SnapshotIsSeq
<1>. QED
    BY <1>1 DEF WatchList, Pos, TopPos, K, R

\* The watch list, before or after a walk, fits an unsigned long.
LEMMA WalkType ==
    ASSUME NEW list \in [Pos -> {0} \cup Cr3s],
           swapped \in [Cr3s -> 0 .. MaxSwap]
    PROVE  /\ Walk(list) \in [Pos -> 0 .. (ULongMod - 1)]
           /\ list \in [Pos -> 0 .. (ULongMod - 1)]
<1>1. \A p \in Pos : Walk(list)[p] \in 0 .. (ULongMod - 1)
    <2> TAKE p \in Pos
    <2>1. CASE list[p] \in Cr3s
        <3>1. swapped[list[p]] \in 0 .. MaxSwap
            BY <2>1
        <3>. QED
            BY <2>1, <3>1 DEF Walk
    <2>2. CASE list[p] \notin Cr3s
        BY <2>2 DEF Walk
    <2>. QED
        BY <2>1, <2>2
<1>2. \A p \in Pos : list[p] \in 0 .. (ULongMod - 1)
    <2> TAKE p \in Pos
    <2>1. list[p] \in {0} \cup Cr3s
        OBVIOUS
    <2>2. CASE list[p] = 0
        BY <2>2
    <2>3. CASE list[p] \in Cr3s
        <3>1. list[p] \in Nat
            BY <2>3, Cr3Assumption
        <3>2. list[p] < ULongMod
            BY <2>3, WidthAssumption
        <3>. QED
            BY <3>1, <3>2, WidthAssumption
    <2>. QED
        BY <2>1, <2>2, <2>3
<1>. QED
    BY <1>1, <1>2 DEF Walk

\* One ranking step keeps top_cr3 a table of 0 and CR3 values.
LEMMA RankTopType ==
    ASSUME NEW top \in [TopPos -> {0} \cup Cr3s], NEW jj \in TopPos,
           NEW cnt, NEW c \in Cr3s
    PROVE  RankTop(top, jj, cnt, c) \in [TopPos -> {0} \cup Cr3s]
BY DEF RankTop, TopPos, K

-----------------------------------------------------------------------------

\* The empty list is a snapshot (the copy hypercall reported nothing).
LEMMA EmptySnapshot == << >> \in Snapshots
<1>1. << >> \in [1 .. 0 -> Cr3s]
    OBVIOUS
<1>2. 0 \in 0 .. MaxSnapshot
    OBVIOUS
<1>. QED
    BY <1>1, <1>2 DEF Snapshots

LEMMA InitIInv == Init => IInv
BY EmptySnapshot DEF Init, IInv, TypeOK, TopPos, Pos, K, R

\* Every step of the loop keeps the inductive invariant.
LEMMA NextIInv == IInv /\ [Next]_vars => IInv'
<1> SUFFICES ASSUME IInv, [Next]_vars PROVE IInv'
    OBVIOUS
<1> USE DEF IInv, TypeOK
<1>1. CASE Setup
    BY <1>1 DEF Setup
<1>2. CASE Snapshot
    BY <1>2 DEF Snapshot
<1>3. CASE Count
    <2> DEFINE x == Cr3Index(new_cr3[i])
    <2>1. CASE x \in Indices
        <3>0. all_cr3' = [all_cr3 EXCEPT ![x] = all_cr3[x] + 1]
            BY <1>3, <2>1 DEF Count
        <3>1. all_cr3' \in [Indices -> Nat]
            BY <2>1, <3>0
        <3>2. i \in 1 .. Len(new_cr3)
            BY <1>3 DEF Count
        <3>. QED
            BY <1>3, <2>1, <3>1, <3>2 DEF Count, K
    <2>2. CASE x \notin Indices
        BY <1>3, <2>2 DEF Count
    <2>. QED
        BY <2>1, <2>2
<1>4. CASE Rank
    <2>1. CASE j >= 0
        <3>1. new_cr3[i] \in Cr3s
            BY <1>4, SnapshotIsSeq DEF Rank
        <3>2. j \in TopPos
            BY <1>4, <2>1 DEF TopPos, K
        <3>3. RankTop(top_cr3, j, all_cr3[Cr3Index(new_cr3[i])], new_cr3[i])
                \in [TopPos -> {0} \cup Cr3s]
            BY <3>1, <3>2, RankTopType
        <3>4. /\ top_cr3' = RankTop(top_cr3, j, all_cr3[Cr3Index(new_cr3[i])],
                                    new_cr3[i])
              /\ j' = j - 1
              /\ UNCHANGED <<i, pc, new_cr3>>
            BY <1>4, <2>1 DEF Rank
        <3>5. j' \in -1 .. (K - 1)
            BY <2>1, <3>4 DEF K
        <3>. QED
            BY <1>4, <3>3, <3>4, <3>5 DEF Rank
    <2>2. CASE ~(j >= 0)
        BY <1>4, <2>2 DEF Rank
    <2>. QED
        BY <2>1, <2>2
<1>5. CASE Walk1
    <2>1. WatchList(top_cr3, new_cr3) \in [Pos -> {0} \cup Cr3s]
        BY WatchListType
    <2>2. answer_cr3' \in [Pos -> 0 .. (ULongMod - 1)]
        BY <1>5, <2>1, WalkType DEF Walk1
    <2>. QED
        BY <1>5, <2>2 DEF Walk1
<1>6. CASE Sleep
    BY <1>6 DEF Sleep
<1>7. CASE Walk2
    <2>1. WatchList(top_cr3, new_cr3) \in [Pos -> {0} \cup Cr3s]
        BY WatchListType
    <2>2. answer_cr3' \in [Pos -> 0 .. (ULongMod - 1)]
        BY <1>7, <2>1, WalkType DEF Walk2
    <2>3. 0 \in Pos
        BY DEF Pos, K, R
    <2>. QED
        BY <1>7, <2>2, <2>3 DEF Walk2
<1>8. CASE Sum
    <2>1. i \in Pos
        BY <1>8 DEF Sum
    <2>2. Contribution(i) \in 0 .. ULongMod
        BY <2>1 DEF Contribution
    <2>3. tot_diff' \in 0 .. (ULongMod - 1)
        BY <1>8, <2>2 DEF Sum
    <2>4. flag = 0 => tot_diff' = 0
        BY <1>8 DEF Sum, Contribution
    <2>5. pc' = "sum" => i' \in Pos
        BY <1>8, <2>1 DEF Sum, Pos, K, R
    <2>. QED
        BY <1>8, <2>3, <2>4, <2>5 DEF Sum
<1>9. CASE Decide
    <2>1. times < TIMES
        BY <1>9 DEF Decide
    <2>2. times' \in 0 .. TIMES
        BY <1>9, <2>1 DEF Decide
    <2>3. flag = 0 => times' = 0
        BY <1>9 DEF Decide
    <2>4. pc' \notin {"teardown", "done"} => times' < TIMES
        BY <1>9 DEF Decide
    <2>5. flag' = 0 => times' = 0 /\ tot_diff' = 0
        BY <1>9, <2>3 DEF Decide
    <2>. QED
        BY <1>9, <2>2, <2>4, <2>5 DEF Decide
<1>10. CASE Teardown
    BY <1>10 DEF Teardown
<1>11. CASE UNCHANGED vars
    BY <1>11 DEF vars
<1>. QED
    BY <1>1, <1>2, <1>3, <1>4, <1>5, <1>6, <1>7, <1>8, <1>9, <1>10, <1>11
       DEF Next

\* TypeOK holds in every reachable state of the loop.
THEOREM TypeCorrect == Spec => []TypeOK
<1>1. Spec => []IInv
    BY InitIInv, NextIInv, PTL DEF Spec
<1>. QED
    BY <1>1, PTL DEF IInv

-----------------------------------------------------------------------------
(***************************************************************************)
(* Refinement: the loop implements PressureDetector under the mapping      *)
(* Detector.  Walk2 and each step of the sum are Sample steps, Decide is   *)
(* a Detect step, and every other step leaves the detector's state alone.  *)
(***************************************************************************)

\* The mapped detector state, as Detector defines it.
DState == IF flag = 0 THEN "WARMUP"
          ELSE IF times >= TIMES THEN "CONFIRMED" ELSE "MONITORING"

LEMMA InitRefines == Init => Detector!Init
BY DEF Init, Detector!Init

\* A step that touches none of flag, times, tot_diff and keeps pc on the
\* same side of {"sum", "decide"} is a detector stutter.
LEMMA StepRefines == IInv /\ [Next]_vars => [Detector!Next]_(Detector!vars)
<1> SUFFICES ASSUME IInv, [Next]_vars
             PROVE  [Detector!Next]_(Detector!vars)
    OBVIOUS
<1> USE DEF IInv, TypeOK
<1>0. ASSUME UNCHANGED <<flag, times, tot_diff>>,
             (pc \in {"sum", "decide"}) = (pc' \in {"sum", "decide"})
      PROVE  UNCHANGED Detector!vars
    BY <1>0 DEF Detector!vars
<1>1. CASE Setup
    BY <1>1, <1>0 DEF Setup
<1>2. CASE Snapshot
    BY <1>2, <1>0 DEF Snapshot
<1>3. CASE Count
    BY <1>3, <1>0 DEF Count
<1>4. CASE Rank
    BY <1>4, <1>0 DEF Rank
<1>5. CASE Walk1
    BY <1>5, <1>0 DEF Walk1
<1>6. CASE Sleep
    BY <1>6, <1>0 DEF Sleep
<1>7. CASE Walk2
    <2>1. DState # "CONFIRMED"
        BY <1>7 DEF Walk2, DState
    <2>2. Detector!Sample
        BY <1>7, <2>1 DEF Walk2, Detector!Sample, DState
    <2>. QED
        BY <2>2 DEF Detector!Next
<1>8. CASE Sum
    <2>1. DState # "CONFIRMED"
        BY <1>8 DEF Sum, DState
    <2>2. tot_diff' \in 0 .. (ULongMod - 1)
        BY <1>8, NextIInv DEF Sum
    <2>3. Detector!Sample
        BY <1>8, <2>1, <2>2 DEF Sum, Detector!Sample, DState
    <2>. QED
        BY <2>3 DEF Detector!Next
<1>9. CASE Decide
    <2>1. times < TIMES
        BY <1>9 DEF Decide
    <2>2. CASE flag = 0
        <3>1. tot_diff = 0 /\ times = 0
            BY <2>2
        <3>2. times' = 0 /\ pc' = "snapshot" /\ flag' = 1
            BY <1>9, <3>1 DEF Decide
        <3>3. Detector!DetectWarmup
            BY <1>9, <2>2, <3>1, <3>2 DEF Decide, Detector!DetectWarmup
        <3>. QED
            BY <3>3 DEF Detector!Next
    <2>3. CASE flag = 1 /\ tot_diff > THRESHOLD
        <3>1. times' = times + 1
            BY <1>9, <2>3 DEF Decide
        <3>2. times' >= TIMES => pc' = "teardown" /\ flag' = 1
            BY <1>9, <2>3 DEF Decide
        <3>3. ~(times' >= TIMES) => pc' = "snapshot" /\ flag' = 1
            BY <1>9, <2>3 DEF Decide
        <3>4. Detector!DetectViolation
            BY <1>9, <2>1, <2>3, <3>1, <3>2, <3>3
            DEF Decide, Detector!DetectViolation
        <3>. QED
            BY <3>4 DEF Detector!Next
    <2>4. CASE flag = 1 /\ ~(tot_diff > THRESHOLD)
        <3>1. times' = 0 /\ pc' = "snapshot" /\ flag' = 1
            BY <1>9, <2>4 DEF Decide
        <3>2. Detector!DetectQuiet
            BY <1>9, <2>1, <2>4, <3>1 DEF Decide, Detector!DetectQuiet
        <3>. QED
            BY <3>2 DEF Detector!Next
    <2>. QED
        BY <2>2, <2>3, <2>4
<1>10. CASE Teardown
    BY <1>10, <1>0 DEF Teardown
<1>11. CASE UNCHANGED vars
    BY <1>11, <1>0 DEF vars
<1>. QED
    BY <1>1, <1>2, <1>3, <1>4, <1>5, <1>6, <1>7, <1>8, <1>9, <1>10, <1>11
       DEF Next

\* The sampling loop implements the debounced detector of the design, for
\* every value of the constants: warm-up first, TIMES consecutive sums
\* above THRESHOLD confirm, a quiet sum clears the run, confirmation stops.
THEOREM Refinement == Spec => DetectorRefinement
<1>1. Spec => []IInv
    BY InitIInv, NextIInv, PTL DEF Spec
<1>2. []IInv /\ [][Next]_vars => [][Detector!Next]_(Detector!vars)
    BY StepRefines, PTL
<1>. QED
    BY <1>1, <1>2, InitRefines, PTL DEF Spec, DetectorRefinement, Detector!Spec

-----------------------------------------------------------------------------
(***************************************************************************)
(* The two walks of an iteration agree.  With walks that succeed, the      *)
(* first walk leaves in answer_cr3 the guest's counts at that moment for   *)
(* the watch list; the second walk keeps them in last_diff_swap_num and    *)
(* reads the counts after the sleep for the same list, since nothing      *)
(* between the two walks changes top_cr3 or new_cr3.                       *)
(***************************************************************************)

\* The watch list of this iteration, and what a walk of it reports when the
\* guest's counts are sw.
WL == WatchList(top_cr3, new_cr3)
CountsOf(sw) == [p \in Pos |-> IF WL[p] \in Cr3s THEN sw[WL[p]] ELSE 0]

WalksAgree ==
    /\ pc \in {"sleep", "walk2"} => answer_cr3 = CountsOf(swappedAtWalk1)
    /\ pc \in {"sum", "decide"} =>
          /\ last_diff_swap_num = CountsOf(swappedAtWalk1)
          /\ answer_cr3 = CountsOf(swapped)

WInv == IInv /\ WalksAgree

\* A successful walk reports the guest's current counts.
LEMMA WalkCounts == Walk(WL) = CountsOf(swapped)
BY DEF Walk, CountsOf

LEMMA InitWInv == Init => WInv
BY InitIInv DEF Init, WInv, WalksAgree

LEMMA NextWInv ==
    ASSUME ~WalkMayFail
    PROVE  WInv /\ [Next]_vars => WInv'
<1> SUFFICES ASSUME WInv, [Next]_vars PROVE WInv'
    OBVIOUS
<1>0. IInv'
    BY NextIInv DEF WInv
<1>1. CASE Walk1
    <2>1. answer_cr3' = Walk(WL) /\ swappedAtWalk1' = swapped /\ pc' = "sleep"
        BY <1>1 DEF Walk1, WL
    <2>2. WL' = WL
        BY <1>1 DEF Walk1, WL
    <2>3. CountsOf(swappedAtWalk1)' = CountsOf(swapped)
        BY <2>1, <2>2 DEF CountsOf
    <2>. QED
        BY <1>0, <2>1, <2>3, WalkCounts DEF WInv, WalksAgree
<1>2. CASE Sleep
    <2>1. UNCHANGED <<answer_cr3, swappedAtWalk1, top_cr3, new_cr3>> /\ pc' = "walk2"
        BY <1>2 DEF Sleep
    <2>2. CountsOf(swappedAtWalk1)' = CountsOf(swappedAtWalk1)
        BY <2>1 DEF CountsOf, WL
    <2>. QED
        BY <1>0, <1>2, <2>1, <2>2 DEF Sleep, WInv, WalksAgree
<1>3. CASE Walk2
    <2>1. /\ last_diff_swap_num' = answer_cr3
          /\ answer_cr3' = Walk(WL)
          /\ UNCHANGED <<swapped, swappedAtWalk1, top_cr3, new_cr3>>
          /\ pc' = "sum" /\ pc = "walk2"
        BY <1>3 DEF Walk2, WL
    <2>2. /\ CountsOf(swappedAtWalk1)' = CountsOf(swappedAtWalk1)
          /\ CountsOf(swapped)' = CountsOf(swapped)
        BY <2>1 DEF CountsOf, WL
    <2>. QED
        BY <1>0, <2>1, <2>2, WalkCounts DEF WInv, WalksAgree
<1>4. CASE Sum
    <2>1. /\ UNCHANGED <<answer_cr3, last_diff_swap_num, swapped,
                         swappedAtWalk1, top_cr3, new_cr3>>
          /\ pc' \in {"sum", "decide"} /\ pc = "sum"
        BY <1>4 DEF Sum
    <2>2. /\ CountsOf(swappedAtWalk1)' = CountsOf(swappedAtWalk1)
          /\ CountsOf(swapped)' = CountsOf(swapped)
        BY <2>1 DEF CountsOf, WL
    <2>. QED
        BY <1>0, <2>1, <2>2 DEF WInv, WalksAgree
<1>5. CASE UNCHANGED vars
    <2>1. /\ CountsOf(swappedAtWalk1)' = CountsOf(swappedAtWalk1)
          /\ CountsOf(swapped)' = CountsOf(swapped)
        BY <1>5 DEF vars, CountsOf, WL
    <2>. QED
        BY <1>0, <1>5, <2>1 DEF vars, WInv, WalksAgree
<1>6. CASE Setup \/ Snapshot \/ Count \/ Rank \/ Decide \/ Teardown
    <2>1. pc' \notin {"sleep", "walk2", "sum", "decide"}
        BY <1>6 DEF Setup, Snapshot, Count, Rank, Decide, Teardown
    <2>. QED
        BY <1>0, <2>1 DEF WInv, WalksAgree
<1>. QED
    BY <1>1, <1>2, <1>3, <1>4, <1>5, <1>6 DEF Next

\* Where the counts of both walks are the guest's, a position adds at most
\* its address space's increase.
LEMMA WInvTrueIncreases == WInv => TrueIncreases
<1> SUFFICES ASSUME WInv, pc \in {"sum", "decide"}, NEW p \in Pos
             PROVE  LET c == WatchList(top_cr3, new_cr3)[p]
                    IN  Contribution(p) <= IF c \in Cr3s THEN Increase(c) ELSE 0
    BY DEF TrueIncreases
<1>1. /\ last_diff_swap_num[p] = CountsOf(swappedAtWalk1)[p]
      /\ answer_cr3[p] = CountsOf(swapped)[p]
    BY DEF WInv, WalksAgree
<1>2. /\ swapped \in [Cr3s -> 0 .. MaxSwap]
      /\ swappedAtWalk1 \in [Cr3s -> 0 .. MaxSwap]
    BY DEF WInv, IInv, TypeOK
<1>3. CASE WL[p] \in Cr3s
    <2>1. /\ answer_cr3[p] = swapped[WL[p]]
          /\ last_diff_swap_num[p] = swappedAtWalk1[WL[p]]
        BY <1>1, <1>3 DEF CountsOf
    <2>2. swapped[WL[p]] \in Nat /\ swappedAtWalk1[WL[p]] \in Nat
        <3>1. swapped[WL[p]] \in 0 .. MaxSwap /\ swappedAtWalk1[WL[p]] \in 0 .. MaxSwap
            BY <1>2, <1>3
        <3>. QED
            BY <3>1, SwapAssumption
    <2>. QED
        BY <1>3, <2>1, <2>2 DEF Contribution, Increase, WL
<1>4. CASE WL[p] \notin Cr3s
    <2>1. answer_cr3[p] = 0 /\ last_diff_swap_num[p] = 0
        BY <1>1, <1>4 DEF CountsOf
    <2>. QED
        BY <1>4, <2>1 DEF Contribution, WL
<1>. QED
    BY <1>3, <1>4

\* With walks that succeed (the build's behaviour when the hypervisor
\* answers), every position the sum of lines 150-163 adds reports no more
\* than the real swap increase of the address space walked there, for every
\* watch-list size, threshold and bound on the counts.
THEOREM IncreasesAreTrue ==
    ASSUME ~WalkMayFail
    PROVE  Spec => []TrueIncreases
<1>1. Spec => []WInv
    BY InitWInv, NextWInv, PTL DEF Spec
<1>. QED
    BY <1>1, WInvTrueIncreases, PTL

=============================================================================
