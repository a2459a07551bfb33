--------------------------- MODULE PressureDetector ---------------------------
(***************************************************************************)
(* What the sampling loop promises, after section 4.4 of the design: each  *)
(* tick the sampler produces a totalDelta; the detector discards the first *)
(* one (WARMUP), then counts consecutive ticks whose totalDelta exceeds    *)
(* Threshold and confirms a bottleneck once ConfirmationThreshold of them  *)
(* follow each other.  Under policy STOP, CONFIRMED is final; under        *)
(* CONTINUE, the count is cleared and monitoring resumes.                  *)
(*                                                                         *)
(* The sampler's accumulation is the action Sample, which may refine the   *)
(* running total several times before Detect consumes it.                  *)
(***************************************************************************)
EXTENDS Naturals

CONSTANTS
    Threshold,             \* totalDelta above this is a violation
    ConfirmationThreshold, \* consecutive violations that confirm
    OnConfirmed,           \* "STOP" or "CONTINUE"
    Deltas                 \* the values a totalDelta can take

\* Threshold is a natural, ConfirmationThreshold a positive natural, Deltas a
\* set of naturals holding 0, OnConfirmed one of "STOP" and "CONTINUE".

VARIABLES
    state,                 \* "WARMUP", "MONITORING" or "CONFIRMED"
    consecutiveViolations,
    totalDelta,            \* the total collected for the pending tick
    sampled                \* a total was collected and not yet consumed

vars == <<state, consecutiveViolations, totalDelta, sampled>>

Init ==
    /\ state = "WARMUP"
    /\ consecutiveViolations = 0
    /\ totalDelta = 0
    /\ sampled = FALSE

\* The sampler collects (part of) the next tick's total.
Sample ==
    /\ state # "CONFIRMED"
    /\ totalDelta' \in Deltas
    /\ sampled' = TRUE
    /\ UNCHANGED <<state, consecutiveViolations>>

\* The first tick is discarded whatever its total.
DetectWarmup ==
    /\ sampled
    /\ state = "WARMUP"
    /\ state' = "MONITORING"
    /\ sampled' = FALSE
    /\ UNCHANGED <<consecutiveViolations, totalDelta>>

\* A tick above the threshold extends the run of violations.
DetectViolation ==
    /\ sampled
    /\ state = "MONITORING"
    /\ totalDelta > Threshold
    /\ consecutiveViolations' = consecutiveViolations + 1
    /\ state' = IF consecutiveViolations' >= ConfirmationThreshold
                THEN "CONFIRMED" ELSE "MONITORING"
    /\ sampled' = FALSE
    /\ UNCHANGED totalDelta

\* A tick at or below the threshold clears the run.
DetectQuiet ==
    /\ sampled
    /\ state = "MONITORING"
    /\ totalDelta <= Threshold
    /\ consecutiveViolations' = 0
    /\ sampled' = FALSE
    /\ UNCHANGED <<state, totalDelta>>

\* Policy CONTINUE: after the event, resume monitoring from zero.
Resume ==
    /\ state = "CONFIRMED"
    /\ OnConfirmed = "CONTINUE"
    /\ state' = "MONITORING"
    /\ consecutiveViolations' = 0
    /\ UNCHANGED <<totalDelta, sampled>>

Next == Sample \/ DetectWarmup \/ DetectViolation \/ DetectQuiet \/ Resume

Spec == Init /\ [][Next]_vars

=============================================================================
