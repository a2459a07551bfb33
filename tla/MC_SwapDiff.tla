----------------------------- MODULE MC_SwapDiff -----------------------------
(***************************************************************************)
(* Model-checking instance of SwapDiff: two CR3 values inside a 1 MiB      *)
(* guest and one beyond its memory (a PV-style root), small swap counts    *)
(* and a threshold scaled to them, unsigned long narrowed to 24 bits.      *)
(***************************************************************************)
EXTENDS SwapDiff

\* bound: how often one CR3 value is counted before exploration stops
MaxCount == 3

CountBound == \A x \in Indices : all_cr3[x] <= MaxCount

=============================================================================
