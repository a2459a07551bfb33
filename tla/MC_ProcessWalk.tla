--------------------------- MODULE MC_ProcessWalk ---------------------------
(***************************************************************************)
(* A Windows-shaped guest list for ProcessWalk: System (s), two processes  *)
(* (p, q) and the list head PsActiveProcessHead (h), which is not in a     *)
(* process and whose "pid" is whatever precedes it in memory.  q's DTB     *)
(* lookup returns 0, and h's pid is negative, so both guards of lines      *)
(* 134-136 are taken both ways.  x and y are a ring of the guest's memory  *)
(* that is not the process list (another kernel list through the same    *)
(* field), which a walk must never reach.                                 *)
(***************************************************************************)
EXTENDS ProcessWalk, TLC

CONSTANTS s, p, q, h, x, y, null

MCNodes == {s, p, q, h, x, y}
MCSucc == (s :> p) @@ (p :> q) @@ (q :> h) @@ (h :> s) @@ (x :> y) @@ (y :> x)
MCPids == {-1, 0, 4, 5, 7, 9}
MCPidOf == (s :> 4) @@ (p :> 7) @@ (q :> 9) @@ (h :> -1) @@ (x :> 5) @@ (y :> -1)
MCDtbOf == (-1 :> 0) @@ (0 :> 0) @@ (4 :> 4096) @@ (5 :> 16384) @@ (7 :> 8192) @@ (9 :> 0)

=============================================================================
