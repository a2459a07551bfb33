-------------------------- MODULE MC_MemoryCache --------------------------
(* TLC instance of MemoryCache: three pages as model values. *)
EXTENDS MemoryCache

CONSTANTS p1, p2, p3

MCPages == {p1, p2, p3}

=============================================================================
