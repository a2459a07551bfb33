---------------------------- MODULE MemoryCache ----------------------------
(***************************************************************************)
(* libvmi's page cache, src/libvmi-0.8/libvmi/driver/memory_cache.c, as    *)
(* built with ENABLE_PAGE_CACHE: a hash table from page address to entry,  *)
(* a GList of keys used for eviction (head = newest, last = oldest), and   *)
(* the counter memory_cache_size.  memory_cache_insert looks a page up; a  *)
(* hit older than memory_cache_age is re-read and its key prepended to the *)
(* list again; a miss first runs clean_cache when the counter has reached  *)
(* memory_cache_size_max, which pops keys from the tail until the counter  *)
(* is at most half the maximum and removes them from the table.           *)
(*                                                                         *)
(* The list keys are compared by pointer (g_list_remove at line 103), the  *)
(* table's by value (g_int64_equal): the list is a sequence of pages, and  *)
(* removing a page the list holds under another pointer removes nothing.  *)
(* The data an entry holds and last_used, which nothing reads, are left    *)
(* out, and so are the early returns that change nothing: a non-aligned    *)
(* page (lines 168-171) and a page past an HVM guest's memory, which       *)
(* create_new_entry refuses (lines 122-128, 183-186).                      *)
(***************************************************************************)
EXTENDS Integers, Sequences, FiniteSets, Functions

CONSTANTS
    Pages,                \* page-aligned physical addresses in the guest
    MAX_PAGE_CACHE_SIZE,  \* memory_cache_size_max
    age_limit,            \* memory_cache_age; 0 disables the refresh
    MaxTime               \* bound on time(NULL) in the model

ASSUME CacheAssumption ==
    /\ MAX_PAGE_CACHE_SIZE \in Nat
    /\ age_limit \in Nat
    /\ MaxTime \in Nat

VARIABLES
    table,    \* the hash table: page -> last_updated
    lru,      \* vmi->memory_cache_lru, newest first
    size,     \* vmi->memory_cache_size
    now,      \* time(NULL)
    alive,    \* memory_cache_destroy has not run
    crashed   \* clean_cache dereferenced g_list_last(NULL)

vars == <<table, lru, size, now, alive, crashed>>

\* Mutant: the loop of line 79 tests >= instead of >.
PopsAtLeast(sz, mx) == IF sz >= mx \div 2 THEN sz - mx \div 2 + 1 ELSE 0

\* The number of keys clean_cache pops when the maximum is mx (lines 79-86).
Pops(sz, mx) == IF sz > mx \div 2 THEN sz - mx \div 2 ELSE 0

\* The list after the last n keys are popped (g_list_remove_link of the
\* last element, n times), and the keys popped.
Kept(l, n) == SubSeq(l, 1, Len(l) - n)
Popped(l, n) == Range(SubSeq(l, Len(l) - n + 1, Len(l)))

\* Mutant: the g_list_foreach of line 87 left out; popped keys stay cached.
EvictNothing(tbl, gone) == tbl

\* The table after remove_entry of every popped key (lines 69-74, 87).
Evict(tbl, gone) == [q \in DOMAIN tbl \ gone |-> tbl[q]]

\* g_hash_table_insert of a new page.
Put(tbl, p, t) == [q \in DOMAIN tbl \cup {p} |-> IF q = p THEN t ELSE tbl[q]]

Init ==
    /\ table = << >>
    /\ lru = << >>
    /\ size = 0
    /\ now = 0
    /\ alive = TRUE
    /\ crashed = FALSE

\* Lines 175-178 and 92-108: a hit.  An entry older than age_limit is
\* re-read; g_list_remove is given a fresh pointer and removes nothing, and
\* the fresh key is prepended.
Hit ==
    /\ alive
    /\ \E p \in DOMAIN table :
          IF age_limit # 0 /\ now - table[p] > age_limit
          THEN /\ table' = [table EXCEPT ![p] = now]
               /\ lru' = <<p>> \o lru
          ELSE UNCHANGED <<table, lru>>
    /\ UNCHANGED <<size, now, alive, crashed>>

\* Mutant: the second key of lines 190-192 is not prepended.
MissNoKey ==
    /\ alive
    /\ \E p \in Pages \ DOMAIN table :
          LET n == IF size >= MAX_PAGE_CACHE_SIZE
                   THEN Pops(size, MAX_PAGE_CACHE_SIZE) ELSE 0
          IN  IF Len(lru) < n
              THEN /\ crashed' = TRUE
                   /\ alive' = FALSE
                   /\ UNCHANGED <<table, lru, size>>
              ELSE /\ table' = Put(Evict(table, Popped(lru, n)), p, now)
                   /\ lru' = Kept(lru, n)
                   /\ size' = size - n + 1
                   /\ UNCHANGED <<alive, crashed>>
    /\ UNCHANGED now

\* Lines 182-195 and 130-143: a miss.  clean_cache runs first when the
\* counter has reached the maximum; then the entry is inserted, a second
\* key is prepended and the counter incremented.  When the list runs out
\* before the counter is low enough, g_list_last returns NULL and line 82
\* dereferences it.
Miss ==
    /\ alive
    /\ \E p \in Pages \ DOMAIN table :
          LET n == IF size >= MAX_PAGE_CACHE_SIZE
                   THEN Pops(size, MAX_PAGE_CACHE_SIZE) ELSE 0
          IN  IF Len(lru) < n
              THEN /\ crashed' = TRUE
                   /\ alive' = FALSE
                   /\ UNCHANGED <<table, lru, size>>
              ELSE /\ table' = Put(Evict(table, Popped(lru, n)), p, now)
                   /\ lru' = <<p>> \o Kept(lru, n)
                   /\ size' = size - n + 1
                   /\ UNCHANGED <<alive, crashed>>
    /\ UNCHANGED now

\* time(NULL) advancing.
Tick ==
    /\ now < MaxTime
    /\ now' = now + 1
    /\ UNCHANGED <<table, lru, size, alive, crashed>>

\* Lines 205-211: clean_cache with a maximum of 0 pops memory_cache_size
\* keys; the maximum is then restored and the instance is not used again.
Destroy ==
    /\ alive
    /\ alive' = FALSE
    /\ LET n == Pops(size, 0)
       IN  IF Len(lru) < n
           THEN /\ crashed' = TRUE
                /\ UNCHANGED <<table, lru, size>>
           ELSE /\ table' = Evict(table, Popped(lru, n))
                /\ lru' = Kept(lru, n)
                /\ size' = size - n
                /\ UNCHANGED crashed
    /\ UNCHANGED now

Next == Hit \/ Miss \/ Tick \/ Destroy

Spec == Init /\ [][Next]_vars

-----------------------------------------------------------------------------
(***************************************************************************)
(* Properties                                                              *)
(***************************************************************************)

TypeOK ==
    /\ DOMAIN table \subseteq Pages
    /\ \A q \in DOMAIN table : table[q] \in 0 .. MaxTime
    /\ lru \in Seq(Pages)
    /\ size \in Nat
    /\ now \in 0 .. MaxTime
    /\ alive \in BOOLEAN
    /\ crashed \in BOOLEAN

\* clean_cache (lines 79-86) pops a key for every unit of memory_cache_size
\* above the target and never checks g_list_last for NULL: the list must
\* always hold at least memory_cache_size keys, through hits, refreshes,
\* misses, evictions and the final destroy.
NoNullDeref == ~crashed

\* Every cached page still has a key in the eviction list, so that
\* clean_cache can evict it: no entry is stranded in the table.
TableInLru == DOMAIN table \subseteq Range(lru)

\* The cache never holds more than memory_cache_size_max pages: each miss
\* at the maximum first evicts down to half of it (lines 139-141).
CacheBounded == Cardinality(DOMAIN table) <= MAX_PAGE_CACHE_SIZE

=============================================================================
