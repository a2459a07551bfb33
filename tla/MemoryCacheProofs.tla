------------------------- MODULE MemoryCacheProofs -------------------------
(***************************************************************************)
(* Proofs about libvmi's page cache: clean_cache never runs out of keys,   *)
(* and every cached page keeps a key in the eviction list.                 *)
(***************************************************************************)
EXTENDS MemoryCache, TLAPS

(***************************************************************************)
(* The inductive invariant.  The list is at least as long as the counter:  *)
(* a miss adds one key and one to the counter, a refresh adds a key only,  *)
(* and clean_cache takes as many keys as it takes from the counter.  This  *)
(* is what makes every pop of clean_cache find a last element.             *)
(***************************************************************************)
IInv ==
    /\ TypeOK
    /\ size <= Len(lru)
    /\ NoNullDeref
    /\ TableInLru

USE CacheAssumption

-----------------------------------------------------------------------------
\* clean_cache pops between 0 and sz keys.
LEMMA PopsBound ==
    ASSUME NEW sz \in Nat, NEW mx \in Nat
    PROVE  Pops(sz, mx) \in 0 .. sz
BY DEF Pops

\* Popping the last n keys keeps a sequence of pages n shorter, and every
\* key of the list is either kept or popped.
LEMMA SplitList ==
    ASSUME NEW l \in Seq(Pages), NEW n \in 0 .. Len(l)
    PROVE  /\ Kept(l, n) \in Seq(Pages)
           /\ Len(Kept(l, n)) = Len(l) - n
           /\ Range(l) \subseteq Range(Kept(l, n)) \cup Popped(l, n)
<1>1. Kept(l, n) \in Seq(Pages) /\ Len(Kept(l, n)) = Len(l) - n
    BY DEF Kept
<1>2. ASSUME NEW k \in 1 .. Len(l)
      PROVE  l[k] \in Range(Kept(l, n)) \cup Popped(l, n)
    <2>1. CASE k <= Len(l) - n
        <3>1. Kept(l, n)[k] = l[k] /\ k \in DOMAIN Kept(l, n)
            BY <2>1, <1>1 DEF Kept
        <3>. QED
            BY <3>1 DEF Range
    <2>2. CASE k > Len(l) - n
        <3> DEFINE t == SubSeq(l, Len(l) - n + 1, Len(l))
        <3>1. k - (Len(l) - n) \in DOMAIN t /\ t[k - (Len(l) - n)] = l[k]
            BY <2>2
        <3>. QED
            BY <3>1 DEF Popped, Range
    <2>. QED
        BY <2>1, <2>2
<1>. QED
    BY <1>1, <1>2 DEF Range


\* Removing popped keys from the list and their entries from the table,
\* then adding a page p at the head, keeps every entry's key in the list.
LEMMA EvictKeepsKeys ==
    ASSUME NEW l \in Seq(Pages), NEW n \in 0 .. Len(l),
           NEW tbl, DOMAIN tbl \subseteq Range(l)
    PROVE  DOMAIN Evict(tbl, Popped(l, n)) \subseteq Range(Kept(l, n))
<1>1. Range(l) \subseteq Range(Kept(l, n)) \cup Popped(l, n)
    BY SplitList
<1>. QED
    BY <1>1 DEF Evict

-----------------------------------------------------------------------------
LEMMA InitIInv == Init => IInv
<1> SUFFICES ASSUME Init PROVE IInv
    OBVIOUS
<1>1. TypeOK
    <2>1. DOMAIN table = {}
        BY DEF Init
    <2>2. lru \in Seq(Pages)
        BY DEF Init
    <2>3. size \in Nat /\ now \in 0 .. MaxTime
        BY DEF Init
    <2>4. alive \in BOOLEAN /\ crashed \in BOOLEAN
        BY DEF Init
    <2>. QED
        BY <2>1, <2>2, <2>3, <2>4 DEF TypeOK
<1>2. TableInLru
    BY DEF Init, TableInLru
<1>. QED
    BY <1>1, <1>2 DEF Init, IInv, NoNullDeref

\* The pop of clean_cache, shared by a miss and by the destroy: n keys come
\* off a list at least n long, and the entries they name leave the table.
LEMMA PopStep ==
    ASSUME IInv, NEW n \in 0 .. size
    PROVE  /\ n \in 0 .. Len(lru)
           /\ Kept(lru, n) \in Seq(Pages)
           /\ Len(Kept(lru, n)) = Len(lru) - n
           /\ DOMAIN Evict(table, Popped(lru, n)) \subseteq Range(Kept(lru, n))
           /\ DOMAIN Evict(table, Popped(lru, n)) \subseteq DOMAIN table
           /\ \A q \in DOMAIN Evict(table, Popped(lru, n)) :
                 Evict(table, Popped(lru, n))[q] = table[q]
<1>1. n \in 0 .. Len(lru) /\ lru \in Seq(Pages)
    BY DEF IInv, TypeOK
<1>2. DOMAIN table \subseteq Range(lru)
    BY DEF IInv, TableInLru
<1>. QED
    BY <1>1, <1>2, SplitList, EvictKeepsKeys DEF Evict

\* Prepending a key (lines 106 and 192) keeps the list a list of pages one
\* longer, and the keys it held are still there.
LEMMA ConsList ==
    ASSUME NEW l \in Seq(Pages), NEW x \in Pages
    PROVE  /\ <<x>> \o l \in Seq(Pages)
           /\ Len(<<x>> \o l) = Len(l) + 1
           /\ Range(l) \cup {x} \subseteq Range(<<x>> \o l)
<1>1. <<x>> \o l \in Seq(Pages) /\ Len(<<x>> \o l) = Len(l) + 1
    OBVIOUS
<1>2. ASSUME NEW k \in 1 .. Len(l)
      PROVE  l[k] \in Range(<<x>> \o l)
    <2>1. k + 1 \in DOMAIN (<<x>> \o l) /\ (<<x>> \o l)[k + 1] = l[k]
        OBVIOUS
    <2>. QED
        BY <2>1 DEF Range
<1>3. x \in Range(<<x>> \o l)
    <2>1. 1 \in DOMAIN (<<x>> \o l) /\ (<<x>> \o l)[1] = x
        OBVIOUS
    <2>. QED
        BY <2>1 DEF Range
<1>. QED
    BY <1>1, <1>2, <1>3 DEF Range

LEMMA NextIInv == IInv /\ [Next]_vars => IInv'
<1> SUFFICES ASSUME IInv, [Next]_vars PROVE IInv'
    OBVIOUS
<1>0. /\ TypeOK /\ size <= Len(lru) /\ ~crashed /\ TableInLru
    BY DEF IInv, NoNullDeref
<1>1. CASE Hit
    <2>1. PICK p \in DOMAIN table :
              /\ IF age_limit # 0 /\ now - table[p] > age_limit
                 THEN /\ table' = [table EXCEPT ![p] = now]
                      /\ lru' = <<p>> \o lru
                 ELSE UNCHANGED <<table, lru>>
              /\ UNCHANGED <<size, now, alive, crashed>>
        BY <1>1 DEF Hit
    <2>2. CASE age_limit # 0 /\ now - table[p] > age_limit
        <3>1. table' = [table EXCEPT ![p] = now] /\ lru' = <<p>> \o lru
            BY <2>1, <2>2
        <3>2. p \in Pages /\ lru \in Seq(Pages)
            BY <1>0 DEF TypeOK
        <3>3. /\ lru' \in Seq(Pages)
              /\ Len(lru') = Len(lru) + 1
              /\ Range(lru) \subseteq Range(lru')
            BY <3>1, <3>2, ConsList
        <3>4. TypeOK'
            BY <3>1, <3>3, <2>1, <1>0 DEF TypeOK
        <3>5. TableInLru'
            BY <3>1, <3>3, <1>0 DEF TableInLru
        <3>6. size' <= Len(lru')
            BY <3>3, <2>1, <1>0 DEF TypeOK
        <3>7. NoNullDeref'
            BY <2>1, <1>0 DEF NoNullDeref
        <3>. QED
            BY <3>4, <3>5, <3>6, <3>7 DEF IInv
    <2>3. CASE ~(age_limit # 0 /\ now - table[p] > age_limit)
        BY <2>1, <2>3, <1>0 DEF IInv, TypeOK, NoNullDeref, TableInLru
    <2>. QED
        BY <2>2, <2>3
<1>2. CASE Miss
    <2> DEFINE n == IF size >= MAX_PAGE_CACHE_SIZE
                    THEN Pops(size, MAX_PAGE_CACHE_SIZE) ELSE 0
    <2>1. n \in 0 .. size
        <3>1. size \in Nat
            BY <1>0 DEF TypeOK
        <3>2. Pops(size, MAX_PAGE_CACHE_SIZE) \in 0 .. size
            BY <3>1, PopsBound
        <3>. QED
            BY <3>1, <3>2
    <2>2. n \in 0 .. Len(lru)
        BY <2>1, <1>0 DEF TypeOK
    <2>3. PICK p \in Pages \ DOMAIN table :
              IF Len(lru) < n
              THEN /\ crashed' = TRUE
                   /\ alive' = FALSE
                   /\ UNCHANGED <<table, lru, size>>
              ELSE /\ table' = Put(Evict(table, Popped(lru, n)), p, now)
                   /\ lru' = <<p>> \o Kept(lru, n)
                   /\ size' = size - n + 1
                   /\ UNCHANGED <<alive, crashed>>
        BY <1>2 DEF Miss
    <2>4. /\ table' = Put(Evict(table, Popped(lru, n)), p, now)
          /\ lru' = <<p>> \o Kept(lru, n)
          /\ size' = size - n + 1
          /\ UNCHANGED <<alive, crashed>>
        BY <2>2, <2>3
    <2>5. UNCHANGED now
        BY <1>2 DEF Miss
    <2>6. /\ Kept(lru, n) \in Seq(Pages)
          /\ Len(Kept(lru, n)) = Len(lru) - n
          /\ DOMAIN Evict(table, Popped(lru, n)) \subseteq Range(Kept(lru, n))
          /\ DOMAIN Evict(table, Popped(lru, n)) \subseteq DOMAIN table
          /\ \A q \in DOMAIN Evict(table, Popped(lru, n)) :
                Evict(table, Popped(lru, n))[q] = table[q]
        BY <2>1, PopStep
    <2>7. /\ lru' \in Seq(Pages)
          /\ Len(lru') = Len(lru) - n + 1
          /\ Range(Kept(lru, n)) \cup {p} \subseteq Range(lru')
        BY <2>4, <2>6, ConsList
    <2>8. DOMAIN table' = DOMAIN Evict(table, Popped(lru, n)) \cup {p}
        BY <2>4 DEF Put
    <2>9. TypeOK'
        <3>1. DOMAIN table' \subseteq Pages
            BY <2>8, <2>6, <1>0 DEF TypeOK
        <3>2. \A q \in DOMAIN table' : table'[q] \in 0 .. MaxTime
            BY <2>4, <2>5, <2>6, <2>8, <1>0 DEF TypeOK, Put
        <3>3. size' \in Nat
            BY <2>4, <2>1, <1>0 DEF TypeOK
        <3>4. now' \in 0 .. MaxTime /\ alive' \in BOOLEAN /\ crashed' \in BOOLEAN
            BY <2>4, <2>5, <1>0 DEF TypeOK
        <3>. QED
            BY <3>1, <3>2, <3>3, <3>4, <2>7 DEF TypeOK
    <2>10. TableInLru'
        BY <2>7, <2>8, <2>6 DEF TableInLru
    <2>11. size' <= Len(lru')
        BY <2>1, <2>4, <2>7, <1>0 DEF TypeOK
    <2>12. NoNullDeref'
        BY <2>4, <1>0 DEF NoNullDeref
    <2>. QED
        BY <2>9, <2>10, <2>11, <2>12 DEF IInv
<1>3. CASE Tick
    BY <1>3, <1>0 DEF Tick, IInv, TypeOK, NoNullDeref, TableInLru
<1>4. CASE Destroy
    <2> DEFINE n == Pops(size, 0)
    <2>1. n \in 0 .. size
        <3>1. size \in Nat
            BY <1>0 DEF TypeOK
        <3>. QED
            BY <3>1, PopsBound
    <2>2. n \in 0 .. Len(lru)
        BY <2>1, <1>0 DEF TypeOK
    <2>3. /\ table' = Evict(table, Popped(lru, n))
          /\ lru' = Kept(lru, n)
          /\ size' = size - n
          /\ alive' = FALSE
          /\ UNCHANGED <<crashed, now>>
        BY <1>4, <2>2 DEF Destroy
    <2>4. /\ Kept(lru, n) \in Seq(Pages)
          /\ Len(Kept(lru, n)) = Len(lru) - n
          /\ DOMAIN Evict(table, Popped(lru, n)) \subseteq Range(Kept(lru, n))
          /\ DOMAIN Evict(table, Popped(lru, n)) \subseteq DOMAIN table
          /\ \A q \in DOMAIN Evict(table, Popped(lru, n)) :
                Evict(table, Popped(lru, n))[q] = table[q]
        BY <2>1, PopStep
    <2>5. TypeOK'
        <3>1. DOMAIN table' \subseteq Pages
            BY <2>3, <2>4, <1>0 DEF TypeOK
        <3>2. \A q \in DOMAIN table' : table'[q] \in 0 .. MaxTime
            BY <2>3, <2>4, <1>0 DEF TypeOK
        <3>3. size' \in Nat
            BY <2>3, <2>1, <1>0 DEF TypeOK
        <3>4. now' \in 0 .. MaxTime /\ alive' \in BOOLEAN /\ crashed' \in BOOLEAN
            BY <2>3, <1>0 DEF TypeOK
        <3>. QED
            BY <3>1, <3>2, <3>3, <3>4, <2>3, <2>4 DEF TypeOK
    <2>6. TableInLru'
        BY <2>3, <2>4 DEF TableInLru
    <2>7. size' <= Len(lru')
        BY <2>1, <2>3, <2>4, <1>0 DEF TypeOK
    <2>8. NoNullDeref'
        BY <2>3, <1>0 DEF NoNullDeref
    <2>. QED
        BY <2>5, <2>6, <2>7, <2>8 DEF IInv
<1>5. CASE UNCHANGED vars
    BY <1>5, <1>0 DEF vars, IInv, TypeOK, NoNullDeref, TableInLru
<1>. QED
    BY <1>1, <1>2, <1>3, <1>4, <1>5 DEF Next

-----------------------------------------------------------------------------
\* clean_cache never calls g_list_last on an empty list: in every reachable
\* state of the cache, whatever its maximum, age and pages, no miss and no
\* destroy dereferences NULL.
THEOREM NoNullDereference == Spec => []NoNullDeref
<1>1. Spec => []IInv
    BY InitIInv, NextIInv, PTL DEF Spec
<1>. QED
    BY <1>1, PTL DEF IInv

\* Every page memory_cache_insert caches keeps a key in the eviction list,
\* through refreshes, misses, evictions and the destroy.
THEOREM KeysCoverTable == Spec => []TableInLru
<1>1. Spec => []IInv
    BY InitIInv, NextIInv, PTL DEF Spec
<1>. QED
    BY <1>1, PTL DEF IInv

\* The cache's state keeps its type.
THEOREM TypeCorrect == Spec => []TypeOK
<1>1. Spec => []IInv
    BY InitIInv, NextIInv, PTL DEF Spec
<1>. QED
    BY <1>1, PTL DEF IInv

=============================================================================
