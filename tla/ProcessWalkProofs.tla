------------------------- MODULE ProcessWalkProofs -------------------------
(***************************************************************************)
(* Proofs about all_walk_page: its state keeps its type for every guest    *)
(* list, every set of pids and roots, and with or without failing reads.   *)
(* When guest reads succeed, a finished walk has registered the root of    *)
(* every listed process but the first.                                     *)
(***************************************************************************)
EXTENDS ProcessWalk, TLAPS

\* The VM is paused from the privcmd open to the end of the walk.  It is
\* inductive together with the type invariant: the only steps that change
\* vm are the pause, which moves to "open" only when it succeeded, and the
\* cleanup, which leaves the walk.
PausedWhileWalking == pc \in {"open", "start", "head", "walk"} => vm = "paused"

IInv == TypeOK /\ PausedWhileWalking

USE WalkAssumption

\* An entry the walk is done with: it is registered if it is registrable.
Ok(n) == Registrable(n) => DtbOf[PidOf[n]] \in issued

\* With reads that succeed, tasks_offset is found before the pause.
TasksFound == pc \in {"pause", "open", "start", "head", "walk"} => tasksOk

\* While walking, next_process is an entry of the list, and the entries
\* visited so far form a set V without the first entry, every one of them
\* done, whose next pointers stay in V or lead to next_process, and which
\* holds list_head unless the walk is still there.
WalkFrontier ==
    pc = "walk" =>
       /\ np \in ListEntries
       /\ lh = Succ[InitLink]
       /\ \E V \in SUBSET (Nodes \ {InitLink}) :
             /\ \A x \in V : Ok(x) /\ Succ[x] \in V \cup {np}
             /\ lh \in V \cup {np}

\* The strengthening of WalkRegistersList for reads that succeed.
RInv == IInv /\ TasksFound /\ WalkFrontier /\ WalkRegistersList

\* A guest read leaves the value read or the old value.
LEMMA ReadsSub ==
    ASSUME NEW v, NEW old
    PROVE  Reads(v, old) \subseteq {v, old}
BY DEF Reads

LEMMA InitIInv == Init => IInv
BY DEF Init, IInv, TypeOK, PausedWhileWalking

LEMMA NextIInv == IInv /\ [Next]_vars => IInv'
<1> SUFFICES ASSUME IInv, [Next]_vars PROVE IInv'
    OBVIOUS
<1>0. TypeOK /\ PausedWhileWalking
    BY DEF IInv
<1>1. CASE VmiInit
    BY <1>1, <1>0 DEF VmiInit, IInv, TypeOK, PausedWhileWalking
<1>2. CASE Offsets
    BY <1>2, <1>0 DEF Offsets, IInv, TypeOK, PausedWhileWalking
<1>3. CASE Pause
    BY <1>3, <1>0 DEF Pause, IInv, TypeOK, PausedWhileWalking
<1>4. CASE Open
    BY <1>4, <1>0 DEF Open, IInv, TypeOK, PausedWhileWalking
<1>5. CASE Start
    BY <1>5, <1>0 DEF Start, IInv, TypeOK, PausedWhileWalking
<1>6. CASE Head
    <2>1. np' \in Nodes \cup {Null}
        <3>1. Reads(Succ[InitLink], np) \subseteq {Succ[InitLink], np}
            BY ReadsSub
        <3>. QED
            BY <3>1, <1>6, <1>0 DEF Head, TypeOK
    <2>2. pid' \in Pids
        <3>1. Reads(PidOf[InitLink], pid) \subseteq {PidOf[InitLink], pid}
            BY ReadsSub
        <3>. QED
            BY <3>1, <1>6, <1>0 DEF Head, TypeOK
    <2>3. pc' \in {"walk", "cleanup"} /\ vm' = vm /\ pc = "head"
        BY <1>6 DEF Head
    <2>. QED
        BY <2>1, <2>2, <2>3, <1>6, <1>0 DEF Head, IInv, TypeOK, PausedWhileWalking
<1>7. CASE Walk
    <2>1. PICK tmp \in IF np \in Nodes THEN Reads(Succ[np], Null) ELSE {Null} :
              IF tmp = lh
              THEN /\ pc' = "cleanup"
                   /\ broke' = TRUE
                   /\ UNCHANGED <<np, pid, issued>>
              ELSE /\ pid' \in IF np \in Nodes THEN Reads(PidOf[np], pid)
                                               ELSE {pid}
                   /\ issued' = IF pid' >= 0 /\ DtbOf[pid'] # 0
                                THEN issued \cup {DtbOf[pid']} ELSE issued
                   /\ np' = tmp
                   /\ UNCHANGED <<pc, broke>>
        BY <1>7 DEF Walk
    <2>2. tmp \in Nodes \cup {Null}
        <3>1. CASE np \in Nodes
            <4>1. Reads(Succ[np], Null) \subseteq {Succ[np], Null}
                BY ReadsSub
            <4>. QED
                BY <3>1, <4>1, <2>1
        <3>2. CASE np \notin Nodes
            BY <3>2, <2>1
        <3>. QED
            BY <3>1, <3>2
    <2>3. UNCHANGED <<vm, os, tasksOk, lh, toolPc>> /\ pc = "walk"
        BY <1>7 DEF Walk
    <2>4. CASE tmp = lh
        BY <2>1, <2>3, <2>4, <1>0 DEF IInv, TypeOK, PausedWhileWalking
    <2>5. CASE tmp # lh
        <3>1. pid' \in Pids
            <4>1. CASE np \in Nodes
                <5>1. Reads(PidOf[np], pid) \subseteq {PidOf[np], pid}
                    BY ReadsSub
                <5>. QED
                    BY <4>1, <5>1, <2>1, <2>5, <1>0 DEF TypeOK
            <4>2. CASE np \notin Nodes
                BY <4>2, <2>1, <2>5, <1>0 DEF TypeOK
            <4>. QED
                BY <4>1, <4>2
        <3>2. issued' \subseteq Cr3s \cup ToolAddrs
            BY <3>1, <2>1, <2>5, <1>0 DEF TypeOK
        <3>. QED
            BY <3>1, <3>2, <2>1, <2>2, <2>3, <2>5, <1>0
            DEF IInv, TypeOK, PausedWhileWalking
    <2>. QED
        BY <2>4, <2>5
<1>8. CASE Cleanup
    BY <1>8, <1>0 DEF Cleanup, IInv, TypeOK, PausedWhileWalking
<1>9. CASE ToolOpen
    BY <1>9, <1>0 DEF ToolOpen, IInv, TypeOK, PausedWhileWalking
<1>10. CASE ToolCall
    BY <1>10, <1>0 DEF ToolCall, IInv, TypeOK, PausedWhileWalking
<1>11. CASE UNCHANGED vars
    BY <1>11, <1>0 DEF vars, IInv, TypeOK, PausedWhileWalking
<1>. QED
    BY <1>1, <1>2, <1>3, <1>4, <1>5, <1>6, <1>7, <1>8, <1>9, <1>10, <1>11
    DEF Next, WalkerStep

\* ListEntries is contained in every set that holds the first entry read
\* and is closed under the next pointer.
LEMMA ListLeast ==
    ASSUME NEW S \in SUBSET Nodes,
           Succ[InitLink] \in S,
           \A x \in S : Succ[x] \in S
    PROVE  ListEntries \subseteq S
BY DEF ListEntries

\* The first entry read is on the list, and the list is closed under the
\* next pointer.
LEMMA ListHead == Succ[InitLink] \in ListEntries
BY DEF ListEntries

LEMMA ListClosed ==
    ASSUME NEW n \in ListEntries
    PROVE  Succ[n] \in ListEntries
BY DEF ListEntries

\* Registering more roots keeps an entry done.
LEMMA OkGrows ==
    ASSUME NEW n, issued \subseteq issued', Ok(n)
    PROVE  Ok(n)'
BY DEF Ok, Registrable

LEMMA InitRInv == Init => RInv
BY InitIInv DEF Init, RInv, TasksFound, WalkFrontier, WalkRegistersList

\* A step that leaves the walk's variables alone and only adds roots.
LEMMA QuietStep ==
    ASSUME RInv, IInv',
           UNCHANGED <<pc, tasksOk, np, lh, broke>>,
           issued \subseteq issued'
    PROVE  RInv'
<1>1. TasksFound'
    BY DEF RInv, TasksFound
<1>2. WalkFrontier'
    <2> SUFFICES ASSUME pc' = "walk"
                 PROVE  /\ np' \in ListEntries
                        /\ lh' = Succ[InitLink]
                        /\ \E V \in SUBSET (Nodes \ {InitLink}) :
                              /\ \A x \in V : Ok(x)' /\ Succ[x] \in V \cup {np'}
                              /\ lh' \in V \cup {np'}
        BY DEF WalkFrontier
    <2>1. PICK V \in SUBSET (Nodes \ {InitLink}) :
              /\ \A x \in V : Ok(x) /\ Succ[x] \in V \cup {np}
              /\ lh \in V \cup {np}
        BY DEF RInv, WalkFrontier
    <2>2. \A x \in V : Ok(x)'
        BY <2>1, OkGrows
    <2>. QED
        BY <2>1, <2>2 DEF RInv, WalkFrontier
<1>3. WalkRegistersList'
    <2> SUFFICES ASSUME broke', NEW n \in ListEntries \ {InitLink}
                 PROVE  Ok(n)'
        BY DEF WalkRegistersList, Ok, ListEntries
    <2>1. Ok(n)
        BY DEF RInv, WalkRegistersList, Ok
    <2>. QED
        BY <2>1, OkGrows
<1>. QED
    BY <1>1, <1>2, <1>3 DEF RInv

\* With reads that succeed every step keeps RInv.  The walk's step is the
\* one that matters: it either registers next_process and adds it to V, or
\* it is back at list_head, which by the injectivity of the next pointer
\* means next_process is the first entry, so V holds the whole list.
LEMMA NextRInv ==
    ASSUME ~GuestFaults
    PROVE  RInv /\ [Next]_vars => RInv'
<1> SUFFICES ASSUME RInv, [Next]_vars PROVE RInv'
    OBVIOUS
<1>0. IInv'
    BY NextIInv DEF RInv
<1>1. CASE VmiInit
    BY <1>0, <1>1 DEF VmiInit, RInv, TasksFound, WalkFrontier, WalkRegistersList
<1>2. CASE Offsets
    BY <1>0, <1>2 DEF Offsets, RInv, TasksFound, WalkFrontier, WalkRegistersList
<1>3. CASE Pause
    BY <1>0, <1>3 DEF Pause, RInv, TasksFound, WalkFrontier, WalkRegistersList
<1>4. CASE Open
    BY <1>0, <1>4 DEF Open, RInv, TasksFound, WalkFrontier, WalkRegistersList
<1>5. CASE Start
    BY <1>0, <1>5 DEF Start, RInv, TasksFound, WalkFrontier, WalkRegistersList
<1>6. CASE Head
    <2>1. tasksOk /\ pc = "head"
        BY <1>6 DEF Head, RInv, TasksFound
    <2>2. np' = Succ[InitLink] /\ lh' = np' /\ pc' = "walk"
        BY <1>6, <2>1 DEF Head, Reads
    <2>3. WalkFrontier'
        <3>1. {} \in SUBSET (Nodes \ {InitLink})
            OBVIOUS
        <3>. QED
            BY <2>2, <3>1, ListHead DEF WalkFrontier
    <2>. QED
        BY <1>0, <1>6, <2>1, <2>2, <2>3 DEF Head, RInv, TasksFound, WalkRegistersList
<1>7. CASE Walk
    <2>0. pc = "walk" /\ np \in ListEntries /\ lh = Succ[InitLink]
        BY <1>7 DEF Walk, RInv, WalkFrontier
    <2>1. pc = "walk" /\ np \in Nodes /\ lh = Succ[InitLink]
        BY <2>0 DEF ListEntries
    <2>2. PICK V \in SUBSET (Nodes \ {InitLink}) :
              /\ \A x \in V : Ok(x) /\ Succ[x] \in V \cup {np}
              /\ lh \in V \cup {np}
        BY <2>1 DEF RInv, WalkFrontier
    <2>3. PICK tmp \in {Succ[np]} :
              IF tmp = lh
              THEN /\ pc' = "cleanup"
                   /\ broke' = TRUE
                   /\ UNCHANGED <<np, pid, issued>>
              ELSE /\ pid' \in {PidOf[np]}
                   /\ issued' = IF pid' >= 0 /\ DtbOf[pid'] # 0
                                THEN issued \cup {DtbOf[pid']} ELSE issued
                   /\ np' = tmp
                   /\ UNCHANGED <<pc, broke>>
        BY <1>7, <2>1 DEF Walk, Reads
    <2>4. UNCHANGED <<tasksOk, lh>>
        BY <1>7 DEF Walk
    <2>5. CASE Succ[np] = lh
        <3>1. np = InitLink
            BY <2>1, <2>5 DEF IsInjective
        <3>2. ListEntries \subseteq V \cup {InitLink}
            <4>1. V \cup {InitLink} \in SUBSET Nodes
                BY <2>2
            <4>2. Succ[InitLink] \in V \cup {InitLink}
                BY <2>1, <2>2, <3>1
            <4>3. \A x \in V \cup {InitLink} : Succ[x] \in V \cup {InitLink}
                BY <2>1, <2>2, <3>1
            <4>. QED
                BY <4>1, <4>2, <4>3, ListLeast
        <3>3. WalkRegistersList'
            BY <2>2, <2>3, <2>5, <3>2 DEF WalkRegistersList, Ok
        <3>. QED
            BY <1>0, <2>3, <2>4, <2>5, <3>3 DEF RInv, TasksFound, WalkFrontier
    <2>6. CASE Succ[np] # lh
        <3>1. np # InitLink
            BY <2>1, <2>6
        <3>0. /\ pid' = PidOf[np]
              /\ issued' = IF pid' >= 0 /\ DtbOf[pid'] # 0
                           THEN issued \cup {DtbOf[pid']} ELSE issued
              /\ np' = Succ[np]
              /\ UNCHANGED <<pc, broke>>
            BY <2>3, <2>6
        <3>2. issued \subseteq issued' /\ \A x \in {np} : Ok(x)'
            <4>1. issued \subseteq issued'
                BY <3>0
            <4>2. PidOf[np] \in Int
                BY <2>1
            <4>3. Registrable(np) => DtbOf[PidOf[np]] \in issued'
                BY <3>0, <4>2 DEF Registrable
            <4>. QED
                BY <4>1, <4>3 DEF Ok
        <3>3. pc' = "walk" /\ np' = Succ[np] /\ np' \in ListEntries
            BY <2>0, <3>0, ListClosed
        <3>4. WalkFrontier'
            <4>1. V \cup {np} \in SUBSET (Nodes \ {InitLink})
                BY <2>1, <3>1
            <4>2. \A x \in V \cup {np} : Ok(x)' /\ Succ[x] \in (V \cup {np}) \cup {np'}
                <5>1. \A x \in V : Ok(x)'
                    BY <2>2, <3>2, OkGrows
                <5>2. \A x \in V : Succ[x] \in (V \cup {np}) \cup {np'}
                    BY <2>2
                <5>3. \A x \in {np} : Ok(x)' /\ Succ[x] \in (V \cup {np}) \cup {np'}
                    BY <3>2, <3>3
                <5>. QED
                    BY <5>1, <5>2, <5>3
            <4>3. lh' \in (V \cup {np}) \cup {np'}
                BY <2>2, <2>4
            <4>. QED
                BY <2>1, <2>4, <3>3, <4>1, <4>2, <4>3 DEF WalkFrontier
        <3>5. WalkRegistersList'
            <5>1. broke' => \A n \in ListEntries \ {InitLink} : Ok(n)
                BY <3>0 DEF RInv, WalkRegistersList, Ok
            <5>. QED
                BY <5>1, <3>2, OkGrows DEF WalkRegistersList, Ok
        <3>. QED
            <4>1. TasksFound'
                BY <2>1, <2>4, <3>3 DEF RInv, TasksFound
            <4>. QED
                BY <1>0, <4>1, <3>4, <3>5 DEF RInv
    <2>. QED
        BY <2>5, <2>6
<1>8. CASE Cleanup
    BY <1>0, <1>8 DEF Cleanup, RInv, TasksFound, WalkFrontier, WalkRegistersList
<1>9. CASE ToolOpen
    BY <1>0, <1>9, QuietStep DEF ToolOpen
<1>10. CASE ToolCall
    <2>1. issued \subseteq issued'
        BY <1>10 DEF ToolCall
    <2>. QED
        BY <1>0, <1>10, <2>1, QuietStep DEF ToolCall
<1>11. CASE UNCHANGED vars
    BY <1>0, <1>11, QuietStep DEF vars
<1>. QED
    BY <1>1, <1>2, <1>3, <1>4, <1>5, <1>6, <1>7, <1>8, <1>9, <1>10, <1>11
    DEF Next, WalkerStep

-----------------------------------------------------------------------------
\* The state of all_walk_page and tmp.c keeps its type; in particular only
\* non-zero roots the guest reports, or tmp.c's argument, reach hypercall 6.
THEOREM TypeCorrect == Spec => []TypeOK
<1>1. Spec => []IInv
    BY InitIInv, NextIInv, PTL DEF Spec
<1>. QED
    BY <1>1, PTL DEF IInv

LEMMA AlwaysRInv ==
    ASSUME ~GuestFaults
    PROVE  Spec => []RInv
BY InitRInv, NextRInv, PTL DEF Spec

-----------------------------------------------------------------------------
\* When guest reads succeed, a walk of all_walk_page that reaches the break
\* of line 131 has registered with hypercall 6 the root of every process on
\* the guest's list but the first, for every list shape the next pointers
\* can take (one cycle through the head, or several cycles).
THEOREM WalkRegisters ==
    ASSUME ~GuestFaults
    PROVE  Spec => []WalkRegistersList
BY AlwaysRInv, PTL DEF RInv

=============================================================================
