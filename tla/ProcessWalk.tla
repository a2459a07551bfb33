---------------------------- MODULE ProcessWalk ----------------------------
(***************************************************************************)
(* main of src/all_walk_page.c, and src/tmp.c run beside it.               *)
(*                                                                         *)
(* all_walk_page opens libvmi on the guest, looks up the offsets of the    *)
(* task list, pauses the VM, opens privcmd, starts a registration          *)
(* (hypercall 5), reads the head of the guest's process list and follows  *)
(* its next pointers until it is back at the first entry it read; for      *)
(* every entry with a non-negative pid whose page-table root (DTB) is not  *)
(* 0 it registers that root with the hypervisor (hypercall 6).  It then    *)
(* resumes the VM and destroys the libvmi instance.  tmp.c is the manual   *)
(* tool: it either sets up the environment (hypercall 13) or registers     *)
(* the one address given on its command line (hypercall 6).                *)
(*                                                                         *)
(* The guest's memory is the constant list structure below: the VM is     *)
(* paused while the list is read.  A guest read that fails leaves its      *)
(* output variable as it was (the code never looks at the status).  Names, *)
(* the printfs, and the string read of line 110 apart from its failure    *)
(* are left out.                                                           *)
(***************************************************************************)
EXTENDS Integers, FiniteSets, Functions

CONSTANTS
    OsKinds,     \* what vmi_get_ostype may report: "LINUX", "WINDOWS"
    Nodes,       \* guest addresses of the list entries (tasks / ActiveProcessLinks)
    Null,        \* address 0
    Succ,        \* the next pointer stored at each entry
    InitLink,    \* the entry of init_task / PsInitialSystemProcess
    Procs,       \* the entries that are embedded in a process
    Pids,        \* 32-bit values a pid read can return
    PidOf,       \* the value read as the pid at each entry (line 133)
    Cr3s,        \* non-zero page-table roots
    DtbOf,       \* vmi_pid_to_dtb
    ToolAddrs,   \* strtoul(argv[2], NULL, 16) of tmp.c
    GuestFaults  \* guest reads may fail and offsets may be missing

ASSUME WalkAssumption ==
    /\ OsKinds # {} /\ OsKinds \subseteq {"LINUX", "WINDOWS"}
    /\ Null \notin Nodes
    /\ Succ \in [Nodes -> Nodes] /\ IsInjective(Succ)
    /\ InitLink \in Nodes /\ Procs \subseteq Nodes
    /\ Pids \subseteq Int /\ 0 \in Pids /\ PidOf \in [Nodes -> Pids]
    /\ Cr3s \subseteq Nat \ {0} /\ DtbOf \in [Pids -> Cr3s \cup {0}]
    /\ ToolAddrs \subseteq Nat
    /\ GuestFaults \in BOOLEAN

VARIABLES
    pc,        \* where main of all_walk_page is
    vm,        \* "running" or "paused"
    os,        \* vmi_get_ostype(vmi)
    tasksOk,   \* vmi_get_offset found tasks_offset
    np,        \* next_process
    lh,        \* list_head
    pid,
    issued,    \* the roots hypercall 6 was given, by either program
    broke,     \* the walk left its loop through the break of line 131
    toolPc     \* where tmp.c is

vars == <<pc, vm, os, tasksOk, np, lh, pid, issued, broke, toolPc>>

\* What a guest read into a variable holding old can leave there: the value
\* read, or, when reads may fail, the old value.
Reads(v, old) == IF GuestFaults THEN {v, old} ELSE {v}

\* Lines 20-34: next_process is not initialised, pid is 0.
Init ==
    /\ pc = "init"
    /\ vm = "running"
    /\ os \in OsKinds
    /\ tasksOk = FALSE
    /\ np \in Nodes \cup {Null}
    /\ lh = Null
    /\ pid = 0
    /\ issued = {}
    /\ broke = FALSE
    /\ toolPc = "open"

\* Lines 36-39: vmi_init; on failure exit(1).
VmiInit ==
    /\ pc = "init"
    /\ pc' \in {"offsets", "exited"}
    /\ UNCHANGED <<vm, os, tasksOk, np, lh, pid, issued, broke, toolPc>>

\* Lines 44-70: the offsets.  Only Windows checks them, and the checks of
\* lines 61 and 66 test tasks_offset again: only a missing tasks_offset
\* ends the run (goto error_exit, before the VM is paused).
Offsets ==
    /\ pc = "offsets"
    /\ tasksOk' \in IF GuestFaults THEN BOOLEAN ELSE {TRUE}
    /\ pc' = IF os = "WINDOWS" /\ ~tasksOk' THEN "cleanup" ELSE "pause"
    /\ UNCHANGED <<vm, os, np, lh, pid, issued, broke, toolPc>>

\* Lines 75-78: vmi_pause_vm; on failure goto error_exit.
Pause ==
    /\ pc = "pause"
    /\ \/ vm' = "paused" /\ pc' = "open"
       \/ pc' = "cleanup" /\ UNCHANGED vm
    /\ UNCHANGED <<os, tasksOk, np, lh, pid, issued, broke, toolPc>>

\* Lines 80-84: open privcmd; on failure exit(1), with the VM paused.
Open ==
    /\ pc = "open"
    /\ pc' \in {"start", "exited"}
    /\ UNCHANGED <<vm, os, tasksOk, np, lh, pid, issued, broke, toolPc>>

\* Lines 86-91: hypercall 5; its ret is not looked at.
Start ==
    /\ pc = "start"
    /\ pc' = "head"
    /\ UNCHANGED <<vm, os, tasksOk, np, lh, pid, issued, broke, toolPc>>

\* Lines 94-123: read the first entry's next pointer into next_process.
\* With tasks_offset 0 the read is of another field, and a failed read
\* leaves next_process uninitialised: either way it may hold any address.
\* Windows also reads the first process's pid and name; a failed name read
\* goes to error_exit.  list_head = next_process.
Head ==
    /\ pc = "head"
    /\ np' \in IF tasksOk THEN Reads(Succ[InitLink], np) ELSE Nodes \cup {Null}
    /\ IF os = "WINDOWS"
       THEN /\ pid' \in Reads(PidOf[InitLink], pid)
            /\ pc' \in IF GuestFaults THEN {"walk", "cleanup"} ELSE {"walk"}
       ELSE /\ pc' = "walk"
            /\ UNCHANGED pid
    /\ lh' = np'
    /\ UNCHANGED <<vm, os, tasksOk, issued, broke, toolPc>>

\* Mutant: the cr3 != 0 test of line 136 left out.
WalkNoZeroCheck ==
    /\ pc = "walk"
    /\ \E tmp \in IF np \in Nodes THEN Reads(Succ[np], Null) ELSE {Null} :
          IF tmp = lh
          THEN /\ pc' = "cleanup"
               /\ broke' = TRUE
               /\ UNCHANGED <<np, pid, issued>>
          ELSE /\ pid' \in IF np \in Nodes THEN Reads(PidOf[np], pid)
                                           ELSE {pid}
               /\ issued' = IF pid' >= 0 THEN issued \cup {DtbOf[pid']}
                            ELSE issued
               /\ np' = tmp
               /\ UNCHANGED <<pc, broke>>
    /\ UNCHANGED <<vm, os, tasksOk, lh, toolPc>>

\* Mutant: line 147 left out; next_process is never advanced.
WalkNoAdvance ==
    /\ pc = "walk"
    /\ \E tmp \in IF np \in Nodes THEN Reads(Succ[np], Null) ELSE {Null} :
          IF tmp = lh
          THEN /\ pc' = "cleanup"
               /\ broke' = TRUE
               /\ UNCHANGED <<np, pid, issued>>
          ELSE /\ pid' \in IF np \in Nodes THEN Reads(PidOf[np], pid)
                                           ELSE {pid}
               /\ issued' = IF pid' >= 0 /\ DtbOf[pid'] # 0
                            THEN issued \cup {DtbOf[pid']} ELSE issued
               /\ UNCHANGED <<pc, broke, np>>
    /\ UNCHANGED <<vm, os, tasksOk, lh, toolPc>>

\* Mutant: next_process advanced before the pid read (lines 133 and 147
\* swapped): the pid is read at the next entry.
WalkAdvanceFirst ==
    /\ pc = "walk"
    /\ \E tmp \in IF np \in Nodes THEN Reads(Succ[np], Null) ELSE {Null} :
          IF tmp = lh
          THEN /\ pc' = "cleanup"
               /\ broke' = TRUE
               /\ UNCHANGED <<np, pid, issued>>
          ELSE /\ pid' \in IF tmp \in Nodes THEN Reads(PidOf[tmp], pid)
                                            ELSE {pid}
               /\ issued' = IF pid' >= 0 /\ DtbOf[pid'] # 0
                            THEN issued \cup {DtbOf[pid']} ELSE issued
               /\ np' = tmp
               /\ UNCHANGED <<pc, broke>>
    /\ UNCHANGED <<vm, os, tasksOk, lh, toolPc>>

\* Lines 124-148: one iteration of the walk.  tmp_next starts at 0 and a
\* failed read leaves it so; a read at address 0 always fails.  Back at
\* list_head, break; else read the pid, register a non-zero DTB of a
\* non-negative pid (hypercall 6), and move on.
Walk ==
    /\ pc = "walk"
    /\ \E tmp \in IF np \in Nodes THEN Reads(Succ[np], Null) ELSE {Null} :
          IF tmp = lh
          THEN /\ pc' = "cleanup"
               /\ broke' = TRUE
               /\ UNCHANGED <<np, pid, issued>>
          ELSE /\ pid' \in IF np \in Nodes THEN Reads(PidOf[np], pid)
                                           ELSE {pid}
               /\ issued' = IF pid' >= 0 /\ DtbOf[pid'] # 0
                            THEN issued \cup {DtbOf[pid']} ELSE issued
               /\ np' = tmp
               /\ UNCHANGED <<pc, broke>>
    /\ UNCHANGED <<vm, os, tasksOk, lh, toolPc>>

\* Lines 150-158: error_exit: vmi_resume_vm, vmi_destroy, return 0.
Cleanup ==
    /\ pc = "cleanup"
    /\ vm' = "running"
    /\ pc' = "done"
    /\ UNCHANGED <<os, tasksOk, np, lh, pid, issued, broke, toolPc>>

\* tmp.c lines 41-45: open privcmd; on failure exit(1).
ToolOpen ==
    /\ toolPc = "open"
    /\ toolPc' \in {"call", "exited"}
    /\ UNCHANGED <<pc, vm, os, tasksOk, np, lh, pid, issued, broke>>

\* tmp.c lines 48-52: argv[3] = 1 sets up the environment (hypercall 13),
\* anything else registers the address of argv[2] (hypercall 6).
ToolCall ==
    /\ toolPc = "call"
    /\ toolPc' = "exited"
    /\ \/ UNCHANGED issued
       \/ \E a \in ToolAddrs : issued' = issued \cup {a}
    /\ UNCHANGED <<pc, vm, os, tasksOk, np, lh, pid, broke>>

\* The steps of all_walk_page, a single thread whose calls return.
WalkerStep == VmiInit \/ Offsets \/ Pause \/ Open \/ Start \/ Head \/ Walk \/ Cleanup

Next == WalkerStep \/ ToolOpen \/ ToolCall

Spec == Init /\ [][Next]_vars /\ WF_vars(WalkerStep)


-----------------------------------------------------------------------------
(***************************************************************************)
(* Properties                                                              *)
(***************************************************************************)
TypeOK ==
    /\ pc \in {"init", "offsets", "pause", "open", "start", "head", "walk",
               "cleanup", "done", "exited"}
    /\ vm \in {"running", "paused"}
    /\ os \in OsKinds
    /\ tasksOk \in BOOLEAN
    /\ np \in Nodes \cup {Null} /\ lh \in Nodes \cup {Null}
    /\ pid \in Pids
    /\ issued \subseteq Cr3s \cup ToolAddrs
    /\ broke \in BOOLEAN
    /\ toolPc \in {"open", "call", "exited"}

\* The entries of the guest's list, from the one next_process starts at:
\* the least set of entries that holds Succ[InitLink] and is closed under
\* the next pointer.
ListEntries ==
    {n \in Nodes :
       \A S \in SUBSET Nodes :
          (Succ[InitLink] \in S /\ \A x \in S : Succ[x] \in S) => n \in S}

\* An entry whose process all_walk_page would register: a process entry
\* with a non-negative pid and a non-zero DTB (lines 134-136).
Registrable(n) == n \in Procs /\ PidOf[n] >= 0 /\ DtbOf[PidOf[n]] # 0

\* all_walk_page pauses the guest for the walk: whichever way it ends, the
\* guest must be running again (error_exit, lines 150-152).
VmResumedOnExit == pc \in {"done", "exited"} => vm = "running"

\* The walk of lines 124-148 ends: next_process comes back round to the
\* entry before list_head, and the break of line 131 is taken.
WalkTerminates == pc = "walk" ~> pc = "done"

\* A walk that reached the break has registered the DTB of every process
\* on the list except the first (init_task / System), from which it
\* started and which the loop compares against rather than visits.
WalkRegistersList ==
    broke => \A n \in ListEntries \ {InitLink} :
                Registrable(n) => DtbOf[PidOf[n]] \in issued

=============================================================================
