\* privcmd may fail to open after the VM was paused (line 83).
CONSTANTS
    s = s
    p = p
    q = q
    h = h
    x = x
    y = y
    null = null
    OsKinds = {"LINUX", "WINDOWS"}
    Nodes <- MCNodes
    Null = null
    Succ <- MCSucc
    InitLink = s
    Procs = {s, p, q, x}
    Pids <- MCPids
    PidOf <- MCPidOf
    Cr3s = {4096, 8192, 12288, 16384}
    DtbOf <- MCDtbOf
    ToolAddrs = {12288}
    GuestFaults = FALSE
SPECIFICATION Spec
INVARIANT VmResumedOnExit
CHECK_DEADLOCK FALSE
