\* Guest reads succeed; vmi_init, the pause and both opens may fail.
CONSTANTS
    s = s
    p = p
    q = q
    h = h
    x = x
    y = y
    null = null
    OsKinds = {"LINUX", "WINDOWS"}
    Nodes <- MCNodes
    Null = null
    Succ <- MCSucc
    InitLink = s
    Procs = {s, p, q, x}
    Pids <- MCPids
    PidOf <- MCPidOf
    Cr3s = {4096, 8192, 12288, 16384}
    DtbOf <- MCDtbOf
    ToolAddrs = {12288}
    GuestFaults = FALSE
SPECIFICATION Spec
INVARIANTS TypeOK WalkRegistersList
PROPERTIES WalkTerminates
CHECK_DEADLOCK FALSE
