\* Three pages, room for two, entries re-read after more than one second.
CONSTANTS
    p1 = p1
    p2 = p2
    p3 = p3
    Pages <- MCPages
    MAX_PAGE_CACHE_SIZE = 2
    age_limit = 1
    MaxTime = 3
SPECIFICATION Spec
INVARIANTS TypeOK NoNullDeref TableInLru
CHECK_DEADLOCK FALSE
