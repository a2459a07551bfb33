\* As MC_MemoryCache.cfg: does the cache stay within its maximum?
CONSTANTS
    p1 = p1
    p2 = p2
    p3 = p3
    Pages <- MCPages
    MAX_PAGE_CACHE_SIZE = 2
    age_limit = 1
    MaxTime = 3
SPECIFICATION Spec
INVARIANT CacheBounded
CHECK_DEADLOCK FALSE
