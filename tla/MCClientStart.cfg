SPECIFICATION Spec
CONSTANTS
    t1 = t1
    t2 = t2
    out = out
    c1 = c1
    c2 = c2
    c3 = c3
    Unset = Unset
    Blank = Blank
    NoClient = NoClient
    Threads = {t1, t2, out}
    Inside = {t1, t2}
    Clients = {c1, c2, c3}
    Journaled = {c1, c2, c3}
    base_url <- BaseUrls
    api_key <- ApiKeys
    tenant <- Tenants
    CacheLimit = 1
INVARIANTS
    AutomaticOnce
    SharedByPrincipal
PROPERTY StartLeadsToReplay
\* The runtime may be gone and every client constructed.
CHECK_DEADLOCK FALSE
