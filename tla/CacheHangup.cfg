SPECIFICATION CacheSpec
CONSTANTS
    h1 = h1  h2 = h2  c1 = c1  c2 = c2  acme = acme
    Keys = {h1}
    Callers = {c1, c2}
    Found = {acme}
    MaxEntries = 1
    TTL = 2
    NegativeTTL = 1
    Slowest = 1
    MaxTime = 2
INVARIANT OwnCancelOnly
