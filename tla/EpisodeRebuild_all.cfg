\* One source, two workers, every interleaving of claims, changes, lapsing leases,
\* cancellations and restarts into other settings, of which one builds no episodes.
SPECIFICATION FairSpec
CONSTANTS
    s1 = s1  g1 = g1  g2 = g2
    Source = {s1}
    Worker = {w1, w2}
    Token = {t1, t2, t3}
    Generation = {g1, g2}
    Materialised <- MCMaterialised
    Empty = Empty
    None = None
    Lease = 2
    Debounce = 1
    MaxWait = 1
    MaxRetry = 2
    Backoff <- MCBackoff
    BatchLimit = 1
    MaxRevision = 2
INVARIANTS CleanMeansFresh StatusTruthful
PROPERTIES EventuallySettled LiveClaimRespected ImplementsEpisodeView
