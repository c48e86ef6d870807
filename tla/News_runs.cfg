\* Two overlapping runs, a refused article between two good ones, failing downloads,
\* crashes, Redis coming and going.  No symmetry (liveness).
CONSTANTS
    Urls = {1, 2, 3}
    Bad = {2}
    Tasks = {t1, t2}
SPECIFICATION FairSpec
INVARIANTS TypeOK OneRow StoredIsScored SkippedHasReason
PROPERTIES AllStored
