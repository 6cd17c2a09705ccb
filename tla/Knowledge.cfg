SPECIFICATION MCSpec
CONSTANTS
    Worker = {w1, w2}
    Source = {s1, s2, s3}
    Blank = {s3}
    File = {d1}
    Folder = {f1}
    None = None
SYMMETRY MCSymmetry
INVARIANTS
    WorkedOn IndexedIsWhole RowsPerFile OriginalsOwned CacheObeysFolders
