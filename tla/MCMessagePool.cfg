CONSTANTS
    Handles = {h1, h2, h3}
    Types = {t1, t2}
    Messages = {m1, m2, m3, m4}
    BucketLimit = 2
    Data = {d}
    None = None
SPECIFICATION Spec
SYMMETRY Symmetry
INVARIANTS OneHolder ReusedAsNew
