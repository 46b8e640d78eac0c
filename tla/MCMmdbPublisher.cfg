CONSTANTS
    l1 = l1
    l2 = l2
    s1 = s1
    s2 = s2
    s3 = s3
    s4 = s4
    Lookups = {l1, l2}
    Snapshots = {s1, s2, s3, s4}
    NoSnapshot = NoSnapshot
    MaxVersion = 2
SYMMETRY Symmetry
SPECIFICATION Spec
INVARIANT TypeOK
INVARIANT NoUseAfterClose
INVARIANT NoReaderLeak
INVARIANT ReaderInv
PROPERTY PathStaysOpenable
PROPERTY ServedNeverGoesBack
