\* Two writers and a reader of one file, two kills or power losses.
SPECIFICATION Spec
CONSTANTS
    Writers = {w1, w2}
    Readers = {r1}
    Texts = {a, b}
    Mode = "0644"
    Inodes = {i1, i2, i3, i4}
    NoFile = NoFile
    MaxCrashes = 2
SYMMETRY Symmetry
INVARIANTS
    CrashSafe
    ReadsWhole
    NothingLeftBehind
PROPERTIES
    ImplementsDurableFile
