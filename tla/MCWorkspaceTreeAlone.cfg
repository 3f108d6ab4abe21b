CONSTANTS
    a = a
    b = b
    s1 = s1
    s2 = s2
    k1 = k1
    k2 = k2
    Name = {a, b}
    Depth = 2
    Chunk = {k1, k2}
    Shell = {s1}
    Ops = {"write", "append", "mkdir", "rm", "mv", "cp"}
    Place <- AllPlaces
    OnlyProper = TRUE
    Unreliable = FALSE
    Matches <- PlainMatches
    Respelt <- Moved
SYMMETRY Chunks
SPECIFICATION Spec
INVARIANTS TypeOK ResultAsSpecified ShapedUnlessMoving MoveSparesSource
