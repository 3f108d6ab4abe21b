CONSTANTS
    a = a
    b = b
    s1 = s1
    s2 = s2
    k1 = k1
    k2 = k2
    Name = {a, b}
    Depth = 2
    Chunk = {k1}
    Shell = {s1, s2}
    Ops = {"write", "mkdir", "rm", "mv"}
    Place <- SomePlaces
    OnlyProper = TRUE
    Unreliable = TRUE
    Matches <- OddMatches
    Respelt <- OddRespelt
SYMMETRY Shells
SPECIFICATION Spec
PROPERTIES OthersUntouched CreatesAreExclusive
