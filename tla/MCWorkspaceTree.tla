--------------------------- MODULE MCWorkspaceTree ---------------------------
(* Model values and symmetry for the TLC runs of WorkspaceTree. *)
EXTENDS WorkspaceTree, TLC

CONSTANTS a, b, s1, s2, k1, k2

\* Names without _, % and \ match what is below them.
PlainMatches(p, q) == p # Root /\ IsStrictPrefix(p, q)

\* Names that mean something in a pattern: a is \\% and b is \. With Depth = 2,
\* '/\\%/%' matches every path of two names, as \\ is a backslash and % is
\* anything; '/\/%' is '//%' and matches none, not even what is below /\.
OddMatches(p, q) == p = <<a>> /\ Len(q) = 2

\* Of the four characters of '/\\%' that are cut off: /\\%/x keeps /x, /\/\\%
\* keeps \%, which makes it /\\% below /\ and no path of the model below /\\%,
\* and /\/\ keeps nothing.
OddRespelt(q, from, to) ==
    CASE from = <<a>> /\ q = <<b, a>> -> IF to = <<b>> THEN <<a>> ELSE <<"other">>
      [] from = <<a>> /\ q = <<b, b>> -> to
      [] OTHER -> Moved(q, from, to)

AllPlaces  == Path \ {Root}
SomePlaces == {<<a>>, <<b>>, <<a, b>>}

Shells == Permutations({s1, s2})
Chunks == Permutations({k1, k2})

=============================================================================
