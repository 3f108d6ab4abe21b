------------------------------ MODULE FileTree ------------------------------
(***************************************************************************)
(* What the operations of a file system do to a tree of files, each taken  *)
(* as one indivisible step: the reference WorkspaceTree is compared with.  *)
(***************************************************************************)
EXTENDS Integers, FiniteSets, SequencesExt

CONSTANTS
    Name,     \* names of directory entries
    Depth,    \* length of the longest path
    Chunk     \* distinguishable pieces of content

ASSUME TreeAssumption == Depth \in Nat \ {0} /\ IsFiniteSet(Name)

Root == <<>>
Path == SeqOf(Name, Depth)
Text == (SUBSET Chunk) \ {{}}

Absent     == [kind |-> "none", text |-> {}]
Dir        == [kind |-> "dir", text |-> {}]
File(text) == [kind |-> "file", text |-> text]
Node       == {Absent, Dir} \cup {File(text) : text \in Text}
Tree       == [Path -> Node]

Parent(p)   == SubSeq(p, 1, Len(p) - 1)
Above(p)    == {q \in Path : IsStrictPrefix(q, p)}
Within(p)   == {q \in Path : IsPrefix(p, q)}
Moved(q, from, to) == to \o SubSeq(q, Len(from) + 1, Len(q))

Is(t, p, kind) == t[p].kind = kind
Children(t, p) == {q \in Path : q # Root /\ Parent(q) = p /\ ~Is(t, q, "none")}

\* A tree: below every node but the root is a directory.
Shaped(t) ==
    /\ t[Root] = Dir
    /\ \A p \in Path \ {Root} : ~Is(t, p, "none") => Is(t, Parent(p), "dir")

\* A call has an operation, a path, for cp and mv a destination, a piece of
\* content for the writes, and the option recursive (-r, -p).
Call(op, at, to, chunk, recursive) ==
    [op |-> op, at |-> at, to |-> to, chunk |-> chunk, recursive |-> recursive]

Target(c) == IF c.op \in {"mv", "cp"} THEN c.to ELSE c.at

\* What fails, and so leaves the tree as it is.
Fails(c, t) ==
    CASE c.op \in {"write", "append"} -> Is(t, c.at, "dir")
      [] c.op = "mkdir" /\ c.recursive -> Is(t, c.at, "file")
      [] c.op = "mkdir" /\ ~c.recursive -> ~Is(t, Parent(c.at), "dir") \/ ~Is(t, c.at, "none")
      [] c.op = "rm" -> \/ Is(t, c.at, "none")
                        \/ ~c.recursive /\ Children(t, c.at) # {}
      [] c.op = "mv" -> Is(t, c.at, "none")
      [] c.op = "cp" -> Is(t, c.at, "none") \/ (Is(t, c.at, "dir") /\ ~c.recursive)

WithParents(t, p) ==
    [q \in Path |-> IF q \in Above(p) /\ Is(t, q, "none") THEN Dir ELSE t[q]]

\* The nodes below from, put below to: keep says what stays where to has it.
Grafted(t, from, to, keep(_)) ==
    [q \in Path |->
        IF q \in Within(to) /\ ~keep(q) THEN
            LET source == Moved(q, to, from)
            IN  IF source \in Path THEN t[source] ELSE Absent
        ELSE WithParents(t, to)[q]]

Effect(c, t) ==
    CASE c.op = "write" ->
            [WithParents(t, c.at) EXCEPT ![c.at] = File({c.chunk})]
      [] c.op = "append" ->
            [WithParents(t, c.at) EXCEPT ![c.at] = File(@.text \cup {c.chunk})]
      [] c.op = "mkdir" ->
            [WithParents(t, c.at) EXCEPT ![c.at] = Dir]
      [] c.op = "rm" ->
            [q \in Path |-> IF q \in Within(c.at) THEN Absent ELSE t[q]]
      [] c.op = "mv" ->
            LET grafted == Grafted(t, c.at, c.to, LAMBDA q : FALSE)
            IN  [q \in Path |-> IF q \in Within(c.at) THEN Absent ELSE grafted[q]]
      [] c.op = "cp" ->
            Grafted(t, c.at, c.to,
                    LAMBDA q : Moved(q, c.to, c.at) \notin Path
                               \/ Is(t, Moved(q, c.to, c.at), "none"))

Result(c, t) == IF Fails(c, t) THEN t ELSE Effect(c, t)

\* Calls whose outcome POSIX and the shell agree on: no file among the
\* directories of the target, and for mv and cp two separate places of which
\* the second can take what the first holds.
Proper(c, t) ==
    /\ \A q \in Above(Target(c)) : ~Is(t, q, "file")
    /\ c.op \in {"mv", "cp"} =>
        /\ ~IsPrefix(c.at, c.to) /\ ~IsPrefix(c.to, c.at)
        /\ Is(t, c.at, "file") => ~Is(t, c.to, "dir")
        /\ Is(t, c.at, "dir") => ~Is(t, c.to, "file")
        /\ c.op = "mv" => Children(t, c.to) = {}
        /\ \A q \in Within(c.at) : LET r == Moved(q, c.at, c.to) IN
              ~Is(t, q, "none") /\ ~Is(t, r, "none") => t[q].kind = t[r].kind

=============================================================================
