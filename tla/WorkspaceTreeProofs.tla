-------------------------- MODULE WorkspaceTreeProofs --------------------------
(***************************************************************************)
(* Proofs about WorkspaceTree, for any names and patterns, any depth of    *)
(* the tree and any number of shells. What a theorem about one shell       *)
(* assumes beyond that is LoneShell, further down.                         *)
(***************************************************************************)
EXTENDS WorkspaceTree, SequenceTheorems, FiniteSetTheorems, TLAPS

-----------------------------------------------------------------------------
(* Paths *)

LEMMA PathFacts == \A p : p \in Path <=> p \in Seq(Name) /\ Len(p) <= Depth
<1>1. ASSUME NEW p \in Path PROVE p \in Seq(Name) /\ Len(p) <= Depth
    <2>1. PICK m \in 0..Depth : p \in [1..m -> Name]
        BY DEF Path, SeqOf
    <2>2. m \in Nat /\ m <= Depth
        BY <2>1, TreeAssumption
    <2>3. p \in Seq(Name)
        BY <2>1, <2>2, SeqDef
    <2>4. Len(p) = m
        BY <2>1, <2>2, <2>3, LenProperties
    <2>5. QED
        BY <2>2, <2>3, <2>4
<1>2. ASSUME NEW p \in Seq(Name), Len(p) <= Depth PROVE p \in Path
    <2>1. Len(p) \in 0..Depth /\ p \in [1..Len(p) -> Name]
        BY <1>2, LenProperties, TreeAssumption
    <2>2. QED
        BY <2>1 DEF Path, SeqOf
<1>3. QED
    BY <1>1, <1>2

LEMMA IsPath == ASSUME NEW p \in Seq(Name), Len(p) <= Depth PROVE p \in Path
BY PathFacts

LEMMA PathType ==
    ASSUME NEW p \in Path
    PROVE  /\ p \in Seq(Name) /\ Len(p) \in Nat /\ Len(p) <= Depth
           /\ \A i \in 1..Len(p) : p[i] \in Name
           /\ p # Root => Len(p) >= 1
BY PathFacts, LenProperties, EmptySeq DEF Root

LEMMA SamePath ==
    ASSUME NEW p \in Path, NEW q \in Path, Len(p) = Len(q), \A i \in 1..Len(p) : p[i] = q[i]
    PROVE  p = q
BY PathType, SeqEqual

LEMMA RootFacts == Root \in Path /\ Len(Root) = 0 /\ \A p \in Path : Len(p) = 0 => p = Root
<1>1. Root \in Path /\ Len(Root) = 0
    <2>1. PICK e : e = <<>>
        OBVIOUS
    <2>2. e \in Seq(Name) /\ Len(e) = 0 /\ 0 <= Depth
        BY <2>1, EmptySeq, TreeAssumption
    <2>3. e \in Path
        BY <2>2, IsPath
    <2>4. QED
        BY <2>1, <2>2, <2>3 DEF Root
<1>2. QED
    BY <1>1, PathType

\* The first n names of a path.
LEMMA FrontFacts ==
    ASSUME NEW p \in Path, NEW n \in 0..Len(p)
    PROVE  /\ SubSeq(p, 1, n) \in Path /\ Len(SubSeq(p, 1, n)) = n
           /\ \A i \in 1..n : SubSeq(p, 1, n)[i] = p[i]
<1>1. p \in Seq(Name) /\ Len(p) \in Nat /\ Len(p) <= Depth /\ \A i \in 1..n : p[i] \in Name
    BY PathType
<1>2. /\ SubSeq(p, 1, n) \in Seq(Name)
      /\ Len(SubSeq(p, 1, n)) = IF 1 <= n THEN n - 1 + 1 ELSE 0
      /\ \A i \in 1..n - 1 + 1 : SubSeq(p, 1, n)[i] = p[1 + i - 1]
    BY <1>1, SubSeqProperties
<1> DEFINE f == SubSeq(p, 1, n)
<1> HIDE DEF f
<1>3. f \in Seq(Name) /\ Len(f) = n /\ \A i \in 1..n : f[i] = p[i]
    BY <1>1, <1>2 DEF f
<1>4. f \in Path
    <2>1. Len(f) <= Depth
        BY <1>1, <1>3, TreeAssumption
    <2>2. QED
        BY <1>3, <2>1, IsPath
<1>5. QED
    BY <1>3, <1>4 DEF f

LEMMA PrefixFacts ==
    ASSUME NEW p \in Path, NEW q \in Path
    PROVE  /\ IsPrefix(p, q) <=> Len(p) <= Len(q) /\ \A i \in 1..Len(p) : p[i] = q[i]
           /\ IsPrefix(p, q) /\ p # q => Len(p) < Len(q)
<1>1. Len(p) \in Nat /\ Len(q) \in Nat
    BY PathType
<1>2. ASSUME Len(p) <= Len(q)
      PROVE  SubSeq(p, 1, Len(p)) = SubSeq(q, 1, Len(p)) <=> \A i \in 1..Len(p) : p[i] = q[i]
    <2>1. /\ SubSeq(p, 1, Len(p)) \in Path /\ Len(SubSeq(p, 1, Len(p))) = Len(p)
          /\ \A i \in 1..Len(p) : SubSeq(p, 1, Len(p))[i] = p[i]
        BY <1>1, FrontFacts
    <2>2. /\ SubSeq(q, 1, Len(p)) \in Path /\ Len(SubSeq(q, 1, Len(p))) = Len(p)
          /\ \A i \in 1..Len(p) : SubSeq(q, 1, Len(p))[i] = q[i]
        BY <1>1, <1>2, FrontFacts
    <2> DEFINE f == SubSeq(p, 1, Len(p))
               g == SubSeq(q, 1, Len(p))
    <2> HIDE DEF f, g
    <2>3. f = g <=> \A i \in 1..Len(p) : p[i] = q[i]
        BY <2>1, <2>2, SamePath DEF f, g
    <2>4. QED
        BY <2>3 DEF f, g
<1>3. IsPrefix(p, q) <=> Len(p) <= Len(q) /\ \A i \in 1..Len(p) : p[i] = q[i]
    BY <1>2 DEF IsPrefix
<1>4. IsPrefix(p, q) /\ p # q => Len(p) < Len(q)
    BY <1>1, <1>3, SamePath
<1>5. QED
    BY <1>3, <1>4

LEMMA MovedFacts ==
    ASSUME NEW q \in Path, NEW from \in Path, NEW to \in Path, Len(from) <= Len(q)
    PROVE  /\ Moved(q, from, to) \in Seq(Name)
           /\ Len(Moved(q, from, to)) = Len(to) + (Len(q) - Len(from))
           /\ \A i \in 1..Len(to) : Moved(q, from, to)[i] = to[i]
           /\ \A i \in Len(to) + 1..Len(to) + (Len(q) - Len(from)) :
                 Moved(q, from, to)[i] = q[i - Len(to) + Len(from)]
<1>1. /\ Len(q) \in Nat /\ Len(from) \in Nat /\ Len(to) \in Nat /\ Len(from) <= Len(q)
      /\ to \in Seq(Name) /\ \A i \in 1..Len(q) : q[i] \in Name
    BY PathType
<1> DEFINE m == Len(from) + 1
           t == SubSeq(q, m, Len(q))
<1>2. /\ t \in Seq(Name) /\ Len(t) = IF m <= Len(q) THEN Len(q) - m + 1 ELSE 0
      /\ \A i \in 1..Len(q) - m + 1 : t[i] = q[m + i - 1]
    BY <1>1, SubSeqProperties
<1> HIDE DEF t
<1>3. Len(t) = Len(q) - Len(from) /\ \A i \in 1..Len(q) - Len(from) : t[i] = q[Len(from) + i]
    BY <1>1, <1>2
<1>4. /\ to \o t \in Seq(Name) /\ Len(to \o t) = Len(to) + Len(t)
      /\ \A i \in 1..Len(to) + Len(t) : (to \o t)[i] = IF i <= Len(to) THEN to[i] ELSE t[i - Len(to)]
    BY <1>1, <1>2, ConcatProperties
<1> DEFINE r == to \o t
<1> HIDE DEF r
<1>5. /\ r \in Seq(Name) /\ Len(r) = Len(to) + (Len(q) - Len(from))
      /\ \A i \in 1..Len(to) : r[i] = to[i]
      /\ \A i \in Len(to) + 1..Len(to) + (Len(q) - Len(from)) : r[i] = q[i - Len(to) + Len(from)]
    <2>1. /\ r \in Seq(Name) /\ Len(r) = Len(to) + Len(t)
          /\ \A i \in 1..Len(to) + Len(t) : r[i] = IF i <= Len(to) THEN to[i] ELSE t[i - Len(to)]
        BY <1>4 DEF r
    <2>2. \A i \in Len(to) + 1..Len(to) + (Len(q) - Len(from)) :
              i - Len(to) \in 1..Len(q) - Len(from) /\ ~(i <= Len(to)) /\ i \in 1..Len(to) + Len(t)
              /\ Len(from) + (i - Len(to)) = i - Len(to) + Len(from)
        BY <1>1, <1>3
    <2>3. \A i \in Len(to) + 1..Len(to) + (Len(q) - Len(from)) : r[i] = q[i - Len(to) + Len(from)]
        <3> SUFFICES ASSUME NEW i \in Len(to) + 1..Len(to) + (Len(q) - Len(from))
                     PROVE  r[i] = q[i - Len(to) + Len(from)]
            OBVIOUS
        <3>1. PICK k : k = i - Len(to)
            OBVIOUS
        <3>2. k \in 1..Len(q) - Len(from) /\ r[i] = t[k]
            BY <2>1, <2>2, <3>1
        <3>3. t[k] = q[Len(from) + k]
            BY <1>3, <3>2
        <3>4. Len(from) + k = i - Len(to) + Len(from)
            BY <2>2, <3>1
        <3>5. QED
            BY <3>2, <3>3, <3>4
    <2>4. \A i \in 1..Len(to) : r[i] = to[i]
        <3>1. \A i \in 1..Len(to) : i \in 1..Len(to) + Len(t) /\ i <= Len(to)
            BY <1>1, <1>3
        <3>2. QED
            BY <2>1, <3>1
    <2>5. r \in Seq(Name) /\ Len(r) = Len(to) + (Len(q) - Len(from))
        BY ONLY <1>3, <2>1
    <2>6. QED
        BY ONLY <2>3, <2>4, <2>5
<1>6. Moved(q, from, to) = r
    BY DEF Moved, r, t
<1>7. QED
    BY <1>5, <1>6

-----------------------------------------------------------------------------
(* Nodes, calls and statements *)

LEMMA NodeFacts ==
    /\ Absent \in Node /\ Dir \in Node /\ Absent.kind = "none" /\ Dir.kind = "dir"
    /\ \A text : File(text).kind = "file" /\ File(text).text = text /\ (text \in Text => File(text) \in Node)
    /\ \A n \in Node : /\ n.kind \in {"none", "dir", "file"}
                       /\ n.kind = "none" <=> n = Absent
                       /\ n.kind = "dir" <=> n = Dir
                       /\ n.kind = "file" <=> n \notin {Absent, Dir}
                       /\ n.kind = "file" => n.text \in Text /\ n = File(n.text)
<1>1. /\ Absent \in Node /\ Dir \in Node /\ Absent.kind = "none" /\ Dir.kind = "dir"
      /\ \A text : File(text).kind = "file" /\ File(text).text = text /\ (text \in Text => File(text) \in Node)
    BY DEF Node, Absent, Dir, File
<1>2. ASSUME NEW n \in Node
      PROVE  n = Absent \/ n = Dir \/ \E text \in Text : n = File(text)
    BY DEF Node
<1>3. \A text : File(text) # Absent /\ File(text) # Dir
    BY DEF File, Absent, Dir
<1>4. QED
    BY <1>1, <1>2, <1>3

LEMMA TextFacts ==
    /\ \A k \in Chunk : {k} \in Text
    /\ \A k \in Chunk : \A text \in Text : text \cup {k} \in Text
<1>1. \A k \in Chunk : {k} \subseteq Chunk /\ {k} # {}
    OBVIOUS
<1>2. \A k \in Chunk : \A text \in SUBSET Chunk : text \cup {k} \subseteq Chunk /\ text \cup {k} # {}
    OBVIOUS
<1>3. QED
    BY <1>1, <1>2 DEF Text

Stmts == [do: Verbs, at: Path, to: Path, node: Node]

\* The statements an operation may be made of.
Plan(c) == {st \in Stmts :
    /\ st.do = "call" => st.at = c.at
    /\ st.do \in {"parent", "level"} => st.at \in Above(Target(c)) \cup Within(Target(c))
    /\ st.do \in {"create", "createOrUpdate", "update", "copyTo", "rewrite", "deleteRow",
                  "sweep", "rmdir", "deleteDir", "deleteFile"} => st.at \in Within(Target(c))
    /\ st.do \in {"createOrUpdate", "update", "copyTo", "rewrite"} => st.node.kind = "file"
    /\ st.do = "deleteBelow" => c.op = "rm" /\ st.at = c.at
    /\ st.do \in {"copyDir", "list"} => Len(st.to) <= Len(st.at) /\ st.to \in Within(Target(c))
    /\ st.do \in {"rename", "renameBelow"} => c.op = "mv" /\ st.at = c.at /\ st.to = c.to}

TypeInv ==
    /\ row \in Tree /\ before \in Tree
    /\ call \in [Shell -> Requests \cup {Nothing}] /\ failed \in [Shell -> BOOLEAN]
    /\ todo \in [Shell -> Seq(Stmts)]
    /\ \A s \in Shell : todo[s] \in Seq(Plan(call[s])) /\ (call[s] = Nothing => todo[s] = <<>>)

LEMMA StmtFacts ==
    ASSUME NEW do \in Verbs, NEW p \in Path, NEW q \in Path, NEW n \in Node
    PROVE  /\ Stmt(do, p, q, n) \in Stmts
           /\ Stmt(do, p, q, n).do = do /\ Stmt(do, p, q, n).at = p
           /\ Stmt(do, p, q, n).to = q /\ Stmt(do, p, q, n).node = n
BY DEF Stmts, Stmt

LEMMA RequestFacts ==
    ASSUME NEW c \in Requests
    PROVE  /\ c.op \in Operation /\ c.at \in Path /\ c.at # Root /\ c.to \in Path /\ c.to # Root
           /\ c.chunk \in Chunk /\ c.recursive \in BOOLEAN
           /\ c.op \in {"mv", "cp"} => Len(c.to) <= Len(c.at)
           /\ Target(c) \in Path /\ Target(c) # Root
           /\ c # Nothing
<1>1. c \in Calls /\ Used(c)
    BY DEF Requests
<1>2. PICK op \in Ops, at \in Place, to \in Place, chunk \in Chunk, recursive \in BOOLEAN :
          c = [op |-> op, at |-> at, to |-> to, chunk |-> chunk, recursive |-> recursive]
    BY <1>1 DEF Calls, Call
<1>3. /\ c.op \in Operation /\ c.at \in Path /\ c.at # Root /\ c.to \in Path /\ c.to # Root
      /\ c.chunk \in Chunk /\ c.recursive \in BOOLEAN
    BY <1>2, ShellAssumption
<1>4. c # Nothing
    BY <1>3 DEF Nothing, Call, Operation
<1>5. QED
    BY <1>1, <1>3, <1>4 DEF Used, Target

LEMMA WithinFacts ==
    ASSUME NEW p \in Path
    PROVE  /\ p \in Within(p)
           /\ \A n \in 0..Len(p) - 1 : SubSeq(p, 1, n) \in Above(p)
           /\ \A q \in Above(p) : q \in Path /\ Len(q) < Len(p)
           /\ \A q \in Within(p) : q \in Path /\ Len(p) <= Len(q)
<1>1. Len(p) \in Nat
    BY PathType
<1>2. p \in Within(p)
    BY <1>1, PrefixFacts DEF Within
<1>3. ASSUME NEW n \in 0..Len(p) - 1 PROVE SubSeq(p, 1, n) \in Above(p)
    <2>1. n \in 0..Len(p) /\ n < Len(p)
        BY <1>1
    <2>2. PICK f : f = SubSeq(p, 1, n)
        OBVIOUS
    <2>3. f \in Path /\ Len(f) = n /\ \A i \in 1..n : f[i] = p[i]
        BY <2>1, <2>2, FrontFacts
    <2>4. IsPrefix(f, p) /\ f # p
        BY <1>1, <2>1, <2>3, PrefixFacts
    <2>5. QED
        BY <2>2, <2>3, <2>4 DEF Above, IsStrictPrefix
<1>4. \A q \in Above(p) : q \in Path /\ Len(q) < Len(p)
    BY PrefixFacts DEF Above, IsStrictPrefix
<1>5. \A q \in Within(p) : q \in Path /\ Len(p) <= Len(q)
    BY PrefixFacts DEF Within
<1>6. QED
    BY <1>2, <1>3, <1>4, <1>5

LEMMA PrefixTransitive ==
    ASSUME NEW p \in Path, NEW q \in Path, NEW r \in Path, IsPrefix(p, q), IsPrefix(q, r)
    PROVE  IsPrefix(p, r)
<1>1. Len(p) \in Nat /\ Len(q) \in Nat /\ Len(r) \in Nat
    BY PathType
<1>2. Len(p) <= Len(q) /\ Len(q) <= Len(r)
    BY PrefixFacts
<1>3. \A i \in 1..Len(p) : i \in 1..Len(q) /\ p[i] = q[i]
    BY <1>1, <1>2, PrefixFacts
<1>4. \A i \in 1..Len(q) : q[i] = r[i]
    BY PrefixFacts
<1>5. QED
    BY <1>1, <1>2, <1>3, <1>4, PrefixFacts

\* What lies above or below a path, seen from a path that lies below p.
LEMMA SubtreeFacts ==
    ASSUME NEW p \in Path, NEW q \in Within(p)
    PROVE  /\ Within(q) \subseteq Within(p)
           /\ Above(q) \subseteq Above(p) \cup Within(p)
<1>1. q \in Path /\ IsPrefix(p, q)
    BY DEF Within
<1>2. Within(q) \subseteq Within(p)
    BY <1>1, PrefixTransitive DEF Within
<1>3. ASSUME NEW r \in Above(q) PROVE r \in Above(p) \cup Within(p)
    <2>1. r \in Path /\ IsPrefix(r, q)
        BY <1>3 DEF Above, IsStrictPrefix
    <2>2. Len(p) \in Nat /\ Len(r) \in Nat /\ Len(q) \in Nat /\ Len(p) <= Len(q) /\ Len(r) <= Len(q)
        BY <1>1, <2>1, PathType, PrefixFacts
    <2>3. (\A i \in 1..Len(p) : p[i] = q[i]) /\ (\A i \in 1..Len(r) : r[i] = q[i])
        BY <1>1, <2>1, PrefixFacts
    <2>4. CASE Len(p) <= Len(r)
        <3>1. \A i \in 1..Len(p) : i \in 1..Len(r)
            BY <2>2, <2>4
        <3>2. IsPrefix(p, r)
            BY <2>1, <2>3, <2>4, <3>1, PrefixFacts
        <3>3. QED
            BY <2>1, <3>2 DEF Within
    <2>5. CASE Len(r) < Len(p)
        <3>1. \A i \in 1..Len(r) : i \in 1..Len(p)
            BY <2>2, <2>5
        <3>2. IsPrefix(r, p) /\ r # p
            BY <2>1, <2>2, <2>3, <2>5, <3>1, PrefixFacts
        <3>3. QED
            BY <2>1, <3>2 DEF Above, IsStrictPrefix
    <2>6. QED
        BY <2>2, <2>4, <2>5
<1>4. QED
    BY <1>2, <1>3

LEMMA OnFacts ==
    ASSUME NEW do \in Verbs, NEW p \in Path, NEW q \in Path, NEW n \in Node
    PROVE  /\ On(do, p) = Stmt(do, p, p, Absent) /\ On(do, p) \in Stmts
           /\ Put(do, p, n) = Stmt(do, p, p, n) /\ Put(do, p, n) \in Stmts
           /\ FromTo(do, p, q) = Stmt(do, p, q, Absent) /\ FromTo(do, p, q) \in Stmts
BY StmtFacts, NodeFacts DEF On, Put, FromTo

\* Sequences of one to three elements.
LEMMA ShortSeqs ==
    ASSUME NEW S, NEW x \in S, NEW y \in S, NEW z \in S
    PROVE  <<>> \in Seq(S) /\ <<x>> \in Seq(S) /\ <<x, y>> \in Seq(S) /\ <<x, y, z>> \in Seq(S)
OBVIOUS

LEMMA PrefixesPlanned ==
    ASSUME NEW c \in Requests, NEW p \in Within(Target(c)), NEW do \in {"parent", "level"},
           NEW n \in 0..Len(p)
    PROVE  AllPrefixes(do, p, n) \in Seq(Plan(c))
<1>1. Target(c) \in Path /\ p \in Path /\ Len(p) \in Nat /\ n \in Nat
    BY RequestFacts, WithinFacts, PathType
<1>2. ASSUME NEW i \in 1..n PROVE On(do, SubSeq(p, 1, i)) \in Plan(c)
    <2>1. PICK f : f = SubSeq(p, 1, i)
        OBVIOUS
    <2>2. f \in Path /\ Len(f) = i
        BY <1>1, <2>1, FrontFacts
    <2>3. f \in Above(Target(c)) \cup Within(Target(c))
        <3>1. CASE i = Len(p)
            <4>1. \A j \in 1..Len(p) : f[j] = p[j]
                BY <1>1, <2>1, <3>1, FrontFacts
            <4>2. f = p
                BY <1>1, <2>2, <3>1, <4>1, SamePath
            <4>3. QED
                BY <4>2
        <3>2. CASE i # Len(p)
            <4>1. i \in 0..Len(p) - 1
                BY <1>1, <3>2
            <4>2. f \in Above(p)
                BY <1>1, <2>1, <4>1, WithinFacts
            <4>3. QED
                BY <1>1, <4>2, SubtreeFacts
        <3>3. QED
            BY <3>1, <3>2
    <2>4. On(do, f) \in Stmts /\ On(do, f).do = do /\ On(do, f).at = f
        BY <2>2, NodeFacts, OnFacts, StmtFacts DEF Verbs
    <2>5. QED
        BY <2>1, <2>3, <2>4 DEF Plan
<1> DEFINE F(i) == On(do, SubSeq(p, 1, i))
<1>3. AllPrefixes(do, p, n) = [i \in 1..n |-> F(i)]
    BY DEF AllPrefixes
<1>4. \A i \in 1..n : F(i) \in Plan(c)
    BY <1>2
<1> HIDE DEF F
<1>5. [i \in 1..n |-> F(i)] \in [1..n -> Plan(c)]
    BY <1>4
<1>6. QED
    BY <1>1, <1>3, <1>5, SeqDef

LEMMA HeadFacts ==
    ASSUME TypeInv, NEW s \in Shell, todo[s] # <<>>
    PROVE  /\ call[s] \in Requests
           /\ Head(todo[s]) \in Plan(call[s]) /\ Head(todo[s]) \in Stmts
           /\ Tail(todo[s]) \in Seq(Plan(call[s])) /\ Tail(todo[s]) # todo[s]
<1>1. /\ todo[s] \in Seq(Plan(call[s])) /\ call[s] # Nothing
      /\ call[s] \in Requests \cup {Nothing}
    BY DEF TypeInv
<1>2. PICK q : q = todo[s]
    OBVIOUS
<1>3. q \in Seq(Plan(call[s])) /\ q # <<>>
    BY <1>1, <1>2
<1>4. Head(q) \in Plan(call[s]) /\ Tail(q) \in Seq(Plan(call[s])) /\ Len(Tail(q)) = Len(q) - 1 /\ Len(q) \in Nat
    BY <1>3, HeadTailProperties, LenProperties
<1>5. Tail(q) # q
    <2>1. PICK r : r = Tail(q)
        OBVIOUS
    <2>2. Len(r) = Len(q) - 1 /\ Len(q) \in Nat
        BY ONLY <1>4, <2>1
    <2>3. r # q
        BY ONLY <2>2
    <2>4. QED
        BY <2>1, <2>3
<1>6. QED
    BY <1>1, <1>2, <1>4, <1>5 DEF Plan

LEMMA GoesTyped ==
    ASSUME TypeInv, NEW s \in Shell, call[s] \in Requests, NEW steps \in Seq(Plan(call[s])),
           row' \in Tree, Goes(s, steps)
    PROVE  TypeInv' /\ todo'[s] = steps
<1>1. call' = call /\ failed' = failed /\ before' = before /\ todo' = [todo EXCEPT ![s] = steps]
    BY DEF Goes
<1>2. todo \in [Shell -> Seq(Stmts)] /\ steps \in Seq(Stmts)
    <2>1. Plan(call[s]) \subseteq Stmts
        BY DEF Plan
    <2>2. QED
        BY <2>1 DEF TypeInv
<1>3. todo' \in [Shell -> Seq(Stmts)] /\ todo'[s] = steps /\ \A t \in Shell : t # s => todo'[t] = todo[t]
    BY <1>1, <1>2
<1>4. \A t \in Shell : todo'[t] \in Seq(Plan(call[t])) /\ (call[t] = Nothing => todo'[t] = <<>>)
    <2>1. call[s] # Nothing
        BY RequestFacts
    <2>2. QED
        BY <1>3, <2>1 DEF TypeInv
<1>5. QED
    BY <1>1, <1>3, <1>4 DEF TypeInv

LEMMA ContinuesTyped ==
    ASSUME TypeInv, NEW s \in Shell, todo[s] # <<>>, NEW steps \in Seq(Plan(call[s])),
           row' \in Tree, Continues(s, steps)
    PROVE  TypeInv' /\ (steps = <<>> => todo'[s] = Tail(todo[s]))
<1>1. call[s] \in Requests /\ Tail(todo[s]) \in Seq(Plan(call[s]))
    BY HeadFacts
<1>2. PICK q : q = Tail(todo[s])
    OBVIOUS
<1>3. q \in Seq(Plan(call[s])) /\ steps \o q \in Seq(Plan(call[s]))
    BY <1>1, <1>2, ConcatProperties
<1>4. Goes(s, steps \o q)
    BY <1>2 DEF Continues
<1>5. TypeInv' /\ todo'[s] = steps \o q
    BY <1>1, <1>3, <1>4, GoesTyped
<1>6. steps = <<>> => steps \o q = q
    BY <1>3
<1>7. QED
    BY <1>2, <1>5, <1>6

LEMMA ThrowsTyped ==
    ASSUME TypeInv, NEW s \in Shell, Throws(s)
    PROVE  TypeInv' /\ row' = row
<1>1. /\ call' = call /\ row' = row /\ before' = before
      /\ todo' = [todo EXCEPT ![s] = <<>>] /\ failed' = [failed EXCEPT ![s] = TRUE]
    BY DEF Throws
<1>2. todo \in [Shell -> Seq(Stmts)] /\ failed \in [Shell -> BOOLEAN]
    BY DEF TypeInv
<1>3. todo' \in [Shell -> Seq(Stmts)] /\ failed' \in [Shell -> BOOLEAN]
    BY <1>1, <1>2
<1>4. \A t \in Shell : todo'[t] \in Seq(Plan(call[t])) /\ (call[t] = Nothing => todo'[t] = <<>>)
    <2>1. <<>> \in Seq(Plan(call[s]))
        OBVIOUS
    <2>2. \A t \in Shell : todo'[t] = IF t = s THEN <<>> ELSE todo[t]
        BY <1>1, <1>2
    <2>3. QED
        BY <2>1, <2>2 DEF TypeInv
<1>5. QED
    BY <1>1, <1>3, <1>4 DEF TypeInv

\* A statement on one path of the target, or of the operation's path.
LEMMA OnePlanned ==
    ASSUME NEW c \in Requests
    PROVE  /\ \A p \in Within(Target(c)) : \A node \in Node :
                 /\ Put("create", p, node) \in Plan(c)
                 /\ \A do \in {"createOrUpdate", "update", "copyTo", "rewrite"} :
                       node.kind = "file" => Put(do, p, node) \in Plan(c)
           /\ \A p \in Within(Target(c)) :
                 \A do \in {"deleteRow", "sweep", "rmdir", "deleteDir", "deleteFile"} :
                    On(do, p) \in Plan(c)
           /\ \A p \in Path : \A q \in Within(Target(c)) :
                 \A do \in {"copyDir", "list"} : Len(q) <= Len(p) => FromTo(do, p, q) \in Plan(c)
           /\ c.op = "rm" => On("deleteBelow", c.at) \in Plan(c)
           /\ c.op = "mv" => FromTo("rename", c.at, c.to) \in Plan(c)
                             /\ FromTo("renameBelow", c.at, c.to) \in Plan(c)
<1>1. Target(c) \in Path /\ c.at \in Path /\ c.to \in Path /\ Within(Target(c)) \subseteq Path
    BY RequestFacts DEF Within
<1>2. ASSUME NEW p \in Within(Target(c)), NEW node \in Node PROVE Put("create", p, node) \in Plan(c)
    <2>1. p \in Path /\ "create" \in Verbs
        BY <1>1 DEF Verbs
    <2>2. QED
        BY <2>1, OnFacts, StmtFacts DEF Plan
<1>3. ASSUME NEW p \in Within(Target(c)), NEW node \in Node, node.kind = "file",
             NEW do \in {"createOrUpdate", "update", "copyTo", "rewrite"}
      PROVE  Put(do, p, node) \in Plan(c)
    <2>1. p \in Path /\ do \in Verbs
        BY <1>1 DEF Verbs
    <2>2. QED
        BY <1>3, <2>1, OnFacts, StmtFacts DEF Plan
<1>4. ASSUME NEW p \in Within(Target(c)),
             NEW do \in {"deleteRow", "sweep", "rmdir", "deleteDir", "deleteFile"}
      PROVE  On(do, p) \in Plan(c)
    <2>1. p \in Path /\ do \in Verbs
        BY <1>1 DEF Verbs
    <2>2. QED
        BY <2>1, NodeFacts, OnFacts, StmtFacts DEF Plan
<1>5. ASSUME NEW p \in Path, NEW q \in Within(Target(c)), NEW do \in {"copyDir", "list"}, Len(q) <= Len(p)
      PROVE  FromTo(do, p, q) \in Plan(c)
    <2>1. q \in Path /\ do \in Verbs
        BY <1>1 DEF Verbs
    <2>2. QED
        BY <1>5, <2>1, NodeFacts, OnFacts, StmtFacts DEF Plan
<1>6. ASSUME c.op = "rm" PROVE On("deleteBelow", c.at) \in Plan(c)
    <2>1. "deleteBelow" \in Verbs
        BY DEF Verbs
    <2>2. QED
        BY <1>1, <1>6, <2>1, NodeFacts, OnFacts, StmtFacts DEF Plan
<1>7. ASSUME c.op = "mv", NEW do \in {"rename", "renameBelow"} PROVE FromTo(do, c.at, c.to) \in Plan(c)
    <2>1. do \in Verbs
        BY <1>7 DEF Verbs
    <2>2. QED
        BY <1>1, <1>7, <2>1, NodeFacts, OnFacts, StmtFacts DEF Plan
<1>8. QED
    BY <1>2, <1>3, <1>4, <1>5, <1>6, <1>7

LEMMA WriteStepsPlanned ==
    ASSUME TypeInv, NEW c \in Requests, NEW p \in Within(Target(c)), NEW text \in Text
    PROVE  WriteSteps(p, text) \in Seq(Plan(c)) /\ WriteNew(p, text) \in Seq(Plan(c))
<1>1. File(text) \in Node /\ File(text).kind = "file"
    BY NodeFacts
<1>2. Put("create", p, File(text)) \in Plan(c) /\ Put("update", p, File(text)) \in Plan(c)
    BY <1>1, OnePlanned
<1>3. p \in Path /\ Len(p) \in Nat
    BY RequestFacts, WithinFacts, PathType
<1>4. Parents(p) \in Seq(Plan(c))
    <2>1. CASE Len(p) >= 1
        <3>1. Len(p) - 1 \in 0..Len(p)
            BY <1>3, <2>1
        <3>2. QED
            BY <3>1, PrefixesPlanned DEF Parents
    <2>2. CASE Len(p) = 0
        <3>1. 1..Len(p) - 1 = {}
            BY <2>2
        <3>2. QED
            <4>1. Target(c) \in Path /\ Len(Target(c)) >= 1 /\ Len(Target(c)) <= Len(p)
                BY RequestFacts, PathType, WithinFacts
            <4>2. QED
                BY <2>2, <4>1
    <2>3. QED
        BY <1>3, <2>1, <2>2
<1> DEFINE m == Put("create", p, File(text))
           u == Put("update", p, File(text))
           pre == Parents(p)
<1> HIDE DEF m, u, pre
<1>5. m \in Plan(c) /\ u \in Plan(c) /\ pre \in Seq(Plan(c))
    BY <1>2, <1>4 DEF m, u, pre
<1>6. pre \o <<m>> \in Seq(Plan(c)) /\ <<u>> \in Seq(Plan(c))
    BY ONLY <1>5
<1>7. QED
    BY <1>6 DEF WriteSteps, WriteNew, m, u, pre

LEMMA StepsPlanned ==
    ASSUME TypeInv, NEW c \in Requests, ~Refused(c)
    PROVE  Steps(c) \in Seq(Plan(c))
<1>1. /\ c.op \in Operation /\ c.at \in Path /\ c.to \in Path /\ c.chunk \in Chunk
      /\ Target(c) \in Path /\ Target(c) \in Within(Target(c))
    BY RequestFacts, WithinFacts
<1>2. row[c.at] \in Node /\ row \in Tree
    BY <1>1 DEF TypeInv, Tree
<1>3. CASE c.op = "write"
    <2>1. c.at \in Within(Target(c)) /\ {c.chunk} \in Text
        BY <1>1, <1>3, TextFacts DEF Target
    <2>2. WriteSteps(c.at, {c.chunk}) \in Seq(Plan(c))
        BY <2>1, WriteStepsPlanned
    <2>3. QED
        BY <1>3, <2>2 DEF Steps
<1>4. CASE c.op = "append"
    <2>1. c.at \in Within(Target(c)) /\ {c.chunk} \in Text
        BY <1>1, <1>4, TextFacts DEF Target
    <2>2. CASE Is(row, c.at, "none")
        <3>1. File({c.chunk}) \in Node /\ File({c.chunk}).kind = "file"
            BY <2>1, NodeFacts
        <3>2. Put("rewrite", c.at, File({c.chunk})) \in Plan(c)
            BY <2>1, <3>1, OnePlanned
        <3>3. AppendSteps(c) = <<Put("rewrite", c.at, File({c.chunk}))>>
            BY <2>2 DEF AppendSteps
        <3>4. QED
            BY <1>4, <3>2, <3>3, ShortSeqs DEF Steps
    <2>3. CASE ~Is(row, c.at, "none")
        <3>1. row[c.at].kind = "file"
            BY <1>2, <1>4, <2>3, NodeFacts DEF Refused, Is
        <3>2. row[c.at].text \cup {c.chunk} \in Text
            BY <1>1, <1>2, <3>1, NodeFacts, TextFacts
        <3>3. PICK text : text = row[c.at].text \cup {c.chunk}
            OBVIOUS
        <3>4. File(text) \in Node /\ File(text).kind = "file"
            BY <3>2, <3>3, NodeFacts
        <3>5. Put("update", c.at, File(text)) \in Plan(c)
            BY <2>1, <3>4, OnePlanned
        <3>6. AppendSteps(c) = <<Put("update", c.at, File(text))>>
            BY <2>3, <3>3 DEF AppendSteps
        <3>7. QED
            BY <1>4, <3>5, <3>6, ShortSeqs DEF Steps
    <2>4. QED
        BY <2>2, <2>3
<1>5. CASE c.op = "mkdir"
    <2>1. c.at \in Within(Target(c)) /\ Len(c.at) \in Nat
        BY <1>1, <1>5, PathType DEF Target
    <2>2. MkdirP(c.at) \in Seq(Plan(c))
        BY <2>1, PrefixesPlanned DEF MkdirP
    <2>3. Put("create", c.at, Dir) \in Plan(c)
        BY <2>1, NodeFacts, OnePlanned
    <2>4. <<Put("create", c.at, Dir)>> \in Seq(Plan(c))
        BY <2>3, ShortSeqs
    <2>5. QED
        BY <1>5, <2>2, <2>4 DEF Steps
<1>6. CASE c.op = "rm"
    <2>1. c.at \in Within(Target(c))
        BY <1>1, <1>6 DEF Target
    <2>2. PICK f : f = On("deleteFile", c.at)
        OBVIOUS
    <2>3. PICK x : x = On("deleteBelow", c.at)
        OBVIOUS
    <2>4. PICK y : y = On("deleteRow", c.at)
        OBVIOUS
    <2>5. PICK z : z = On("sweep", c.at)
        OBVIOUS
    <2>6. PICK r : r = On("rmdir", c.at)
        OBVIOUS
    <2>7. f \in Plan(c) /\ x \in Plan(c) /\ y \in Plan(c) /\ z \in Plan(c) /\ r \in Plan(c)
        BY <1>6, <2>1, <2>2, <2>3, <2>4, <2>5, <2>6, OnePlanned
    <2>8. <<f>> \in Seq(Plan(c)) /\ <<x, y>> \o <<z>> \in Seq(Plan(c)) /\ <<r>> \in Seq(Plan(c))
        BY ONLY <2>7
    <2>9. QED
        BY <1>6, <2>2, <2>3, <2>4, <2>5, <2>6, <2>8 DEF Steps, RmSteps, DeleteTree
<1>7. CASE c.op \in {"mv", "cp"}
    <2>1. c.to \in Within(Target(c)) /\ c.to # Root /\ Len(c.to) <= Len(c.at) /\ Target(c) = c.to
        BY <1>1, <1>7, RequestFacts DEF Target
    <2>2. Len(c.to) - 1 \in 0..Len(c.to)
        BY <1>1, <2>1, PathType
    <2>3. Parents(c.to) \in Seq(Plan(c))
        BY <2>1, <2>2, PrefixesPlanned DEF Parents
    <2>4. PICK pre : pre = Parents(c.to)
        OBVIOUS
    <2>5. CASE c.op = "mv"
        <3>1. PICK d : d = On("deleteRow", c.to)
            OBVIOUS
        <3>2. PICK r : r = FromTo("rename", c.at, c.to)
            OBVIOUS
        <3>3. PICK b : b = FromTo("renameBelow", c.at, c.to)
            OBVIOUS
        <3>4. d \in Plan(c) /\ r \in Plan(c) /\ b \in Plan(c) /\ pre \in Seq(Plan(c))
            BY <2>1, <2>3, <2>4, <2>5, <3>1, <3>2, <3>3, OnePlanned
        <3>5. PICK last : last = IF Is(row, c.at, "dir") THEN <<b>> ELSE <<>>
            OBVIOUS
        <3>6. last \in Seq(Plan(c))
            BY <3>4, <3>5, ShortSeqs
        <3>7. pre \o <<d, r>> \o last \in Seq(Plan(c))
            BY ONLY <3>4, <3>6
        <3>8. MvSteps(c) = pre \o <<d, r>> \o last
            BY <2>4, <3>1, <3>2, <3>3, <3>5 DEF MvSteps
        <3>9. QED
            BY <2>5, <3>7, <3>8 DEF Steps
    <2>6. CASE c.op = "cp"
        <3>1. PICK d : d = FromTo("copyDir", c.at, c.to)
            OBVIOUS
        <3>2. d \in Plan(c)
            BY <1>1, <2>1, <3>1, OnePlanned
        <3>3. CASE Is(row, c.at, "dir")
            <4>1. CpSteps(c) = <<d>>
                BY <3>1, <3>3 DEF CpSteps
            <4>2. QED
                BY <2>6, <3>2, <4>1, ShortSeqs DEF Steps
        <3>4. CASE ~Is(row, c.at, "dir")
            <4>1. row[c.at].kind = "file"
                BY <1>2, <2>6, <3>4, NodeFacts DEF Refused, Is
            <4>2. PICK f : f = Put("copyTo", c.to, row[c.at])
                OBVIOUS
            <4>3. f \in Plan(c) /\ pre \in Seq(Plan(c))
                BY <1>2, <2>1, <2>3, <2>4, <4>1, <4>2, OnePlanned
            <4>4. pre \o <<f>> \in Seq(Plan(c))
                BY ONLY <4>3
            <4>5. QED
                BY <2>4, <2>6, <3>4, <4>2, <4>4 DEF Steps, CpSteps
        <3>5. QED
            BY <3>3, <3>4
    <2>7. QED
        BY <1>7, <2>5, <2>6
<1>8. QED
    BY <1>1, <1>3, <1>4, <1>5, <1>6, <1>7 DEF Operation

LEMMA SetToSeqFacts ==
    ASSUME NEW S, IsFiniteSet(S)
    PROVE  /\ SetToSeq(S) \in Seq(S) /\ Len(SetToSeq(S)) = Cardinality(S) /\ Cardinality(S) \in Nat
           /\ \A x \in S : \E i \in 1..Cardinality(S) : SetToSeq(S)[i] = x
           /\ \A i \in 1..Cardinality(S) : SetToSeq(S)[i] \in S
           /\ \A i, j \in 1..Cardinality(S) : SetToSeq(S)[i] = SetToSeq(S)[j] => i = j
<1>1. PICK n : n = Cardinality(S)
    OBVIOUS
<1>2. n \in Nat /\ ExistsBijection(1..n, S)
    BY <1>1, FS_CardinalityType
<1>3. \E f \in [1..n -> S] : IsInjective(f)
    BY <1>2 DEF ExistsBijection, Bijection, Injection
<1>4. PICK f : f = SetToSeq(S)
    OBVIOUS
<1>5. f \in [1..n -> S] /\ IsInjective(f)
    BY <1>1, <1>3, <1>4 DEF SetToSeq
<1>6. f \in Injection(1..n, S)
    BY <1>5 DEF Injection
<1>7. IsFiniteSet(1..n) /\ Cardinality(1..n) = n
    BY <1>2, FS_Interval
<1>8. f \in Surjection(1..n, S)
    BY <1>1, <1>6, <1>7, FS_Injection
<1>9. f \in Seq(S) /\ Len(f) = n
    BY <1>2, <1>5, SeqDef, LenProperties
<1>10. \A x \in S : \E i \in 1..n : f[i] = x
    BY <1>8 DEF Surjection
<1>11. \A i, j \in 1..n : f[i] = f[j] => i = j
    BY <1>5 DEF IsInjective
<1>12. \A i \in 1..n : f[i] \in S
    BY <1>5
<1>13. QED
    BY <1>1, <1>2, <1>4, <1>9, <1>10, <1>11, <1>12

LEMMA ParentFacts ==
    ASSUME NEW p \in Path, p # Root
    PROVE  /\ Parent(p) \in Path /\ Len(Parent(p)) = Len(p) - 1 /\ Len(p) >= 1
           /\ \A i \in 1..Len(p) - 1 : Parent(p)[i] = p[i]
           /\ Parent(p) \in Above(p) /\ p \in Within(Parent(p))
<1>1. Len(p) \in Nat /\ Len(p) >= 1
    BY PathType
<1>2. Len(p) - 1 \in 0..Len(p) /\ Len(p) - 1 \in 0..Len(p) - 1
    BY <1>1
<1>3. PICK f : f = Parent(p)
    OBVIOUS
<1>4. f \in Path /\ Len(f) = Len(p) - 1 /\ \A i \in 1..Len(p) - 1 : f[i] = p[i]
    BY <1>2, <1>3, FrontFacts DEF Parent
<1>5. f \in Above(p)
    BY <1>2, <1>3, WithinFacts DEF Parent
<1>6. p \in Within(f)
    BY <1>5 DEF Above, Within, IsStrictPrefix
<1>7. QED
    BY <1>1, <1>3, <1>4, <1>5, <1>6

LEMMA ChildrenFacts ==
    ASSUME NEW t \in Tree, NEW p \in Path
    PROVE  /\ IsFiniteSet(Children(t, p))
           /\ \A q \in Children(t, p) : /\ q \in Path /\ q \in Within(p) /\ Len(q) = Len(p) + 1
                                        /\ t[q].kind # "none"
<1>1. ASSUME NEW q \in Children(t, p)
      PROVE  q \in Path /\ q \in Within(p) /\ Len(q) = Len(p) + 1 /\ t[q].kind # "none" /\ Parent(q) = p
    <2>1. q \in Path /\ q # Root /\ Parent(q) = p /\ t[q].kind # "none"
        BY <1>1 DEF Children, Is
    <2>2. Len(p) = Len(q) - 1 /\ q \in Within(p)
        BY <2>1, ParentFacts
    <2>3. Len(q) \in Nat
        BY <2>1, PathType
    <2>4. QED
        BY <2>1, <2>2, <2>3
<1> DEFINE C == Children(t, p)
           f == [q \in C |-> q[Len(q)]]
<1>2. \A q \in C : q[Len(q)] \in Name
    BY <1>1, PathType
<1>3. f \in [C -> Name]
    BY <1>2
<1>4. ASSUME NEW q \in C, NEW r \in C, f[q] = f[r] PROVE q = r
    <2>1. q \in Path /\ r \in Path /\ Len(q) = Len(p) + 1 /\ Len(r) = Len(p) + 1
          /\ q \in Within(p) /\ r \in Within(p) /\ Len(p) \in Nat
        BY <1>1, PathType
    <2>2. q[Len(p) + 1] = r[Len(p) + 1]
        BY <1>4, <2>1
    <2>3. \A i \in 1..Len(p) : p[i] = q[i] /\ p[i] = r[i]
        BY <2>1, PrefixFacts DEF Within
    <2>4. \A i \in 1..Len(q) : i \in 1..Len(p) \/ i = Len(p) + 1
        BY <2>1
    <2>5. \A i \in 1..Len(q) : q[i] = r[i]
        BY <2>2, <2>3, <2>4
    <2>6. QED
        BY <2>1, <2>5, SamePath
<1>5. f \in Injection(C, Name)
    BY <1>3, <1>4 DEF Injection, IsInjective
<1>6. IsFiniteSet(C)
    BY <1>5, TreeAssumption, FS_Injection
<1>7. QED
    BY <1>1, <1>6

\* What lies below at has its place below to, when to is not the deeper one.
LEMMA MovedPath ==
    ASSUME NEW at \in Path, NEW to \in Path, Len(to) <= Len(at), NEW q \in Path, Len(at) <= Len(q)
    PROVE  /\ Moved(q, at, to) \in Within(to)
           /\ Len(Moved(q, at, to)) <= Len(q)
           /\ Len(Moved(q, at, to)) - Len(to) = Len(q) - Len(at)
<1>1. Len(at) \in Nat /\ Len(to) \in Nat /\ Len(q) \in Nat /\ Len(q) <= Depth /\ Depth \in Nat
    BY PathType, TreeAssumption
<1>2. PICK r : r = Moved(q, at, to)
    OBVIOUS
<1>3. r \in Seq(Name) /\ Len(r) = Len(to) + (Len(q) - Len(at)) /\ \A i \in 1..Len(to) : r[i] = to[i]
    BY <1>2, MovedFacts
<1>4. Len(r) <= Len(q) /\ Len(r) <= Depth /\ Len(to) <= Len(r) /\ Len(r) - Len(to) = Len(q) - Len(at)
    BY <1>1, <1>3
<1>5. r \in Path
    BY <1>3, <1>4, IsPath
<1>6. IsPrefix(to, r)
    BY <1>3, <1>4, <1>5, PrefixFacts
<1>7. QED
    BY <1>2, <1>4, <1>5, <1>6 DEF Within

\* What a pattern matches is deeper than the directory it is made of, and a mv
\* that is begun has room for all of it.
LEMMA LikeFacts ==
    ASSUME NEW p \in Path, NEW q \in Path, LikeBelow(p, q)
    PROVE  Matches(p, q) /\ p # Root /\ Len(q) > Len(p) /\ q # p
<1>1. Matches(p, q) /\ p # Root
    BY DEF LikeBelow
<1>2. Len(q) > Len(p)
    BY <1>1, LikeAssumption
<1>3. QED
    BY <1>1, <1>2, PathType

LEMMA RespeltPath ==
    ASSUME NEW c \in Requests, c.op = "mv", NEW q \in Path, Matches(c.at, q)
    PROVE  Respelt(q, c.at, c.to) \in Path
BY DEF Requests, Used

LEMMA RespeltBelow ==
    ASSUME NEW p \in Path, p # Root, NEW to \in Path, to # Root, NEW q \in Within(p), q # p
    PROVE  Respelt(q, p, to) = Moved(q, p, to)
<1>1. q \in Path /\ IsStrictPrefix(p, q)
    BY DEF Within, IsStrictPrefix
<1>2. QED
    BY <1>1, LikeAssumption

\* Names without wildcards match what is below them.
LEMMA PlainBelow ==
    ASSUME Plain, NEW p \in Path, p # Root, NEW q \in Path
    PROVE  LikeBelow(p, q) <=> q \in Within(p) /\ q # p
<1>1. Matches(p, q) <=> IsStrictPrefix(p, q)
    BY DEF Plain
<1>2. QED
    BY <1>1 DEF LikeBelow, Within, IsStrictPrefix

LEMMA CopyChildrenPlanned ==
    ASSUME TypeInv, NEW c \in Requests, NEW at \in Path, NEW to \in Within(Target(c)),
           Len(to) <= Len(at), NEW st, st.at = at, st.to = to
    PROVE  CopyChildren(st) \in Seq(Plan(c))
<1> DEFINE One(q) == LET r == Moved(q, at, to) IN
               IF Is(row, q, "dir") THEN FromTo("copyDir", q, r) ELSE Put("createOrUpdate", r, row[q])
           kids == SetToSeq(Children(row, at))
<1>1. row \in Tree /\ Target(c) \in Path /\ to \in Path
    BY RequestFacts, WithinFacts DEF TypeInv
<1>2. kids \in Seq(Children(row, at)) /\ Len(kids) \in Nat /\ \A i \in 1..Len(kids) : kids[i] \in Children(row, at)
    BY <1>1, ChildrenFacts, SetToSeqFacts
<1>3. ASSUME NEW q \in Children(row, at) PROVE One(q) \in Plan(c)
    <2>1. q \in Path /\ q \in Within(at) /\ Len(q) = Len(at) + 1 /\ row[q].kind # "none" /\ Len(at) \in Nat
        BY <1>1, ChildrenFacts, PathType
    <2>2. PICK r : r = Moved(q, at, to)
        OBVIOUS
    <2>3. Len(at) <= Len(q)
        BY <2>1
    <2>4. r \in Within(to) /\ Len(r) <= Len(q)
        BY <1>1, <2>1, <2>2, <2>3, MovedPath
    <2>5. r \in Within(Target(c))
        BY <1>1, <2>4, SubtreeFacts
    <2>6. CASE Is(row, q, "dir")
        <3>1. FromTo("copyDir", q, r) \in Plan(c)
            BY <2>1, <2>4, <2>5, OnePlanned
        <3>2. QED
            BY <2>2, <2>6, <3>1
    <2>7. CASE ~Is(row, q, "dir")
        <3>1. row[q] \in Node
            BY <1>1, <2>1 DEF Tree
        <3>2. row[q].kind = "file"
            BY <2>1, <2>7, <3>1, NodeFacts DEF Is
        <3>3. Put("createOrUpdate", r, row[q]) \in Plan(c)
            BY <2>5, <3>1, <3>2, OnePlanned
        <3>4. QED
            BY <2>2, <2>7, <3>3
    <2>8. QED
        BY <2>6, <2>7
<1>4. CopyChildren(st) = [i \in 1..Len(kids) |-> One(kids[i])]
    BY DEF CopyChildren
<1> HIDE DEF One, kids
<1>5. \A i \in 1..Len(kids) : One(kids[i]) \in Plan(c)
    BY <1>2, <1>3
<1>6. [i \in 1..Len(kids) |-> One(kids[i])] \in [1..Len(kids) -> Plan(c)]
    BY <1>5
<1>7. QED
    BY <1>2, <1>4, <1>6, SeqDef

-----------------------------------------------------------------------------
(* The steps *)

\* What one statement of s may do to the rows.
Allowed(s) == \A p \in Path : row'[p] # row[p] =>
    /\ \/ Covers(call[s], p)
       \/ p \in Above(Target(call[s])) /\ row[p] = Absent /\ row'[p] = Dir
    /\ row[p] # Absent /\ row'[p] # Absent =>
          /\ todo'[s] # todo[s]
          /\ \/ Do(s, "update") /\ Is(row, p, "file") /\ Is(row', p, "file")
             \/ Do(s, "renameBelow") /\ Matches(call[s].at, p)

LEMMA SetAllowed ==
    ASSUME TypeInv, NEW s \in Shell, NEW p \in Path, NEW node \in Node, Set(p, node),
           \/ p \in Within(Target(call[s]))
           \/ p \in Above(Target(call[s])) /\ row[p] = Absent /\ node = Dir,
           row[p] = Absent \/ node = Absent
    PROVE  row' \in Tree /\ Allowed(s)
<1>1. row' = [row EXCEPT ![p] = node] /\ row \in [Path -> Node]
    BY DEF Set, TypeInv, Tree
<1>2. row' \in Tree /\ row'[p] = node /\ \A q \in Path : q # p => row'[q] = row[q]
    BY <1>1 DEF Tree
<1>3. QED
    BY <1>2 DEF Allowed, Covers

LEMMA SameAllowed == ASSUME TypeInv, NEW s \in Shell, row' = row PROVE row' \in Tree /\ Allowed(s)
BY DEF TypeInv, Allowed

LEMMA BeginStep ==
    ASSUME TypeInv, NEW s \in Shell, NEW c \in Requests, Begin(s, c)
    PROVE  TypeInv' /\ row' = row
<1>1. /\ call[s] = Nothing /\ call' = [call EXCEPT ![s] = c] /\ row' = row /\ failed' = failed
      /\ todo' = [todo EXCEPT ![s] = <<On("call", c.at)>>] /\ before' \in {row, NoRows}
    BY DEF Begin
<1>2. NoRows \in Tree
    BY NodeFacts DEF NoRows, Tree
<1>3. On("call", c.at) \in Plan(c)
    <2>1. c.at \in Path /\ "call" \in Verbs
        BY RequestFacts DEF Verbs
    <2>2. QED
        BY <2>1, NodeFacts, OnFacts, StmtFacts DEF Plan
<1>4. PICK q : q = <<On("call", c.at)>>
    OBVIOUS
<1>5. q \in Seq(Plan(c)) /\ q \in Seq(Stmts)
    <2>1. On("call", c.at) \in Stmts
        BY <1>3 DEF Plan
    <2>2. QED
        BY <1>3, <1>4, <2>1, ShortSeqs
<1>6. call \in [Shell -> Requests \cup {Nothing}] /\ todo \in [Shell -> Seq(Stmts)]
    BY DEF TypeInv
<1>7. /\ call' \in [Shell -> Requests \cup {Nothing}] /\ todo' \in [Shell -> Seq(Stmts)]
      /\ \A t \in Shell : /\ call'[t] = IF t = s THEN c ELSE call[t]
                          /\ todo'[t] = IF t = s THEN q ELSE todo[t]
    BY <1>1, <1>4, <1>5, <1>6
<1>8. c # Nothing
    BY RequestFacts
<1>9. \A t \in Shell : todo'[t] \in Seq(Plan(call'[t])) /\ (call'[t] = Nothing => todo'[t] = <<>>)
    BY <1>5, <1>7, <1>8 DEF TypeInv
<1>10. row' \in Tree /\ before' \in Tree /\ failed' \in [Shell -> BOOLEAN]
    BY <1>1, <1>2 DEF TypeInv
<1>11. QED
    BY <1>1, <1>7, <1>9, <1>10 DEF TypeInv

LEMMA ReturnStep ==
    ASSUME TypeInv, NEW s \in Shell, Return(s)
    PROVE  TypeInv' /\ row' = row
<1>1. /\ todo[s] = <<>> /\ call' = [call EXCEPT ![s] = Nothing] /\ row' = row /\ todo' = todo
      /\ failed' = [failed EXCEPT ![s] = FALSE] /\ before' = NoRows
    BY DEF Return
<1>2. NoRows \in Tree
    BY NodeFacts DEF NoRows, Tree
<1>3. call \in [Shell -> Requests \cup {Nothing}] /\ failed \in [Shell -> BOOLEAN]
    BY DEF TypeInv
<1>4. /\ call' \in [Shell -> Requests \cup {Nothing}] /\ failed' \in [Shell -> BOOLEAN]
      /\ \A t \in Shell : call'[t] = IF t = s THEN Nothing ELSE call[t]
    BY <1>1, <1>3
<1>5. \A t \in Shell : todo'[t] \in Seq(Plan(call'[t])) /\ (call'[t] = Nothing => todo'[t] = <<>>)
    <2>1. todo[s] \in Seq(Plan(Nothing))
        BY <1>1
    <2>2. QED
        BY <1>1, <1>4, <2>1 DEF TypeInv
<1>6. row' \in Tree /\ before' \in Tree /\ todo' \in [Shell -> Seq(Stmts)]
    BY <1>1, <1>2 DEF TypeInv
<1>7. QED
    BY <1>1, <1>4, <1>5, <1>6 DEF TypeInv

LEMMA FirstSelectStep ==
    ASSUME TypeInv, NEW s \in Shell, FirstSelect(s)
    PROVE  TypeInv' /\ row' = row
<1>1. call[s] \in Requests
    BY HeadFacts DEF FirstSelect, Do
<1>2. CASE Refused(call[s])
    BY <1>2, ThrowsTyped DEF FirstSelect
<1>3. CASE ~Refused(call[s])
    <2>1. Steps(call[s]) \in Seq(Plan(call[s])) /\ row' = row /\ row' \in Tree
        BY <1>1, <1>3, StepsPlanned DEF FirstSelect, TypeInv
    <2>2. QED
        BY <1>1, <1>3, <2>1, GoesTyped DEF FirstSelect
<1>4. QED
    BY <1>2, <1>3

LEMMA EmptyPlan == \A S : <<>> \in Seq(S)
OBVIOUS

LEMMA EnsureParentStep ==
    ASSUME TypeInv, NEW s \in Shell, EnsureParent(s) \/ Level(s)
    PROVE  TypeInv' /\ Allowed(s)
<1>1. todo[s] # <<>> /\ Head(todo[s]).do \in {"parent", "level"}
    BY DEF EnsureParent, Level, Do
<1>2. PICK st : st = Head(todo[s])
    OBVIOUS
<1>3. st \in Plan(call[s]) /\ st \in Stmts /\ call[s] \in Requests
    BY <1>1, <1>2, HeadFacts
<1>4. st.at \in Path /\ st.at \in Above(Target(call[s])) \cup Within(Target(call[s]))
    BY <1>1, <1>2, <1>3 DEF Plan, Stmts
<1>5. \/ Is(row, st.at, "none") /\ Set(st.at, Dir) /\ Continues(s, <<>>)
      \/ row' = row /\ Continues(s, <<>>)
      \/ Throws(s)
    BY <1>2 DEF EnsureParent, Level
<1>6. CASE Is(row, st.at, "none") /\ Set(st.at, Dir) /\ Continues(s, <<>>)
    <2>1. row[st.at] \in Node
        BY <1>4 DEF TypeInv, Tree
    <2>2. row[st.at] = Absent /\ Dir \in Node
        BY <1>6, <2>1, NodeFacts DEF Is
    <2>3. row' \in Tree /\ Allowed(s)
        BY <1>4, <1>6, <2>2, SetAllowed
    <2>4. QED
        BY <1>1, <1>6, <2>3, EmptyPlan, ContinuesTyped
<1>7. CASE row' = row /\ Continues(s, <<>>)
    BY <1>1, <1>7, SameAllowed, EmptyPlan, ContinuesTyped
<1>8. CASE Throws(s)
    BY <1>8, ThrowsTyped, SameAllowed
<1>9. QED
    BY <1>5, <1>6, <1>7, <1>8

\* The statements that look and leave the rows as they are.
LEMMA LookingStep ==
    ASSUME TypeInv, NEW s \in Shell,
           Rewrite(s) \/ CopyTo(s) \/ CopyDir(s) \/ List(s) \/ Rmdir(s) \/ Sweep(s)
    PROVE  TypeInv' /\ row' = row
<1> PICK st : st = Head(todo[s])
    OBVIOUS
<1> PICK c : c = call[s]
    OBVIOUS
<1>1. todo[s] # <<>>
    BY DEF Rewrite, CopyTo, CopyDir, List, Rmdir, Sweep, Do
<1>2. st \in Plan(c) /\ st \in Stmts /\ c \in Requests /\ row \in Tree
    BY <1>1, HeadFacts DEF TypeInv
<1>3. st.at \in Path /\ st.to \in Path /\ st.node \in Node
    BY <1>2 DEF Stmts
<1>4. SUFFICES \/ Throws(s)
               \/ row' = row /\ \E steps \in Seq(Plan(c)) : Continues(s, steps)
    BY <1>1, <1>2, ThrowsTyped, ContinuesTyped
<1>5. CASE Rewrite(s)
    <2>1. st.do = "rewrite"
        BY <1>5 DEF Rewrite, Do
    <2>2. st.at \in Within(Target(c)) /\ st.node.kind = "file"
        BY <1>2, <2>1 DEF Plan
    <2>3. st.node.text \in Text
        BY <1>3, <2>2, NodeFacts
    <2>4. WriteSteps(st.at, st.node.text) \in Seq(Plan(c))
        BY <1>2, <2>2, <2>3, WriteStepsPlanned
    <2>5. QED
        BY <1>5, <2>4 DEF Rewrite
<1>6. CASE CopyTo(s)
    <2>1. st.do = "copyTo"
        BY <1>6 DEF CopyTo, Do
    <2>2. st.at \in Within(Target(c)) /\ st.node.kind = "file"
        BY <1>2, <2>1 DEF Plan
    <2>3. \A do \in {"create", "update"} : Put(do, st.at, st.node) \in Plan(c)
        BY <1>2, <1>3, <2>2, OnePlanned
    <2>4. PICK do \in {"create", "update"} : do = IF Is(row, st.at, "none") THEN "create" ELSE "update"
        OBVIOUS
    <2>5. row' = row /\ Continues(s, <<Put(do, st.at, st.node)>>)
        BY <1>6, <2>4 DEF CopyTo
    <2>6. <<Put(do, st.at, st.node)>> \in Seq(Plan(c))
        BY <2>3, ShortSeqs
    <2>7. QED
        BY <2>5, <2>6
<1>7. CASE CopyDir(s)
    <2>1. st.do = "copyDir"
        BY <1>7 DEF CopyDir, Do
    <2>2. st.to \in Within(Target(c)) /\ Len(st.to) <= Len(st.at) /\ Len(st.to) \in Nat
        BY <1>2, <1>3, <2>1, PathType DEF Plan
    <2>3. Len(st.to) \in 0..Len(st.to)
        BY <2>2
    <2>4. MkdirP(st.to) \in Seq(Plan(c))
        BY <1>2, <2>2, <2>3, PrefixesPlanned DEF MkdirP
    <2>5. FromTo("list", st.at, st.to) \in Plan(c)
        BY <1>2, <1>3, <2>2, OnePlanned
    <2>6. PICK l : l = FromTo("list", st.at, st.to)
        OBVIOUS
    <2>7. PICK m : m = MkdirP(st.to)
        OBVIOUS
    <2>8. m \o <<l>> \in Seq(Plan(c))
        BY <2>4, <2>5, <2>6, <2>7
    <2>9. QED
        BY <1>7, <2>6, <2>7, <2>8 DEF CopyDir
<1>8. CASE List(s)
    <2>1. st.do = "list"
        BY <1>8 DEF List, Do
    <2>2. st.to \in Within(Target(c)) /\ Len(st.to) <= Len(st.at)
        BY <1>2, <2>1 DEF Plan
    <2>3. CopyChildren(st) \in Seq(Plan(c))
        BY <1>2, <1>3, <2>2, CopyChildrenPlanned
    <2>4. QED
        BY <1>8, <2>3 DEF List
<1>9. CASE Rmdir(s) \/ Sweep(s)
    <2>1. st.do \in {"rmdir", "sweep"}
        BY <1>9 DEF Rmdir, Sweep, Do
    <2>2. st.at \in Within(Target(c))
        BY <1>2, <2>1 DEF Plan
    <2>3. <<On("deleteDir", st.at)>> \in Seq(Plan(c)) /\ <<>> \in Seq(Plan(c))
        BY <1>2, <2>2, OnePlanned, ShortSeqs
    <2>4. QED
        BY <1>9, <2>3 DEF Rmdir, Sweep
<1>10. QED
    BY <1>5, <1>6, <1>7, <1>8, <1>9

\* The statements on one row.
LEMMA RowStep ==
    ASSUME TypeInv, NEW s \in Shell,
           Create(s) \/ CreateOrUpdate(s) \/ DeleteRow(s) \/ DeleteDir(s) \/ DeleteFile(s)
    PROVE  TypeInv' /\ Allowed(s)
<1> PICK st : st = Head(todo[s])
    OBVIOUS
<1> PICK c : c = call[s]
    OBVIOUS
<1>1. todo[s] # <<>> /\ st.do \in {"create", "createOrUpdate", "deleteRow", "deleteDir", "deleteFile"}
    BY DEF Create, CreateOrUpdate, DeleteRow, DeleteDir, DeleteFile, Do
<1>2. st \in Plan(c) /\ st \in Stmts /\ c \in Requests /\ row \in Tree
    BY <1>1, HeadFacts DEF TypeInv
<1>3. st.at \in Path /\ st.node \in Node /\ st.at \in Within(Target(c)) /\ row[st.at] \in Node
    BY <1>1, <1>2 DEF Stmts, Plan, Tree
<1>4. \/ Throws(s)
      \/ row' = row /\ Continues(s, <<>>)
      \/ st.do = "createOrUpdate" /\ row' = row /\ Continues(s, <<Put("update", st.at, st.node)>>)
      \/ \E node \in Node : /\ Is(row, st.at, "none") \/ node = Absent
                            /\ Set(st.at, node) /\ Continues(s, <<>>)
    <2>1. Absent \in Node
        BY NodeFacts
    <2>2. QED
        BY <1>3, <2>1 DEF Create, CreateOrUpdate, DeleteRow, DeleteDir, DeleteFile, Do
<1>5. CASE Throws(s)
    BY <1>5, ThrowsTyped, SameAllowed
<1>6. CASE row' = row /\ Continues(s, <<>>)
    BY <1>1, <1>6, SameAllowed, EmptyPlan, ContinuesTyped
<1>7. CASE st.do = "createOrUpdate" /\ row' = row /\ Continues(s, <<Put("update", st.at, st.node)>>)
    <2>1. Put("update", st.at, st.node) \in Plan(c)
        <3>1. st.node.kind = "file"
            BY <1>2, <1>7 DEF Plan
        <3>2. QED
            BY <1>2, <1>3, <3>1, OnePlanned
    <2>2. PICK steps \in Seq(Plan(c)) : steps = <<Put("update", st.at, st.node)>>
        BY <2>1, ShortSeqs
    <2>3. QED
        BY <1>1, <1>7, <2>2, SameAllowed, ContinuesTyped
<1>8. CASE \E node \in Node : /\ Is(row, st.at, "none") \/ node = Absent
                              /\ Set(st.at, node) /\ Continues(s, <<>>)
    <2>1. PICK node \in Node : /\ Is(row, st.at, "none") \/ node = Absent
                               /\ Set(st.at, node) /\ Continues(s, <<>>)
        BY <1>8
    <2>2. row[st.at] = Absent \/ node = Absent
        BY <1>3, <2>1, NodeFacts DEF Is
    <2>3. row' \in Tree /\ Allowed(s)
        BY <1>3, <2>1, <2>2, SetAllowed
    <2>4. QED
        BY <1>1, <2>1, <2>3, EmptyPlan, ContinuesTyped
<1>9. QED
    BY <1>4, <1>5, <1>6, <1>7, <1>8

LEMMA UpdateStep ==
    ASSUME TypeInv, NEW s \in Shell, Update(s)
    PROVE  TypeInv' /\ Allowed(s)
<1> PICK st : st = Head(todo[s])
    OBVIOUS
<1> PICK c : c = call[s]
    OBVIOUS
<1>1. todo[s] # <<>> /\ st.do = "update" /\ Continues(s, <<>>) /\ UpdateContent(st.at, st.node)
    BY DEF Update, Do
<1>2. st \in Plan(c) /\ st \in Stmts /\ c \in Requests /\ row \in Tree /\ Tail(todo[s]) # todo[s]
    BY <1>1, HeadFacts DEF TypeInv
<1>3. st.at \in Path /\ st.node \in Node /\ st.at \in Within(Target(c)) /\ st.node.kind = "file"
    BY <1>1, <1>2 DEF Stmts, Plan
<1>4. row' \in Tree /\ \A q \in Path : row'[q] # row[q] =>
          q = st.at /\ Is(row, q, "file") /\ Is(row', q, "file")
    <2>1. CASE Is(row, st.at, "file")
        <3>1. row' = [row EXCEPT ![st.at] = st.node] /\ row \in [Path -> Node]
            BY <1>1, <2>1, <1>2 DEF UpdateContent, Set, Tree
        <3>2. QED
            BY <1>3, <2>1, <3>1 DEF Is, Tree
    <2>2. CASE ~Is(row, st.at, "file")
        BY <1>1, <1>2, <2>2 DEF UpdateContent
    <2>3. QED
        BY <2>1, <2>2
<1>5. TypeInv' /\ todo'[s] = Tail(todo[s])
    BY <1>1, <1>4, EmptyPlan, ContinuesTyped
<1>6. QED
    BY <1>1, <1>2, <1>3, <1>4, <1>5 DEF Allowed, Covers, Do

LEMMA DeleteBelowStep ==
    ASSUME TypeInv, NEW s \in Shell, DeleteBelow(s)
    PROVE  TypeInv' /\ Allowed(s)
<1> PICK st : st = Head(todo[s])
    OBVIOUS
<1> PICK c : c = call[s]
    OBVIOUS
<1>1. /\ todo[s] # <<>> /\ st.do = "deleteBelow" /\ Continues(s, <<>>)
      /\ row' = [q \in Path |-> IF LikeBelow(st.at, q) THEN Absent ELSE row[q]]
    BY DEF DeleteBelow, Do
<1>2. c.op = "rm" /\ st.at = c.at /\ row \in [Path -> Node] /\ Absent \in Node
    BY <1>1, HeadFacts, NodeFacts DEF Plan, TypeInv, Tree
<1>3. row' \in Tree
    BY <1>1, <1>2 DEF Tree
<1>4. \A q \in Path : row'[q] # row[q] => LikeBelow(c.at, q) /\ row'[q] = Absent
    BY <1>1, <1>2
<1>5. \A q \in Path : LikeBelow(c.at, q) => Covers(c, q)
    BY <1>2 DEF LikeBelow, Covers
<1>6. TypeInv'
    BY <1>1, <1>3, EmptyPlan, ContinuesTyped
<1>7. QED
    BY <1>4, <1>5, <1>6 DEF Allowed

LEMMA RenameStep ==
    ASSUME TypeInv, NEW s \in Shell, Rename(s)
    PROVE  TypeInv' /\ Allowed(s)
<1> PICK st : st = Head(todo[s])
    OBVIOUS
<1> PICK c : c = call[s]
    OBVIOUS
<1>1. todo[s] # <<>> /\ st.do = "rename"
    BY DEF Rename, Do
<1>2. /\ st \in Plan(c) /\ c \in Requests /\ row \in [Path -> Node] /\ Absent \in Node
      /\ \A n \in Node : n.kind = "none" => n = Absent
    BY <1>1, HeadFacts, NodeFacts DEF TypeInv, Tree
<1>3. c.op = "mv" /\ st.at = c.at /\ st.to = c.to /\ c.at \in Path /\ c.to \in Path
    BY <1>1, <1>2, RequestFacts DEF Plan
<1>4. \/ Throws(s)
      \/ row' = row /\ Continues(s, <<>>)
      \/ /\ row[c.to].kind = "none" /\ row[c.at].kind # "none" /\ Continues(s, <<>>)
         /\ row' = [row EXCEPT ![c.to] = row[c.at], ![c.at] = Absent]
    BY <1>3 DEF Rename, Is
<1>5. CASE Throws(s)
    BY <1>5, ThrowsTyped, SameAllowed
<1>6. CASE row' = row /\ Continues(s, <<>>)
    BY <1>1, <1>6, SameAllowed, EmptyPlan, ContinuesTyped
<1>7. CASE /\ row[c.to].kind = "none" /\ row[c.at].kind # "none" /\ Continues(s, <<>>)
           /\ row' = [row EXCEPT ![c.to] = row[c.at], ![c.at] = Absent]
    <2>1. /\ row' \in [Path -> Node] /\ row'[c.at] = Absent /\ row[c.to] = Absent
          /\ \A q \in Path : row'[q] # row[q] => q \in {c.at, c.to}
        BY <1>2, <1>3, <1>7
    <2>2. c.at \in Within(c.at) /\ c.to \in Within(Target(c))
        BY <1>3, WithinFacts DEF Target
    <2>3. Covers(c, c.at) /\ Covers(c, c.to)
        BY <1>3, <2>2 DEF Covers
    <2>4. TypeInv'
        BY <1>1, <1>7, <2>1, EmptyPlan, ContinuesTyped DEF Tree
    <2>5. QED
        BY <2>1, <2>3, <2>4 DEF Allowed
<1>8. QED
    BY <1>4, <1>5, <1>6, <1>7

\* The UPDATE of the rows below, in terms of the operation.
MovingBelow(c) == {q \in Path : LikeBelow(c.at, q) /\ ~Is(row, q, "none")}
Goal(c, q)   == Respelt(q, c.at, c.to)
Shared(c, q) == \E r \in MovingBelow(c) : r # q /\ Goal(c, r) = Goal(c, q)
Taken(c, q)  == Goal(c, q) # q /\ ~Is(row, Goal(c, q), "none")
MayClash(c)  == \E q \in MovingBelow(c) : Shared(c, q) \/ Taken(c, q)
MustClash(c) == \E q \in MovingBelow(c) :
                   Shared(c, q) \/ (Taken(c, q) /\ Goal(c, q) \notin MovingBelow(c))

LEMMA RenameBelowEffect ==
    ASSUME TypeInv, NEW s \in Shell, RenameBelow(s)
    PROVE  /\ call[s] \in Requests /\ call[s].op = "mv" /\ todo[s] # <<>> /\ Do(s, "renameBelow")
           /\ \/ MayClash(call[s]) /\ Throws(s)
              \/ /\ ~MustClash(call[s]) /\ Continues(s, <<>>)
                 /\ \E F : row' = [p \in Path |-> F[p]]
                 /\ \A q \in MovingBelow(call[s]) : Goal(call[s], q) \in Path /\ row'[Goal(call[s], q)] = row[q]
                 /\ \A p \in Path : (\A q \in MovingBelow(call[s]) : Goal(call[s], q) # p) =>
                       row'[p] = IF p \in MovingBelow(call[s]) THEN Absent ELSE row[p]
<1> PICK c : c = call[s]
    OBVIOUS
<1>1. todo[s] # <<>> /\ Head(todo[s]).do = "renameBelow" /\ Do(s, "renameBelow")
    BY DEF RenameBelow, Do
<1>2. c \in Requests /\ c.op = "mv" /\ Head(todo[s]).at = c.at /\ Head(todo[s]).to = c.to
    BY <1>1, HeadFacts DEF Plan
<1> DEFINE from == Head(todo[s]).at
           to   == Head(todo[s]).to
           moving == {q \in Path : LikeBelow(from, q) /\ ~Is(row, q, "none")}
           goal(q) == Respelt(q, from, to)
           shared(q) == \E r \in moving : r # q /\ goal(r) = goal(q)
           taken(q) == goal(q) # q /\ ~Is(row, goal(q), "none")
           may  == \E q \in moving : shared(q) \/ taken(q)
           must == \E q \in moving : shared(q) \/ (taken(q) /\ goal(q) \notin moving)
           after == [p \in Path |->
                    IF \E q \in moving : goal(q) = p
                    THEN row[CHOOSE q \in moving : goal(q) = p]
                    ELSE IF p \in moving THEN Absent ELSE row[p]]
<1>3. \/ may /\ Throws(s)
      \/ ~must /\ row' = after /\ Continues(s, <<>>)
    BY ONLY RenameBelow(s) DEF RenameBelow
<1>4. moving = MovingBelow(c) /\ (\A q : goal(q) = Goal(c, q)) /\ (may <=> MayClash(c)) /\ (must <=> MustClash(c))
    <2>1. moving = MovingBelow(c)
        BY <1>2 DEF MovingBelow
    <2>2. \A q : goal(q) = Goal(c, q)
        BY <1>2 DEF Goal
    <2> HIDE DEF moving, goal
    <2>3. \A q : (shared(q) <=> Shared(c, q)) /\ (taken(q) <=> Taken(c, q))
        BY ONLY <2>1, <2>2 DEF Shared, Taken
    <2> HIDE DEF shared, taken
    <2>4. (may <=> MayClash(c)) /\ (must <=> MustClash(c))
        BY ONLY <2>1, <2>2, <2>3 DEF MayClash, MustClash
    <2>5. QED
        BY <2>1, <2>2, <2>4
<1>5. CASE may /\ Throws(s)
    BY <1>1, <1>2, <1>4, <1>5
<1>6. CASE ~must /\ row' = after /\ Continues(s, <<>>)
    <2>1. \A q \in moving : goal(q) \in Path
        <3>1. ASSUME NEW q \in moving PROVE Respelt(q, c.at, c.to) \in Path
            <4>1. q \in Path /\ Matches(c.at, q)
                BY <1>2, <3>1 DEF LikeBelow
            <4>2. QED
                BY <1>2, <4>1, RespeltPath
        <3>2. QED
            BY <1>2, <3>1
    <2>2. \A q \in moving : \A r \in moving : goal(r) = goal(q) => r = q
        BY <1>6
    <2> HIDE DEF moving, goal
    <2>3. \A q \in moving : row'[goal(q)] = row[q]
        <3>1. ASSUME NEW q \in moving PROVE row'[goal(q)] = row[q]
            <4>1. PICK r : r = CHOOSE x \in moving : goal(x) = goal(q)
                OBVIOUS
            <4>2. r \in moving /\ goal(r) = goal(q)
                BY <3>1, <4>1
            <4>3. r = q
                BY <2>2, <3>1, <4>2
            <4>4. QED
                BY <1>6, <2>1, <3>1, <4>1, <4>3
        <3>2. QED
            BY <3>1
    <2>4. \A p \in Path : (\A q \in moving : goal(q) # p) => row'[p] = IF p \in moving THEN Absent ELSE row[p]
        BY <1>6
    <2>5. \E F : row' = [p \in Path |-> F[p]]
        BY <1>6
    <2>6. QED
        BY <1>1, <1>2, <1>4, <1>6, <2>1, <2>3, <2>4, <2>5
<1>7. QED
    BY <1>3, <1>5, <1>6

LEMMA RenameBelowStep ==
    ASSUME TypeInv, NEW s \in Shell, RenameBelow(s)
    PROVE  TypeInv' /\ Allowed(s)
<1> PICK c : c = call[s]
    OBVIOUS
<1>1. /\ c \in Requests /\ c.op = "mv" /\ todo[s] # <<>> /\ Do(s, "renameBelow")
      /\ c.at \in Path /\ c.to \in Path /\ row \in [Path -> Node] /\ Absent \in Node
    BY RenameBelowEffect, RequestFacts, NodeFacts DEF TypeInv, Tree
<1>2. CASE Throws(s)
    BY <1>2, ThrowsTyped, SameAllowed
<1>3. CASE ~Throws(s)
    <2>1. /\ ~MustClash(c) /\ Continues(s, <<>>)
          /\ \E F : row' = [p \in Path |-> F[p]]
          /\ \A q \in MovingBelow(c) : Goal(c, q) \in Path /\ row'[Goal(c, q)] = row[q]
          /\ \A p \in Path : (\A q \in MovingBelow(c) : Goal(c, q) # p) =>
                row'[p] = IF p \in MovingBelow(c) THEN Absent ELSE row[p]
        BY <1>3, RenameBelowEffect
    <2>2. \A q \in MovingBelow(c) : q \in Path /\ Matches(c.at, q)
        BY DEF MovingBelow, LikeBelow
    <2>3. ASSUME NEW p \in Path
          PROVE  /\ row'[p] \in Node
                 /\ row'[p] # row[p] =>
                       Covers(c, p) /\ (row[p] = Absent \/ row'[p] = Absent \/ Matches(c.at, p))
        <3>1. CASE \E q \in MovingBelow(c) : Goal(c, q) = p
            <4>1. PICK q \in MovingBelow(c) : Goal(c, q) = p
                BY <3>1
            <4>2. q \in Path /\ Matches(c.at, q) /\ p = Respelt(q, c.at, c.to) /\ row'[p] = row[q]
                BY <2>1, <2>2, <4>1 DEF Goal
            <4>3. Covers(c, p)
                BY <1>1, <4>2 DEF Covers
            <4>4. p = q \/ Is(row, p, "none") \/ p \in MovingBelow(c)
                BY <2>1, <4>1 DEF MustClash, Taken
            <4>5. row[p] \in Node
                BY <1>1
            <4>6. row'[p] = row[p] \/ row[p] = Absent \/ Matches(c.at, p)
                BY <2>2, <4>2, <4>4, <4>5, NodeFacts DEF Is
            <4>7. QED
                BY <1>1, <4>2, <4>3, <4>6
        <3>2. CASE ~(\E q \in MovingBelow(c) : Goal(c, q) = p)
            <4>1. row'[p] = IF p \in MovingBelow(c) THEN Absent ELSE row[p]
                BY <2>1, <3>2
            <4>2. p \in MovingBelow(c) => Covers(c, p)
                BY <1>1, <2>2 DEF Covers
            <4>3. QED
                BY <1>1, <4>1, <4>2
        <3>3. QED
            BY <3>1, <3>2
    <2>4. row' \in [Path -> Node]
        BY <2>1, <2>3
    <2>5. TypeInv' /\ todo'[s] = Tail(todo[s])
        BY <1>1, <2>1, <2>4, EmptyPlan, ContinuesTyped DEF Tree
    <2>6. todo'[s] # todo[s]
        BY <1>1, <2>5, HeadFacts
    <2>7. QED
        BY <1>1, <2>3, <2>5, <2>6 DEF Allowed
<1>4. QED
    BY <1>2, <1>3

\* A statement that fails changes no row, and what its operation goes on with is
\* among the statements the operation may be made of.
LEMMA FailsStep ==
    ASSUME TypeInv, NEW s \in Shell, StatementFails(s)
    PROVE  TypeInv' /\ row' = row
<1> PICK st : st = Head(todo[s])
    OBVIOUS
<1> PICK c : c = call[s]
    OBVIOUS
<1>1. todo[s] # <<>>
    BY DEF StatementFails
<1>2. st \in Plan(c) /\ st \in Stmts /\ c \in Requests /\ row \in Tree
    BY <1>1, HeadFacts DEF TypeInv
<1>3. st.at \in Path /\ st.node \in Node /\ c.at \in Path /\ c.chunk \in Chunk
    BY <1>2, RequestFacts DEF Stmts
<1>4. ASSUME Misread(c, st) PROVE AfterMisreading(c, st) \in Seq(Plan(c))
    <2>1. CASE st.do = "call" /\ c.op \in {"write", "append"}
        <3>1. c.at \in Within(Target(c)) /\ {c.chunk} \in Text
            BY <1>3, <2>1, WithinFacts, TextFacts DEF Target
        <3>2. WriteNew(c.at, {c.chunk}) \in Seq(Plan(c))
            BY <1>2, <3>1, WriteStepsPlanned
        <3>3. PICK m : m = Put("rewrite", c.at, File({c.chunk}))
            OBVIOUS
        <3>4. m \in Plan(c)
            BY <1>2, <3>1, <3>3, NodeFacts, OnePlanned
        <3>5. <<m>> \in Seq(Plan(c))
            BY <3>4, ShortSeqs
        <3>6. AfterMisreading(c, st) \in {WriteNew(c.at, {c.chunk}), <<m>>}
            BY <2>1, <3>3 DEF AfterMisreading
        <3>7. QED
            BY <3>2, <3>5, <3>6
    <2>2. CASE st.do \in {"rewrite", "copyTo", "createOrUpdate"}
        <3>1. st.at \in Within(Target(c)) /\ st.node.kind = "file"
            BY <1>2, <2>2 DEF Plan
        <3>2. st.node.text \in Text
            BY <1>3, <3>1, NodeFacts
        <3>3. WriteNew(st.at, st.node.text) \in Seq(Plan(c))
            BY <1>2, <3>1, <3>2, WriteStepsPlanned
        <3>4. PICK m : m = Put("create", st.at, st.node)
            OBVIOUS
        <3>5. PICK u : u = Put("update", st.at, st.node)
            OBVIOUS
        <3>6. m \in Plan(c) /\ u \in Plan(c)
            BY <1>2, <1>3, <3>1, <3>4, <3>5, OnePlanned
        <3>7. <<m>> \in Seq(Plan(c)) /\ <<u>> \in Seq(Plan(c))
            BY <3>6, ShortSeqs
        <3>8. AfterMisreading(c, st) \in {WriteNew(st.at, st.node.text), <<m>>, <<u>>}
            BY <2>2, <3>4, <3>5 DEF AfterMisreading
        <3>9. QED
            BY <3>3, <3>7, <3>8
    <2>3. QED
        BY <1>4, <2>1, <2>2 DEF Misread
<1>5. \/ Throws(s)
      \/ row' = row /\ \E steps \in Seq(Plan(c)) : Continues(s, steps)
    BY <1>4, EmptyPlan DEF StatementFails
<1>6. QED
    BY <1>1, <1>2, <1>5, ThrowsTyped, ContinuesTyped

LEMMA StatementStep ==
    ASSUME TypeInv, NEW s \in Shell, Statement(s)
    PROVE  TypeInv' /\ Allowed(s)
BY FirstSelectStep, EnsureParentStep, LookingStep, RowStep, UpdateStep, DeleteBelowStep, RenameStep,
   RenameBelowStep, SameAllowed DEF Statement

LEMMA NextStep ==
    ASSUME TypeInv, Next
    PROVE  TypeInv' /\ (row' = row \/ \E s \in Shell : Allowed(s))
<1>1. CASE \E s \in Shell : \E c \in Requests : Begin(s, c)
    BY <1>1, BeginStep
<1>2. CASE \E s \in Shell : Return(s)
    BY <1>2, ReturnStep
<1>3. CASE \E s \in Shell : Statement(s)
    BY <1>3, StatementStep
<1>4. CASE \E s \in Shell : StatementFails(s)
    BY <1>4, FailsStep
<1>5. QED
    BY <1>1, <1>2, <1>3, <1>4 DEF Next

-----------------------------------------------------------------------------
(* What holds however many shells work on the workspace *)

\* The typing of the state, with every statement within the reach of its
\* operation: an invariant of the specification.
THEOREM Typed == Spec => []TypeInv
<1>1. Init => TypeInv
    <2>1. NoRows \in Tree
        BY NodeFacts DEF NoRows, Tree
    <2>2. QED
        BY <2>1, EmptyPlan DEF Init, TypeInv
<1>2. TypeInv /\ [Next]_vars => TypeInv'
    <2>1. ASSUME TypeInv, UNCHANGED vars PROVE TypeInv'
        BY <2>1 DEF vars, TypeInv
    <2>2. QED
        BY <2>1, NextStep
<1>3. QED
    BY <1>1, <1>2, PTL DEF Spec

\* A row is a file, a directory or nothing, and a statement of an operation
\* under way names paths of the tree, also when a destination is made from them.
THEOREM TypeCorrect == Spec => []TypeOK
<1>1. TypeInv => TypeOK
    <2>1. SUFFICES ASSUME TypeInv, NEW s \in Shell, NEW i \in 1..Len(todo[s])
                   PROVE  todo[s][i] \in Stmts
        <3>1. TypeInv => /\ row \in Tree /\ before \in Tree
                         /\ \A s \in Shell : call[s] \in Requests \cup {Nothing} /\ failed[s] \in BOOLEAN
            BY DEF TypeInv
        <3>2. \A st \in Stmts : st.do \in Verbs /\ st.at \in Path /\ st.to \in Path /\ st.node \in Node
            BY DEF Stmts
        <3>3. QED
            BY <2>1, <3>1, <3>2 DEF TypeOK
    <2>2. todo[s] \in Seq(Stmts)
        BY <2>1 DEF TypeInv
    <2>3. QED
        BY <2>2, ElementOfSeq
<1>2. QED
    BY <1>1, Typed, PTL

\* Whatever other shells do at the same time and whatever fails, a statement
\* changes rows at or below the paths of its operation, where its name matches as
\* a pattern and, for mv, where such a match ends up; and it makes missing
\* directories above.
THEOREM ChangesStayInPlace == Spec => OthersUntouched
<1>1. TypeInv /\ [Next]_vars =>
          [\A p \in Path : row'[p] # row[p] =>
              \E s \in Shell :
                 \/ Covers(call[s], p)
                 \/ p \in Above(Target(call[s])) /\ row[p] = Absent /\ row'[p] = Dir]_vars
    <2>1. ASSUME TypeInv, Next, NEW p \in Path, row'[p] # row[p]
          PROVE  \E s \in Shell :
                    \/ Covers(call[s], p)
                    \/ p \in Above(Target(call[s])) /\ row[p] = Absent /\ row'[p] = Dir
        BY <2>1, NextStep DEF Allowed
    <2>2. QED
        BY <2>1
<1>2. QED
    BY <1>1, Typed, PTL DEF Spec, OthersUntouched

\* Of two shells that create one path, one fails: nothing that exists is
\* replaced, but by an update of a file, or by a row of the same mv as it.
THEOREM CreationIsExclusive == Spec => CreatesAreExclusive
<1>1. TypeInv /\ [Next]_vars =>
          [\A p \in Path :
              row[p] # Absent /\ row'[p] # Absent /\ row'[p] # row[p] =>
                  \E s \in Shell : /\ todo'[s] # todo[s]
                                   /\ \/ Do(s, "update") /\ Is(row, p, "file") /\ Is(row', p, "file")
                                      \/ Do(s, "renameBelow") /\ Matches(call[s].at, p)]_vars
    <2>1. ASSUME TypeInv, Next, NEW p \in Path, row[p] # Absent, row'[p] # Absent, row'[p] # row[p]
          PROVE  \E s \in Shell : /\ todo'[s] # todo[s]
                                  /\ \/ Do(s, "update") /\ Is(row, p, "file") /\ Is(row', p, "file")
                                     \/ Do(s, "renameBelow") /\ Matches(call[s].at, p)
        BY <2>1, NextStep DEF Allowed
    <2>2. QED
        BY <2>1
<1>2. QED
    BY <1>1, Typed, PTL DEF Spec, CreatesAreExclusive

-----------------------------------------------------------------------------
(* mv keeps what it moves, wherever it ends *)

\* What is left of the statements of a mv: the parents of the destination, the
\* row in its way, the row of the source and the rows below it, in this order.
MvTodo(c, q) ==
    /\ \A i \in 1..Len(q) : /\ q[i].do \in {"parent", "deleteRow", "rename", "renameBelow"}
                            /\ q[i].do = "deleteRow" => q[i].at = c.to
    /\ \A i, j \in 1..Len(q) : i < j =>
          /\ q[i].do = "deleteRow" => q[j].do \in {"rename", "renameBelow"}
          /\ q[i].do = "rename" => q[j].do = "renameBelow"
          /\ q[i].do # "renameBelow"
    /\ \A i \in 1..Len(q) : q[i].do = "deleteRow" => \E j \in 1..Len(q) : q[j].do = "rename"

Pending(s, do) == \E i \in 1..Len(todo[s]) : todo[s][i].do = do

\* The files a mv is moving are in their old places until its UPDATEs.
Untouched(s) ==
    \A q \in Within(call[s].at) : Is(before, q, "file") =>
        /\ Pending(s, "call") \/ Pending(s, "rename") => row[q] = before[q]
        /\ Pending(s, "renameBelow") /\ q # call[s].at => row[q] = before[q]

Spared(s) ==
    \A q \in Within(call[s].at) : Is(before, q, "file") =>
        row[q] = before[q] \/ row[Moved(q, call[s].at, call[s].to)] = before[q]

MoveInv ==
    /\ (\A s \in Shell : Shell # {s}) => before = NoRows
    /\ \A s \in Shell : call[s].op = "mv" =>
          /\ todo[s] = <<On("call", call[s].at)>> \/ MvTodo(call[s], todo[s])
          /\ call[s].to # call[s].at => Untouched(s) /\ Spared(s)

LEMMA TailFacts ==
    ASSUME NEW S, NEW q \in Seq(S), q # <<>>
    PROVE  /\ Head(q) = q[1] /\ 1 \in 1..Len(q) /\ Len(q) \in Nat
           /\ Tail(q) \in Seq(S) /\ Len(Tail(q)) = Len(q) - 1
           /\ \A i \in 1..Len(Tail(q)) : i + 1 \in 1..Len(q) /\ Tail(q)[i] = q[i + 1]
           /\ \A i \in 1..Len(q) : i # 1 => i - 1 \in 1..Len(Tail(q)) /\ q[i] = Tail(q)[i - 1]
<1>1. Len(q) \in Nat /\ Len(q) >= 1 /\ Head(q) = q[1]
    BY HeadTailProperties, LenProperties, EmptySeq
<1>2. PICK t : t = Tail(q)
    OBVIOUS
<1>3. t \in Seq(S) /\ Len(t) = Len(q) - 1 /\ \A i \in 1..Len(t) : t[i] = q[i + 1]
    BY <1>2, HeadTailProperties
<1>4. \A i \in 1..Len(t) : i + 1 \in 1..Len(q)
    BY ONLY <1>1, <1>3
<1>5. ASSUME NEW i \in 1..Len(q), i # 1 PROVE i - 1 \in 1..Len(t) /\ q[i] = t[i - 1]
    <2>1. PICK k : k = i - 1
        OBVIOUS
    <2>2. k \in 1..Len(t) /\ k + 1 = i
        BY ONLY <1>1, <1>3, <1>5, <2>1
    <2>3. t[k] = q[k + 1]
        BY <1>3, <2>2
    <2>4. QED
        BY <2>1, <2>2, <2>3
<1>6. QED
    BY <1>1, <1>2, <1>3, <1>4, <1>5

LEMMA MvTodoTail ==
    ASSUME NEW c, NEW S, NEW q \in Seq(S), q # <<>>, MvTodo(c, q)
    PROVE  MvTodo(c, Tail(q))
<1> PICK t : t = Tail(q)
    OBVIOUS
<1>1. /\ Len(q) \in Nat /\ 1 \in 1..Len(q) /\ Len(t) = Len(q) - 1
      /\ \A i \in 1..Len(t) : i + 1 \in 1..Len(q) /\ t[i] = q[i + 1]
      /\ \A i \in 1..Len(q) : i # 1 => i - 1 \in 1..Len(t) /\ q[i] = t[i - 1]
    BY TailFacts
<1>2. \A i \in 1..Len(t) : /\ t[i].do \in {"parent", "deleteRow", "rename", "renameBelow"}
                           /\ t[i].do = "deleteRow" => t[i].at = c.to
    BY <1>1 DEF MvTodo
<1>3. ASSUME NEW i \in 1..Len(t), NEW j \in 1..Len(t), i < j
      PROVE  /\ t[i].do = "deleteRow" => t[j].do \in {"rename", "renameBelow"}
             /\ t[i].do = "rename" => t[j].do = "renameBelow"
             /\ t[i].do # "renameBelow"
    <2>1. i + 1 \in 1..Len(q) /\ t[i] = q[i + 1] /\ j + 1 \in 1..Len(q) /\ t[j] = q[j + 1]
        BY <1>1
    <2>2. i + 1 < j + 1
        BY <1>3
    <2>3. QED
        BY <2>1, <2>2 DEF MvTodo
<1>4. ASSUME NEW i \in 1..Len(t), t[i].do = "deleteRow"
      PROVE  \E j \in 1..Len(t) : t[j].do = "rename"
    <2>1. i + 1 \in 1..Len(q) /\ q[i + 1].do = "deleteRow" /\ 1 < i + 1
        BY <1>1, <1>4
    <2>2. PICK j \in 1..Len(q) : q[j].do = "rename"
        BY <2>1 DEF MvTodo
    <2>3. j # 1
        BY <1>1, <2>1, <2>2 DEF MvTodo
    <2>4. QED
        BY <1>1, <2>2, <2>3
<1>5. QED
    BY <1>2, <1>3, <1>4 DEF MvTodo

\* The statements of a mv: n directories to make, and then two or three.
MvForm(c, q, n) ==
    /\ n \in Nat /\ Len(q) = IF Is(row, c.at, "dir") THEN n + 3 ELSE n + 2
    /\ \A i \in 1..n : q[i] = On("parent", SubSeq(c.to, 1, i))
    /\ q[n + 1] = On("deleteRow", c.to)
    /\ q[n + 2] = FromTo("rename", c.at, c.to)
    /\ Is(row, c.at, "dir") => q[n + 3] = FromTo("renameBelow", c.at, c.to)

LEMMA MvStepsForm ==
    ASSUME TypeInv, NEW c \in Requests, c.op = "mv"
    PROVE  MvForm(c, MvSteps(c), Len(c.to) - 1)
<1> DEFINE n == Len(c.to) - 1
           d == On("deleteRow", c.to)
           r == FromTo("rename", c.at, c.to)
           b == FromTo("renameBelow", c.at, c.to)
           pre == Parents(c.to)
<1>1. c.to \in Path /\ c.to # Root /\ c.at \in Path /\ n \in Nat
    BY RequestFacts, PathType
<1>3. pre = [i \in 1..n |-> On("parent", SubSeq(c.to, 1, i))]
    BY DEF Parents, AllPrefixes
<1>4. \A i \in 1..n : pre[i] = On("parent", SubSeq(c.to, 1, i))
    BY <1>3
<1>5. Target(c) = c.to /\ c.to \in Within(Target(c))
    BY <1>1, WithinFacts DEF Target
<1>6. n \in 0..Len(c.to)
    BY <1>1
<1>7. pre \in Seq(Plan(c)) /\ Len(pre) = n
    <2>1. pre \in Seq(Plan(c))
        BY <1>5, <1>6, PrefixesPlanned DEF Parents
    <2>2. DOMAIN pre = 1..n
        BY <1>3
    <2>3. DOMAIN pre = 1..Len(pre) /\ Len(pre) \in Nat
        BY <2>1, LenProperties
    <2>4. QED
        BY <1>1, <2>1, <2>2, <2>3
<1> HIDE DEF n, d, r, b, pre
<1>8. PICK last : last = IF Is(row, c.at, "dir") THEN <<b>> ELSE <<>>
    OBVIOUS
<1>9. PICK S : pre \in Seq(S) /\ d \in S /\ r \in S /\ b \in S
    <2>1. d \in Plan(c) /\ r \in Plan(c) /\ b \in Plan(c)
        BY <1>5, OnePlanned DEF d, r, b
    <2>2. QED
        BY <1>7, <2>1
<1>10. PICK q : q = pre \o <<d, r>> \o last
    OBVIOUS
<1>11. MvSteps(c) = q
    BY <1>8, <1>10 DEF MvSteps, pre, d, r, b
<1>12. /\ Len(q) = (IF Is(row, c.at, "dir") THEN n + 3 ELSE n + 2) /\ (\A i \in 1..n : q[i] = pre[i])
       /\ q[n + 1] = d /\ q[n + 2] = r /\ (Is(row, c.at, "dir") => q[n + 3] = b)
    <2>1. PICK x : x = pre \o <<d, r>>
        OBVIOUS
    <2>2. /\ x \in Seq(S) /\ Len(x) = n + 2 /\ (\A i \in 1..n : x[i] = pre[i]) /\ x[n + 1] = d /\ x[n + 2] = r
        <3>1. PICK y : y = <<d, r>>
            OBVIOUS
        <3>2. y \in Seq(S) /\ Len(y) = 2 /\ y[1] = d /\ y[2] = r
            BY ONLY <1>9, <3>1
        <3>3. /\ x = pre \o y /\ x \in Seq(S) /\ Len(x) = Len(pre) + 2
              /\ \A i \in 1..Len(pre) + 2 : x[i] = IF i <= Len(pre) THEN pre[i] ELSE y[i - Len(pre)]
            BY <1>9, <2>1, <3>1, <3>2, ConcatProperties
        <3>4. n + 1 \in 1..n + 2 /\ n + 2 \in 1..n + 2 /\ ~(n + 1 <= n) /\ ~(n + 2 <= n)
              /\ n + 1 - n = 1 /\ n + 2 - n = 2 /\ (\A i \in 1..n : i \in 1..n + 2 /\ i <= n)
            BY ONLY <1>1
        <3>5. QED
            BY ONLY <1>7, <3>2, <3>3, <3>4
    <2>3. CASE ~Is(row, c.at, "dir") /\ last = <<>>
        <3>1. q = x
            BY <1>10, <2>1, <2>2, <2>3
        <3>2. QED
            BY <1>1, <2>2, <2>3, <3>1
    <2>4. CASE Is(row, c.at, "dir") /\ last = <<b>>
        <3>1. q = x \o <<b>>
            BY <1>10, <2>1, <2>4
        <3>2. Len(q) = n + 3 /\ q[n + 3] = b /\ \A i \in 1..n + 2 : q[i] = x[i]
            BY ONLY <1>1, <1>9, <2>2, <3>1
        <3>3. QED
            BY <1>1, <2>2, <2>4, <3>2
    <2>5. QED
        BY <1>8, <2>3, <2>4
<1>13. MvForm(c, q, n)
    BY <1>1, <1>4, <1>12 DEF MvForm, d, r, b
<1>14. QED
    BY <1>11, <1>13 DEF n

LEMMA MvStepsOrdered ==
    ASSUME TypeInv, NEW c \in Requests, c.op = "mv"
    PROVE  MvTodo(c, MvSteps(c))
<1>1. PICK q : q = MvSteps(c)
    OBVIOUS
<1>2. PICK n : MvForm(c, q, n)
    BY <1>1, MvStepsForm
<1>3. /\ \A i \in 1..n : On("parent", SubSeq(c.to, 1, i)).do = "parent"
      /\ On("deleteRow", c.to).do = "deleteRow" /\ On("deleteRow", c.to).at = c.to
      /\ FromTo("rename", c.at, c.to).do = "rename" /\ FromTo("renameBelow", c.at, c.to).do = "renameBelow"
    BY DEF On, FromTo, Stmt
<1>4. /\ n \in Nat /\ Len(q) \in {n + 2, n + 3} /\ (Len(q) = n + 3 => Is(row, c.at, "dir"))
    BY <1>2 DEF MvForm
<1>5. \A i \in 1..Len(q) : i \in 1..n \/ i = n + 1 \/ i = n + 2 \/ (i = n + 3 /\ Len(q) = n + 3)
    BY <1>4
<1>6. /\ \A i \in 1..n : q[i].do = "parent"
      /\ q[n + 1].do = "deleteRow" /\ q[n + 1].at = c.to /\ q[n + 2].do = "rename"
      /\ Len(q) = n + 3 => q[n + 3].do = "renameBelow"
    BY <1>2, <1>3, <1>4 DEF MvForm
<1>7. n + 2 \in 1..Len(q)
    BY <1>4
<1>8. ASSUME NEW i \in 1..Len(q), NEW j \in 1..Len(q), i < j
       PROVE  /\ q[i].do = "deleteRow" => q[j].do \in {"rename", "renameBelow"}
              /\ q[i].do = "rename" => q[j].do = "renameBelow"
              /\ q[i].do # "renameBelow"
    <2>1. i \in 1..n \/ (i = n + 1 /\ (j = n + 2 \/ j = n + 3)) \/ (i = n + 2 /\ j = n + 3)
        BY <1>4, <1>5, <1>8
    <2>2. j = n + 3 => Len(q) = n + 3
        BY <1>4
    <2>3. QED
        BY <1>6, <2>1, <2>2
<1>9. QED
    BY <1>1, <1>5, <1>6, <1>7, <1>8 DEF MvTodo

LEMMA MovedSelf ==
    ASSUME NEW at \in Path, NEW to \in Path, Len(to) <= Len(at)
    PROVE  Moved(at, at, to) = to
<1>1. IsPrefix(at, at) /\ Len(at) \in Nat /\ Len(to) \in Nat /\ Len(at) <= Len(at)
    BY PrefixFacts, PathType
<1>2. PICK r : r = Moved(at, at, to)
    OBVIOUS
<1>3. r \in Within(to) /\ Len(r) - Len(to) = Len(at) - Len(at)
    BY <1>1, <1>2, MovedPath
<1>4. r \in Path /\ IsPrefix(to, r)
    BY <1>3 DEF Within
<1>5. Len(r) \in Nat
    BY <1>4, PathType
<1>6. Len(r) = Len(to)
    BY ONLY <1>1, <1>3, <1>5
<1>7. QED
    BY <1>2, <1>4, <1>6, PrefixFacts

\* A statement of s that leaves its mv in order leaves the others' so, too.
LEMMA MoveKept ==
    ASSUME TypeInv, MoveInv, NEW s \in Shell, call' = call, before' = before,
           \A t \in Shell : t # s => todo'[t] = todo[t],
           call[s].op = "mv" => MvTodo(call[s], todo'[s]),
           call[s].op = "mv" /\ call[s].to # call[s].at /\ Shell = {s} => (Untouched(s) /\ Spared(s))'
    PROVE  MoveInv'
<1>1. (\A t \in Shell : Shell # {t}) => before' = NoRows
    BY DEF MoveInv
<1>2. ASSUME NEW t \in Shell, call'[t].op = "mv"
      PROVE  /\ todo'[t] = <<On("call", call'[t].at)>> \/ MvTodo(call'[t], todo'[t])
             /\ call'[t].to # call'[t].at => (Untouched(t) /\ Spared(t))'
    <2>1. todo'[t] = <<On("call", call'[t].at)>> \/ MvTodo(call'[t], todo'[t])
        BY <1>2 DEF MoveInv
    <2>2. CASE Shell = {s}
        BY <1>2, <2>1, <2>2
    <2>3. CASE Shell # {s}
        <3>1. \A u \in Shell : Shell # {u}
            BY <2>3
        <3>2. before' = NoRows
            BY <1>1, <3>1
        <3>3. \A q \in Within(call'[t].at) : ~Is(before', q, "file")
            BY <3>2, NodeFacts DEF Is, NoRows, Within
        <3>4. QED
            BY <2>1, <3>3 DEF Untouched, Spared
    <2>4. QED
        BY <2>2, <2>3
<1>3. QED
    BY <1>1, <1>2 DEF MoveInv

\* The same files in the same places: what was spared is, and what waits is a part.
LEMMA MoveKeepsFiles ==
    ASSUME TypeInv, NEW s \in Shell, call[s].op = "mv", call' = call, before' = before,
           Untouched(s), Spared(s),
           \A q \in Path : Is(row, q, "file") => row'[q] = row[q],
           \A do : Pending(s, do)' => Pending(s, do) \/ (do \in {"rename", "renameBelow"} /\ Pending(s, "call"))
    PROVE  (Untouched(s) /\ Spared(s))'
<1> PICK at : at = call[s].at
    OBVIOUS
<1> PICK to : to = call[s].to
    OBVIOUS
<1>1. ASSUME NEW q \in Within(at), Is(before, q, "file")
      PROVE  /\ row[q] = before[q] => row'[q] = before[q]
             /\ Moved(q, at, to) \in Path
             /\ row[Moved(q, at, to)] = before[q] => row'[Moved(q, at, to)] = before[q]
    <2>1. call[s] \in Requests
        <3>1. call[s] \in Requests \cup {Nothing} /\ Nothing.op = "none"
            BY DEF TypeInv, Nothing, Call
        <3>2. QED
            BY <3>1
    <2>2. at \in Path /\ to \in Path /\ Len(to) <= Len(at) /\ q \in Path /\ Len(at) <= Len(q)
        BY <1>1, <2>1, RequestFacts, WithinFacts
    <2>3. Moved(q, at, to) \in Path
        BY <2>2, MovedPath DEF Within
    <2>4. QED
        BY <1>1, <2>2, <2>3 DEF Is
<1>2. ASSUME NEW q \in Within(at), Is(before, q, "file")
      PROVE  /\ Pending(s, "call")' \/ Pending(s, "rename")' => row'[q] = before[q]
             /\ Pending(s, "renameBelow")' /\ q # at => row'[q] = before[q]
    BY <1>1, <1>2 DEF Untouched
<1>3. ASSUME NEW q \in Within(at), Is(before, q, "file")
      PROVE  row'[q] = before[q] \/ row'[Moved(q, at, to)] = before[q]
    BY <1>1, <1>3 DEF Spared
<1>4. Untouched(s)'
    BY <1>2 DEF Untouched
<1>5. Spared(s)'
    BY <1>3 DEF Spared
<1>6. QED
    BY <1>4, <1>5

LEMMA MvFacts ==
    ASSUME TypeInv, NEW s \in Shell, call[s].op = "mv"
    PROVE  /\ call[s] \in Requests /\ call[s].at \in Path /\ call[s].to \in Path
           /\ call[s].at # Root /\ call[s].to # Root
           /\ Len(call[s].to) <= Len(call[s].at) /\ call[s].at \in Within(call[s].at)
           /\ call[s].to # call[s].at => call[s].to \notin Within(call[s].at)
           /\ row \in [Path -> Node] /\ before \in [Path -> Node]
           /\ \A q \in Within(call[s].at) : q \in Path /\ Moved(q, call[s].at, call[s].to) \in Within(call[s].to)
                 /\ Len(call[s].at) <= Len(q)
<1>1. call[s] \in Requests
    <2>1. call[s] \in Requests \cup {Nothing} /\ Nothing.op = "none"
        BY DEF TypeInv, Nothing, Call
    <2>2. QED
        BY <2>1
<1> PICK at : at = call[s].at
    OBVIOUS
<1> PICK to : to = call[s].to
    OBVIOUS
<1>2. at \in Path /\ to \in Path /\ at # Root /\ to # Root /\ Len(to) <= Len(at)
    BY <1>1, RequestFacts
<1>3. at \in Within(at)
    BY <1>2, WithinFacts
<1>4. to # at => to \notin Within(at)
    BY <1>2, PathType, PrefixFacts DEF Within
<1>5. \A q \in Within(at) : q \in Path /\ Moved(q, at, to) \in Within(to) /\ Len(at) <= Len(q)
    <2>1. \A q \in Within(at) : q \in Path /\ Len(at) <= Len(q)
        BY <1>2, WithinFacts
    <2>2. QED
        BY <1>2, <2>1, MovedPath
<1>6. QED
    BY <1>1, <1>2, <1>3, <1>4, <1>5 DEF TypeInv, Tree

LEMMA GoesFacts ==
    ASSUME TypeInv, NEW s \in Shell, NEW steps, Goes(s, steps) \/ (steps = <<>> /\ Throws(s))
    PROVE  call' = call /\ before' = before /\ todo'[s] = steps /\ \A t \in Shell : t # s => todo'[t] = todo[t]
<1>1. todo \in [Shell -> Seq(Stmts)]
    BY DEF TypeInv
<1>2. call' = call /\ before' = before /\ todo' = [todo EXCEPT ![s] = steps]
    BY DEF Goes, Throws
<1>3. QED
    BY <1>1, <1>2

LEMMA MvTodoEmpty == ASSUME NEW c PROVE MvTodo(c, <<>>)
<1>1. PICK e : e = <<>>
    OBVIOUS
<1>2. 1..Len(e) = {}
    BY <1>1
<1>3. MvTodo(c, e)
    BY <1>2 DEF MvTodo
<1>4. QED
    BY <1>1, <1>3

LEMMA MoveThrows ==
    ASSUME TypeInv, MoveInv, NEW s \in Shell, Throws(s)
    PROVE  MoveInv'
<1>1. call' = call /\ before' = before /\ todo'[s] = <<>> /\ row' = row
      /\ \A t \in Shell : t # s => todo'[t] = todo[t]
    BY GoesFacts DEF Throws
<1>2. \A do : ~Pending(s, do)'
    <2>1. PICK e : e = todo'[s]
        OBVIOUS
    <2>2. 1..Len(e) = {}
        BY <1>1, <2>1
    <2>3. QED
        BY <2>1, <2>2 DEF Pending
<1>3. MvTodo(call[s], todo'[s])
    BY <1>1, MvTodoEmpty
<1>4. ASSUME call[s].op = "mv", call[s].to # call[s].at PROVE (Untouched(s) /\ Spared(s))'
    BY <1>1, <1>2, <1>4, MoveKeepsFiles DEF MoveInv
<1>5. QED
    BY <1>1, <1>3, <1>4, MoveKept

LEMMA PendingTail ==
    ASSUME TypeInv, NEW s \in Shell, todo[s] # <<>>, todo'[s] = Tail(todo[s])
    PROVE  /\ \A do : Pending(s, do)' => Pending(s, do)
           /\ \A do : Pending(s, do) => Pending(s, do)' \/ Head(todo[s]).do = do
           /\ Pending(s, Head(todo[s]).do)
<1> PICK q : q = todo[s]
    OBVIOUS
<1> PICK t : t = todo'[s]
    OBVIOUS
<1>1. q \in Seq(Stmts)
    BY DEF TypeInv
<1>2. /\ Head(q) = q[1] /\ 1 \in 1..Len(q)
      /\ \A i \in 1..Len(t) : i + 1 \in 1..Len(q) /\ t[i] = q[i + 1]
      /\ \A i \in 1..Len(q) : i # 1 => i - 1 \in 1..Len(t) /\ q[i] = t[i - 1]
    BY <1>1, TailFacts
<1>3. ASSUME NEW do, \E i \in 1..Len(t) : t[i].do = do PROVE \E i \in 1..Len(q) : q[i].do = do
    BY <1>2, <1>3
<1>4. ASSUME NEW do, \E i \in 1..Len(q) : q[i].do = do
      PROVE  (\E i \in 1..Len(t) : t[i].do = do) \/ Head(q).do = do
    BY <1>2, <1>4
<1>5. QED
    BY <1>2, <1>3, <1>4 DEF Pending

LEMMA MoveHead ==
    ASSUME TypeInv, MoveInv, NEW s \in Shell, call[s].op = "mv", todo[s] # <<>>, Head(todo[s]).do # "call"
    PROVE  /\ MvTodo(call[s], todo[s]) /\ MvTodo(call[s], Tail(todo[s]))
           /\ Head(todo[s]).do \in {"parent", "deleteRow", "rename", "renameBelow"}
           /\ Head(todo[s]).do = "deleteRow" => Head(todo[s]).at = call[s].to /\ Pending(s, "rename")
           /\ todo'[s] = Tail(todo[s]) =>
                /\ ~Pending(s, "call")'
                /\ Head(todo[s]).do \in {"rename", "renameBelow"} => ~Pending(s, "rename")'
                /\ Head(todo[s]).do = "renameBelow" => ~Pending(s, "renameBelow")'
<1> PICK q : q = todo[s]
    OBVIOUS
<1> PICK t : t = Tail(todo[s])
    OBVIOUS
<1>1. q \in Seq(Stmts)
    BY DEF TypeInv
<1>2. /\ Head(q) = q[1] /\ 1 \in 1..Len(q) /\ Len(q) \in Nat
      /\ \A i \in 1..Len(t) : i + 1 \in 1..Len(q) /\ t[i] = q[i + 1] /\ 1 < i + 1
      /\ \A i \in 1..Len(q) : i # 1 => i - 1 \in 1..Len(t) /\ q[i] = t[i - 1]
    <2>1. \A i \in 1..Len(t) : 1 < i + 1
        OBVIOUS
    <2>2. QED
        BY <1>1, <2>1, TailFacts
<1>3. MvTodo(call[s], q)
    <2>1. q # <<On("call", call[s].at)>>
        <3>1. PICK x : x = On("call", call[s].at)
            OBVIOUS
        <3>2. x.do = "call" /\ <<x>>[1] = x
            BY <3>1 DEF On, Stmt
        <3>3. QED
            BY <1>2, <3>1, <3>2
    <2>2. QED
        BY <2>1 DEF MoveInv
<1>4. MvTodo(call[s], t)
    BY <1>1, <1>3, MvTodoTail
<1>5. q[1].do \in {"parent", "deleteRow", "rename", "renameBelow"}
    BY <1>2, <1>3 DEF MvTodo
<1>6. q[1].do = "deleteRow" => q[1].at = call[s].to /\ \E i \in 1..Len(q) : q[i].do = "rename"
    BY <1>2, <1>3 DEF MvTodo
<1>7. ~\E i \in 1..Len(t) : t[i].do = "call"
    BY <1>4 DEF MvTodo
<1>8. q[1].do \in {"rename", "renameBelow"} => ~\E i \in 1..Len(t) : t[i].do = "rename"
    BY <1>2, <1>3 DEF MvTodo
<1>9. q[1].do = "renameBelow" => ~\E i \in 1..Len(t) : t[i].do = "renameBelow"
    <2>1. \A i, j \in 1..Len(q) : i < j => q[i].do # "renameBelow"
        BY ONLY <1>3 DEF MvTodo
    <2>2. \A i \in 1..Len(t) : i + 1 \in 1..Len(q) /\ 1 < i + 1
        BY ONLY <1>2
    <2>3. 1 \in 1..Len(q)
        BY ONLY <1>2
    <2>4. QED
        BY ONLY <2>1, <2>2, <2>3
<1>10. todo'[s] = t =>
          /\ ~Pending(s, "call")'
          /\ Head(q).do \in {"rename", "renameBelow"} => ~Pending(s, "rename")'
          /\ Head(q).do = "renameBelow" => ~Pending(s, "renameBelow")'
    <2>1. \A do : todo'[s] = t => (Pending(s, do)' <=> \E i \in 1..Len(t) : t[i].do = do)
        BY DEF Pending
    <2>2. Head(q) = q[1]
        BY <1>2
    <2>3. QED
        BY ONLY <1>7, <1>8, <1>9, <2>1, <2>2
<1>11. Head(q).do = "deleteRow" => Pending(s, "rename")
    BY <1>2, <1>6 DEF Pending
<1>12. QED
    BY <1>2, <1>3, <1>4, <1>5, <1>6, <1>10, <1>11

\* The parents: only a missing row changes.
LEMMA MoveParentStep ==
    ASSUME TypeInv, MoveInv, NEW s \in Shell, call[s].op = "mv", EnsureParent(s)
    PROVE  MoveInv'
<1>1. /\ todo[s] # <<>> /\ Head(todo[s]).do = "parent" /\ Continues(s, <<>>)
      /\ LET p == Head(todo[s]).at IN
            IF Is(row, p, "none") THEN row' = [row EXCEPT ![p] = Dir] ELSE row' = row
    BY DEF EnsureParent, Do, Set
<1>2. call' = call /\ before' = before /\ todo'[s] = Tail(todo[s]) /\ \A t \in Shell : t # s => todo'[t] = todo[t]
    <2>1. PICK q : q = Tail(todo[s])
        OBVIOUS
    <2>2. q \in Seq(Plan(call[s]))
        BY <1>1, <2>1, HeadFacts
    <2>3. <<>> \o q = q
        BY <2>2
    <2>4. QED
        BY <1>1, <2>1, <2>3, GoesFacts DEF Continues
<1>3. \A q \in Path : Is(row, q, "file") => row'[q] = row[q]
    BY <1>1, MvFacts DEF Is
<1>4. call[s].to # call[s].at => Untouched(s) /\ Spared(s)
    BY DEF MoveInv
<1>5. call[s].to # call[s].at => (Untouched(s) /\ Spared(s))'
    BY <1>1, <1>2, <1>3, <1>4, PendingTail, MoveKeepsFiles
<1>6. MvTodo(call[s], todo'[s])
    BY <1>1, <1>2, MoveHead
<1>7. QED
    BY <1>2, <1>5, <1>6, MoveKept

\* The row at the destination is not below the source.
LEMMA MoveDeleteStep ==
    ASSUME TypeInv, MoveInv, NEW s \in Shell, call[s].op = "mv", DeleteRow(s)
    PROVE  MoveInv'
<1>1. /\ todo[s] # <<>> /\ Head(todo[s]).do = "deleteRow" /\ Continues(s, <<>>)
      /\ row' = [row EXCEPT ![Head(todo[s]).at] = Absent]
    BY DEF DeleteRow, Do, Set
<1>2. call' = call /\ before' = before /\ todo'[s] = Tail(todo[s]) /\ \A t \in Shell : t # s => todo'[t] = todo[t]
    <2>1. PICK q : q = Tail(todo[s])
        OBVIOUS
    <2>2. q \in Seq(Plan(call[s]))
        BY <1>1, <2>1, HeadFacts
    <2>3. <<>> \o q = q
        BY <2>2
    <2>4. QED
        BY <1>1, <2>1, <2>3, GoesFacts DEF Continues
<1>3. Head(todo[s]).at = call[s].to /\ Pending(s, "rename") /\ MvTodo(call[s], todo'[s])
    BY <1>1, <1>2, MoveHead
<1>4. ASSUME call[s].to # call[s].at PROVE (Untouched(s) /\ Spared(s))'
    <2>1. \A q \in Within(call[s].at) : row'[q] = row[q]
        BY <1>1, <1>3, <1>4, MvFacts
    <2>2. \A q \in Within(call[s].at) : Is(before, q, "file") => row'[q] = before'[q]
        BY <1>2, <1>3, <1>4, <2>1 DEF MoveInv, Untouched
    <2>3. QED
        BY <1>2, <2>2 DEF Untouched, Spared
<1>5. QED
    BY <1>2, <1>3, <1>4, MoveKept

LEMMA MoveRenameStep ==
    ASSUME TypeInv, MoveInv, NEW s \in Shell, call[s].op = "mv", Rename(s)
    PROVE  MoveInv'
<1> PICK at : at = call[s].at
    OBVIOUS
<1> PICK to : to = call[s].to
    OBVIOUS
<1>1. todo[s] # <<>> /\ Head(todo[s]).do = "rename" /\ Pending(s, "rename")
    <2>1. todo[s] # <<>> /\ Head(todo[s]).do = "rename"
        BY DEF Rename, Do
    <2>2. PICK q : q = todo[s]
        OBVIOUS
    <2>3. q \in Seq(Stmts)
        BY <2>2 DEF TypeInv
    <2>4. 1 \in 1..Len(q) /\ q[1].do = "rename"
        BY <2>1, <2>2, <2>3, TailFacts
    <2>5. QED
        BY <2>1, <2>2, <2>4 DEF Pending
<1>2. Head(todo[s]).at = at /\ Head(todo[s]).to = to
    BY <1>1, HeadFacts DEF Plan
<1>3. \/ Throws(s)
      \/ /\ row' = row \/ row' = [row EXCEPT ![to] = row[at], ![at] = Absent]
         /\ row' = row => Is(row, at, "none")
         /\ Continues(s, <<>>)
    BY <1>2, MvFacts, NodeFacts DEF Rename, Is
<1>4. CASE Throws(s)
    BY <1>4, MoveThrows
<1>5. CASE /\ row' = row \/ row' = [row EXCEPT ![to] = row[at], ![at] = Absent]
           /\ row' = row => Is(row, at, "none")
           /\ Continues(s, <<>>)
    <2>1. call' = call /\ before' = before /\ todo'[s] = Tail(todo[s]) /\ \A t \in Shell : t # s => todo'[t] = todo[t]
        <3>1. PICK q : q = Tail(todo[s])
            OBVIOUS
        <3>2. q \in Seq(Plan(call[s]))
            BY <1>1, <3>1, HeadFacts
        <3>3. <<>> \o q = q
            BY <3>2
        <3>4. QED
            BY <1>5, <3>1, <3>3, GoesFacts DEF Continues
    <2>2. ~Pending(s, "call")' /\ ~Pending(s, "rename")' /\ MvTodo(call[s], todo'[s])
        BY <1>1, <2>1, MoveHead
    <2>3. ASSUME to # at PROVE (Untouched(s) /\ Spared(s))'
        <3>1. \A q \in Within(at) : Is(before, q, "file") => row[q] = before[q]
            BY <1>1, <2>3 DEF MoveInv, Untouched
        <3>2. \A q \in Within(at) : Is(before, q, "file") /\ q # at => row'[q] = before[q]
            BY <1>5, <2>3, <3>1, MvFacts
        <3>3. Is(before, at, "file") => row'[to] = before[at]
            BY <1>5, <2>3, <3>1, MvFacts DEF Is
        <3>4. Moved(at, at, to) = to
            BY MvFacts, MovedSelf
        <3>5. QED
            BY <2>1, <2>2, <3>2, <3>3, <3>4 DEF Untouched, Spared
    <2>4. QED
        BY <2>1, <2>2, <2>3, MoveKept
<1>6. QED
    BY <1>3, <1>4, <1>5

LEMMA MoveRenameBelowStep ==
    ASSUME TypeInv, MoveInv, NEW s \in Shell, call[s].op = "mv", RenameBelow(s)
    PROVE  MoveInv'
<1> PICK c : c = call[s]
    OBVIOUS
<1> PICK at : at = c.at
    OBVIOUS
<1> PICK to : to = c.to
    OBVIOUS
<1>1. todo[s] # <<>> /\ Head(todo[s]).do = "renameBelow" /\ Pending(s, "renameBelow")
    <2>1. todo[s] # <<>> /\ Head(todo[s]).do = "renameBelow"
        BY DEF RenameBelow, Do
    <2>2. PICK q : q = todo[s]
        OBVIOUS
    <2>3. q \in Seq(Stmts)
        BY <2>2 DEF TypeInv
    <2>4. 1 \in 1..Len(q) /\ q[1].do = "renameBelow"
        BY <2>1, <2>2, <2>3, TailFacts
    <2>5. QED
        BY <2>1, <2>2, <2>4 DEF Pending
<1>2. CASE Throws(s)
    BY <1>2, MoveThrows
<1>3. CASE ~Throws(s)
    <2>1. /\ ~MustClash(c) /\ Continues(s, <<>>)
          /\ \A q \in MovingBelow(c) : row'[Goal(c, q)] = row[q]
          /\ \A p \in Path : (\A q \in MovingBelow(c) : Goal(c, q) # p) =>
                row'[p] = IF p \in MovingBelow(c) THEN Absent ELSE row[p]
        BY <1>3, RenameBelowEffect
    <2>2. call' = call /\ before' = before /\ todo'[s] = Tail(todo[s]) /\ \A t \in Shell : t # s => todo'[t] = todo[t]
        <3>1. PICK q : q = Tail(todo[s])
            OBVIOUS
        <3>2. q \in Seq(Plan(call[s]))
            BY <1>1, <3>1, HeadFacts
        <3>3. <<>> \o q = q
            BY <3>2
        <3>4. QED
            BY <2>1, <3>1, <3>3, GoesFacts DEF Continues
    <2>3. ~Pending(s, "call")' /\ ~Pending(s, "rename")' /\ ~Pending(s, "renameBelow")' /\ MvTodo(c, todo'[s])
        BY <1>1, <2>2, MoveHead
    \* a file that is not to be moved stays: nothing can take its place
    <2>4. ASSUME NEW q \in Path, Is(row, q, "file"), q \notin MovingBelow(c) PROVE row'[q] = row[q]
        <3>1. ASSUME NEW r \in MovingBelow(c), Goal(c, r) = q PROVE FALSE
            <4>1. Taken(c, r)
                BY <2>4, <3>1 DEF Taken, Is
            <4>2. QED
                BY <2>1, <2>4, <3>1, <4>1 DEF MustClash
        <3>2. QED
            BY <2>1, <2>4, <3>1
    <2>5. ASSUME to # at, NEW q \in Within(at), Is(before, q, "file")
          PROVE  row'[q] = before[q] \/ row'[Moved(q, at, to)] = before[q]
        <3>1. /\ q \in Path /\ at \in Path /\ at # Root /\ to \in Path /\ to # Root
              /\ Len(to) <= Len(at) /\ Len(at) \in Nat /\ Len(to) \in Nat
            BY <2>5, MvFacts, PathType
        <3>2. CASE q = at
            <4>1. Moved(q, at, to) = to
                BY <3>1, <3>2, MovedSelf
            <4>2. row[at] = before[at] \/ row[to] = before[at]
                BY <2>5, <3>2, <4>1 DEF MoveInv, Spared
            <4>3. \A p \in MovingBelow(c) : Len(p) > Len(at)
                BY <3>1, LikeFacts DEF MovingBelow
            <4>4. at \notin MovingBelow(c) /\ to \notin MovingBelow(c)
                BY <3>1, <4>3
            <4>5. QED
                BY <2>4, <2>5, <3>1, <3>2, <4>1, <4>2, <4>4 DEF Is
        <3>3. CASE q # at
            <4>1. row[q] = before[q]
                BY <1>1, <2>5, <3>3 DEF MoveInv, Untouched
            <4>2. CASE q \in MovingBelow(c)
                <5>1. Goal(c, q) = Moved(q, at, to)
                    BY <2>5, <3>1, <3>3, RespeltBelow DEF Goal
                <5>2. QED
                    BY <2>1, <4>1, <4>2, <5>1
            <4>3. CASE q \notin MovingBelow(c)
                BY <2>4, <2>5, <3>1, <4>1, <4>3 DEF Is
            <4>4. QED
                BY <4>2, <4>3
        <3>4. QED
            BY <3>2, <3>3
    <2>6. to # at => (Untouched(s) /\ Spared(s))'
        BY <2>2, <2>3, <2>5 DEF Untouched, Spared
    <2>7. QED
        BY <2>2, <2>3, <2>6, MoveKept
<1>4. QED
    BY <1>2, <1>3

LEMMA MoveFirstStep ==
    ASSUME TypeInv, MoveInv, NEW s \in Shell, call[s].op = "mv", FirstSelect(s)
    PROVE  MoveInv'
<1>1. todo[s] # <<>> /\ Head(todo[s]).do = "call" /\ Pending(s, "call") /\ call[s] \in Requests
    <2>1. todo[s] # <<>> /\ Head(todo[s]).do = "call" /\ call[s] \in Requests
        BY MvFacts DEF FirstSelect, Do
    <2>2. PICK q : q = todo[s]
        OBVIOUS
    <2>3. q \in Seq(Stmts)
        BY <2>2 DEF TypeInv
    <2>4. 1 \in 1..Len(q) /\ q[1].do = "call"
        BY <2>1, <2>2, <2>3, TailFacts
    <2>5. QED
        BY <2>1, <2>2, <2>4 DEF Pending
<1>2. CASE Throws(s)
    BY <1>2, MoveThrows
<1>3. CASE ~Throws(s)
    <2>1. Goes(s, Steps(call[s])) /\ row' = row
        BY <1>3 DEF FirstSelect
    <2>2. Steps(call[s]) = MvSteps(call[s])
        BY DEF Steps
    <2>3. call' = call /\ before' = before /\ todo'[s] = MvSteps(call[s]) /\ \A t \in Shell : t # s => todo'[t] = todo[t]
        BY <2>1, <2>2, GoesFacts
    <2>4. MvTodo(call[s], todo'[s])
        BY <1>1, <2>3, MvStepsOrdered
    <2>5. call[s].to # call[s].at =>
              \A q \in Within(call[s].at) : Is(before, q, "file") => row[q] = before[q]
        BY <1>1 DEF MoveInv, Untouched
    <2>6. call[s].to # call[s].at => (Untouched(s) /\ Spared(s))'
        BY <2>1, <2>3, <2>5 DEF Untouched, Spared
    <2>7. QED
        BY <2>3, <2>4, <2>6, MoveKept
<1>4. QED
    BY <1>2, <1>3

\* A statement ends in Goes or in Throws: only the rows and the shell's own
\* statements change.
LEMMA StatementFrame ==
    ASSUME TypeInv, NEW s \in Shell, Statement(s)
    PROVE  /\ call' = call /\ before' = before /\ todo[s] # <<>>
           /\ \A t \in Shell : t # s => todo'[t] = todo[t]
<1>1. Throws(s) \/ \E steps : Goes(s, steps)
    <2>1. CASE FirstSelect(s)
        BY <2>1 DEF FirstSelect
    <2>2. CASE EnsureParent(s) \/ Rewrite(s) \/ Create(s) \/ Update(s) \/ CopyTo(s)
        BY <2>2 DEF EnsureParent, Rewrite, Create, Update, CopyTo, Continues
    <2>3. CASE Level(s)
        BY <2>3 DEF Level, Continues
    <2>4. CASE CopyDir(s) \/ List(s) \/ CreateOrUpdate(s) \/ DeleteBelow(s) \/ DeleteRow(s)
        BY <2>4 DEF CopyDir, List, CreateOrUpdate, DeleteBelow, DeleteRow, Continues
    <2>5. CASE Rmdir(s) \/ Sweep(s) \/ DeleteDir(s) \/ DeleteFile(s) \/ Rename(s)
        BY <2>5 DEF Rmdir, Sweep, DeleteDir, DeleteFile, Rename, Continues
    <2>6. CASE RenameBelow(s)
        <3>1. Throws(s) \/ Continues(s, <<>>)
            BY ONLY <2>6 DEF RenameBelow
        <3>2. QED
            BY <3>1 DEF Continues
    <2>7. QED
        BY <2>1, <2>2, <2>3, <2>4, <2>5, <2>6 DEF Statement
<1>2. todo[s] # <<>>
    BY DEF Statement, FirstSelect, EnsureParent, Level, Rewrite, Create, Update, CopyTo, CopyDir, List,
           CreateOrUpdate, DeleteBelow, DeleteRow, Rmdir, Sweep, DeleteDir, DeleteFile, Rename,
           RenameBelow, Do
<1>3. \A t \in Shell : t # s => todo'[t] = todo[t]
    BY <1>1, GoesFacts DEF Goes, Throws, TypeInv
<1>4. call' = call /\ before' = before
    BY <1>1 DEF Goes, Throws
<1>5. QED
    BY <1>2, <1>3, <1>4

LEMMA MoveStatementStep ==
    ASSUME TypeInv, MoveInv, NEW s \in Shell, Statement(s)
    PROVE  MoveInv'
<1>1. CASE call[s].op # "mv"
    BY <1>1, StatementFrame, MoveKept
<1>2. CASE call[s].op = "mv"
    <2>1. todo[s] # <<>>
        BY StatementFrame
    <2>2. Head(todo[s]).do \in {"call", "parent", "deleteRow", "rename", "renameBelow"}
        BY <1>2, <2>1, MoveHead
    <2>3. FirstSelect(s) \/ EnsureParent(s) \/ DeleteRow(s) \/ Rename(s) \/ RenameBelow(s)
        BY <2>2 DEF Statement, Do, Level, Rewrite, Create, Update, CopyTo, CopyDir, List,
           CreateOrUpdate, DeleteBelow, Rmdir, Sweep, DeleteDir, DeleteFile
    <2>4. QED
        BY <1>2, <2>3, MoveFirstStep, MoveParentStep, MoveDeleteStep, MoveRenameStep, MoveRenameBelowStep
<1>3. QED
    BY <1>1, <1>2

\* A statement of a mv that fails: a parent is passed over, all else throws.
LEMMA MoveFailsStep ==
    ASSUME TypeInv, MoveInv, NEW s \in Shell, StatementFails(s)
    PROVE  MoveInv'
<1> PICK st : st = Head(todo[s])
    OBVIOUS
<1>1. /\ todo[s] # <<>>
      /\ \/ Ignored(call[s], st) /\ Continues(s, <<>>) /\ row' = row
         \/ Misread(call[s], st) /\ Continues(s, AfterMisreading(call[s], st))
         \/ Throws(s)
    BY DEF StatementFails
<1>2. CASE Throws(s)
    BY <1>2, MoveThrows
<1>3. CASE call[s].op # "mv" /\ \E steps : Continues(s, steps)
    BY <1>3, GoesFacts, MoveKept DEF Continues
<1>4. CASE call[s].op = "mv" /\ ~Throws(s)
    <2>1. ~Misread(call[s], st) /\ st.do # "call"
        BY <1>1, <1>4, MoveHead DEF Misread, Ignored
    <2>2. Continues(s, <<>>) /\ row' = row
        BY <1>1, <1>4, <2>1
    <2>3. call' = call /\ before' = before /\ todo'[s] = Tail(todo[s]) /\ \A t \in Shell : t # s => todo'[t] = todo[t]
        <3>1. PICK q : q = Tail(todo[s])
            OBVIOUS
        <3>2. q \in Seq(Plan(call[s]))
            BY <1>1, <3>1, HeadFacts
        <3>3. <<>> \o q = q
            BY <3>2
        <3>4. QED
            BY <2>2, <3>1, <3>3, GoesFacts DEF Continues
    <2>4. call[s].to # call[s].at => (Untouched(s) /\ Spared(s))'
        BY <1>1, <1>4, <2>2, <2>3, PendingTail, MoveKeepsFiles DEF MoveInv
    <2>5. MvTodo(call[s], todo'[s])
        BY <1>1, <1>4, <2>1, <2>3, MoveHead
    <2>6. QED
        BY <2>3, <2>4, <2>5, MoveKept
<1>5. QED
    BY <1>1, <1>2, <1>3, <1>4

LEMMA MoveBeginStep ==
    ASSUME TypeInv, MoveInv, NEW s \in Shell, NEW c \in Requests, Begin(s, c)
    PROVE  MoveInv'
<1>1. /\ call[s] = Nothing /\ row' = row /\ call' = [call EXCEPT ![s] = c]
      /\ todo' = [todo EXCEPT ![s] = <<On("call", c.at)>>]
      /\ before' = IF Shell = {s} THEN row ELSE NoRows
    BY DEF Begin
<1>2. /\ todo'[s] = <<On("call", c.at)>> /\ call'[s] = c
      /\ \A t \in Shell : t # s => todo'[t] = todo[t] /\ call'[t] = call[t]
    BY <1>1 DEF TypeInv
<1>3. (\A t \in Shell : Shell # {t}) => before' = NoRows
    BY <1>1
<1>4. ASSUME Shell # {s}, NEW t \in Shell PROVE (Untouched(t) /\ Spared(t))'
    <2>1. \A q \in Within(call'[t].at) : ~Is(before', q, "file")
        BY <1>1, <1>4, NodeFacts DEF Is, NoRows, Within
    <2>2. QED
        BY <2>1 DEF Untouched, Spared
<1>5. ASSUME Shell = {s} PROVE (Untouched(s) /\ Spared(s))'
    <2>1. \A q : row'[q] = before'[q]
        BY <1>1, <1>5
    <2>2. QED
        BY <2>1 DEF Untouched, Spared
<1>6. ASSUME NEW t \in Shell, call'[t].op = "mv"
      PROVE  todo'[t] = <<On("call", call'[t].at)>> \/ MvTodo(call'[t], todo'[t])
    BY <1>2, <1>6 DEF MoveInv
<1>7. QED
    BY <1>3, <1>4, <1>5, <1>6 DEF MoveInv

LEMMA MoveReturnStep ==
    ASSUME TypeInv, MoveInv, NEW s \in Shell, Return(s)
    PROVE  MoveInv'
<1>1. row' = row /\ todo' = todo /\ call' = [call EXCEPT ![s] = Nothing] /\ before' = NoRows
    BY DEF Return
<1>2. /\ call'[s] = Nothing /\ Nothing.op = "none"
      /\ \A t \in Shell : t # s => call'[t] = call[t]
    BY <1>1 DEF TypeInv, Nothing, Call
<1>3. ASSUME NEW t \in Shell PROVE (Untouched(t) /\ Spared(t))'
    <2>1. \A q \in Within(call'[t].at) : ~Is(before', q, "file")
        BY <1>1, NodeFacts DEF Is, NoRows, Within
    <2>2. QED
        BY <2>1 DEF Untouched, Spared
<1>4. ASSUME NEW t \in Shell, call'[t].op = "mv"
      PROVE  todo'[t] = <<On("call", call'[t].at)>> \/ MvTodo(call'[t], todo'[t])
    BY <1>1, <1>2, <1>4 DEF MoveInv
<1>5. QED
    BY <1>1, <1>3, <1>4 DEF MoveInv

\* Wherever a shell that has the workspace to itself dies in the middle of a mv
\* onto another path, no deeper than the source, whichever of its statements fail,
\* and whatever its name matches as a pattern, every file that was below the source
\* is below the source or below the destination, with its content.
THEOREM NothingIsLostByMv == Spec => []MoveSparesSource
<1>1. Init => MoveInv
    <2>1. Nothing.op # "mv"
        BY DEF Nothing, Call
    <2>2. QED
        BY <2>1 DEF Init, MoveInv
<1>2. TypeInv /\ MoveInv /\ [Next]_vars => MoveInv'
    <2>1. ASSUME TypeInv, MoveInv, Next PROVE MoveInv'
        BY <2>1, MoveBeginStep, MoveReturnStep, MoveStatementStep, MoveFailsStep DEF Next
    <2>2. ASSUME TypeInv, MoveInv, UNCHANGED vars PROVE MoveInv'
        BY <2>2 DEF vars, MoveInv, Untouched, Spared, Pending
    <2>3. QED
        BY <2>1, <2>2
<1>3. MoveInv => MoveSparesSource
    BY DEF MoveInv, Spared, MoveSparesSource
<1>4. QED
    BY <1>1, <1>2, <1>3, Typed, PTL DEF Spec

-----------------------------------------------------------------------------
(* Trees *)

LEMMA MinNat ==
    ASSUME NEW T, T \subseteq Nat, T # {}
    PROVE  \E x \in T : \A y \in T : x <= y
<1>1. PICK R : R = OpToRel(<, Nat)
    OBVIOUS
<1>2. IsWellFoundedOn(R, Nat)
    BY <1>1, NatLessThanWellFounded
<1>3. PICK x \in T : \A y \in T : ~(<<y, x>> \in R)
    BY ONLY T \subseteq Nat, T # {}, <1>2, WFMin
<1>4. \A y \in T : ~(y < x)
    BY <1>1, <1>3, Zenon DEF OpToRel
<1>5. QED
    BY ONLY T \subseteq Nat, <1>4

\* The prefix of a path that ends at level n, and the one a level up.
LEMMA LevelFacts ==
    ASSUME NEW p \in Path, NEW n \in 1..Len(p)
    PROVE  /\ SubSeq(p, 1, n) \in Path /\ SubSeq(p, 1, n) # Root /\ Len(SubSeq(p, 1, n)) = n
           /\ Parent(SubSeq(p, 1, n)) = SubSeq(p, 1, n - 1)
           /\ SubSeq(p, 1, n) \in Above(p) \/ SubSeq(p, 1, n) = p
           /\ n = Len(p) => SubSeq(p, 1, n) = p
<1>1. Len(p) \in Nat /\ n \in 0..Len(p) /\ n - 1 \in 0..Len(p) /\ n \in Nat
    BY PathType
<1>2. PICK f : f = SubSeq(p, 1, n)
    OBVIOUS
<1>3. PICK g : g = SubSeq(p, 1, n - 1)
    OBVIOUS
<1>4. f \in Path /\ Len(f) = n /\ \A i \in 1..n : f[i] = p[i]
    BY <1>1, <1>2, FrontFacts
<1>5. g \in Path /\ Len(g) = n - 1 /\ \A i \in 1..n - 1 : g[i] = p[i]
    BY <1>1, <1>3, FrontFacts
<1>6. f # Root
    BY <1>4, RootFacts
<1>7. Parent(f) = g
    <2>1. Parent(f) \in Path /\ Len(Parent(f)) = n - 1 /\ \A i \in 1..n - 1 : Parent(f)[i] = f[i]
        BY <1>4, <1>6, ParentFacts
    <2>2. \A i \in 1..n - 1 : i \in 1..n
        BY <1>1
    <2>3. PICK h : h = Parent(f)
        OBVIOUS
    <2>4. h = g
        BY <1>4, <1>5, <2>1, <2>2, <2>3, SamePath
    <2>5. QED
        BY <2>3, <2>4
<1>8. n = Len(p) => f = p
    BY <1>4, SamePath
<1>9. n # Len(p) => f \in Above(p)
    <2>1. n # Len(p) => n \in 0..Len(p) - 1
        BY <1>1
    <2>2. QED
        BY <1>2, <2>1, WithinFacts
<1>10. QED
    BY <1>2, <1>3, <1>4, <1>6, <1>7, <1>8, <1>9

\* A path above p is one of its prefixes.
LEMMA AboveIsFront ==
    ASSUME NEW p \in Path, NEW q \in Above(p)
    PROVE  q \in Path /\ Len(q) \in 0..Len(p) - 1 /\ Len(q) \in Nat /\ SubSeq(p, 1, Len(q)) = q /\ (q # Root => Len(q) >= 1)
<1>1. q \in Path /\ IsPrefix(q, p) /\ Len(q) < Len(p)
    BY WithinFacts DEF Above, IsStrictPrefix
<1>2. Len(q) \in Nat /\ Len(p) \in Nat /\ (q # Root => Len(q) >= 1)
    BY <1>1, PathType
<1>3. Len(q) \in 0..Len(p) /\ Len(q) \in 0..Len(p) - 1
    BY <1>1, <1>2
<1>4. PICK f : f = SubSeq(p, 1, Len(q))
    OBVIOUS
<1>5. f \in Path /\ Len(f) = Len(q) /\ \A i \in 1..Len(q) : f[i] = p[i]
    BY <1>3, <1>4, FrontFacts
<1>6. \A i \in 1..Len(q) : q[i] = p[i]
    BY <1>1, PrefixFacts
<1>7. f = q
    BY <1>1, <1>5, <1>6, SamePath
<1>8. QED
    BY <1>1, <1>2, <1>3, <1>4, <1>7

\* In a tree every path above something is a directory.
LEMMA AboveDirs ==
    ASSUME NEW t \in Tree, Shaped(t), NEW p \in Path, t[p] # Absent, NEW q \in Above(p)
    PROVE  t[q] = Dir
<1>1. q \in Path /\ Len(q) \in 0..Len(p) - 1 /\ Len(q) \in Nat /\ SubSeq(p, 1, Len(q)) = q /\ Len(p) \in Nat
    BY AboveIsFront, PathType
<1> DEFINE T == {n \in Len(q) + 1..Len(p) : t[SubSeq(p, 1, n)] # Absent}
<1>2. Len(p) \in T
    <2>1. Len(p) \in 1..Len(p) /\ Len(p) \in Len(q) + 1..Len(p)
        BY <1>1
    <2>2. QED
        BY <2>1, LevelFacts
<1>3. T \subseteq Nat
    BY <1>1
<1>4. PICK n \in T : \A m \in T : n <= m
    BY <1>2, <1>3, MinNat
<1>5. n \in 1..Len(p) /\ n \in Len(q) + 1..Len(p) /\ t[SubSeq(p, 1, n)] # Absent /\ n \in Nat
    BY <1>1, <1>4
<1>6. PICK f : f = SubSeq(p, 1, n)
    OBVIOUS
<1>7. f \in Path /\ f # Root /\ Parent(f) = SubSeq(p, 1, n - 1) /\ t[f] # Absent /\ t[f] \in Node
    BY <1>5, <1>6, LevelFacts DEF Tree
<1>8. t[SubSeq(p, 1, n - 1)] = Dir
    <2>1. Is(t, Parent(f), "dir") /\ Parent(f) \in Path
        BY <1>7, NodeFacts, ParentFacts DEF Shaped, Is
    <2>2. t[Parent(f)] \in Node
        BY <2>1 DEF Tree
    <2>3. QED
        BY <1>7, <2>1, <2>2, NodeFacts DEF Is
<1>9. CASE n - 1 = Len(q)
    BY <1>1, <1>8, <1>9
<1>10. CASE n - 1 # Len(q)
    <2>1. n - 1 \in Len(q) + 1..Len(p)
        BY <1>1, <1>5, <1>10
    <2>2. n - 1 \in T
        BY <1>8, <2>1, NodeFacts
    <2>3. n <= n - 1
        BY <1>4, <2>2
    <2>4. QED
        BY <1>5, <2>3
<1>11. QED
    BY <1>9, <1>10

LEMMA AboveWithin ==
    ASSUME NEW p \in Path
    PROVE  /\ \A q \in Within(p) : q # p => p \in Above(q)
           /\ \A q \in Above(p) : p \in Within(q) /\ p # q /\ q \notin Within(p)
           /\ \A q \in Within(p) : q \notin Above(p)
BY WithinFacts DEF Within, Above, IsStrictPrefix

LEMMA NothingBelow ==
    ASSUME NEW t \in Tree, Shaped(t), NEW p \in Path, t[p] # Dir, NEW q \in Within(p), q # p
    PROVE  t[q] = Absent
<1>1. q \in Path /\ p \in Above(q)
    BY AboveWithin, WithinFacts
<1>2. QED
    BY <1>1, AboveDirs

LEMMA NoChildren ==
    ASSUME NEW t \in Tree, Shaped(t), NEW p \in Path, Children(t, p) = {}, NEW q \in Within(p), q # p
    PROVE  t[q] = Absent
<1>1. q \in Path /\ IsPrefix(p, q) /\ Len(p) < Len(q) /\ Len(p) \in Nat /\ Len(q) \in Nat /\ p \in Above(q)
    BY AboveWithin, PrefixFacts, PathType DEF Within
<1>2. Len(p) + 1 \in 1..Len(q) /\ Len(p) + 1 - 1 = Len(p)
    BY <1>1
<1>3. PICK r : r = SubSeq(q, 1, Len(p) + 1)
    OBVIOUS
<1>4. r \in Path /\ r # Root /\ (r \in Above(q) \/ r = q)
    BY <1>1, <1>2, <1>3, LevelFacts
<1>5. Parent(r) = p
    <2>1. Parent(r) = SubSeq(q, 1, Len(p))
        BY <1>1, <1>2, <1>3, LevelFacts
    <2>2. QED
        BY <1>1, <2>1, AboveIsFront
<1>6. t[r] \in Node /\ t[r] = Absent
    BY <1>4, <1>5, NodeFacts DEF Children, Is, Tree
<1>7. t[q] # Absent /\ r \in Above(q) => t[r] = Dir
    BY <1>1, AboveDirs
<1>8. QED
    BY <1>4, <1>6, <1>7, NodeFacts

\* A node made where its directory is, or a file replaced by a file.
LEMMA SetShaped ==
    ASSUME NEW t \in Tree, Shaped(t), NEW p \in Path, p # Root, NEW node \in Node,
           t[Parent(p)] = Dir, t[p] # Dir
    PROVE  [t EXCEPT ![p] = node] \in Tree /\ Shaped([t EXCEPT ![p] = node])
<1>1. PICK u : u = [t EXCEPT ![p] = node]
    OBVIOUS
<1>2. u \in Tree /\ (\A q \in Path : q # p => u[q] = t[q]) /\ u[p] = node
    BY <1>1 DEF Tree
<1>3. Root \in Path /\ Parent(p) \in Path /\ Parent(p) # p
    BY RootFacts, ParentFacts, AboveWithin
<1>4. u[Root] = Dir
    BY <1>2, <1>3 DEF Shaped
<1>5. ASSUME NEW q \in Path \ {Root}, ~Is(u, q, "none") PROVE Is(u, Parent(q), "dir")
    <2>1. Parent(q) \in Path
        BY ParentFacts
    <2>2. CASE q = p
        BY <1>2, <1>3, <2>2, NodeFacts DEF Is
    <2>3. CASE q # p
        <3>1. Is(t, Parent(q), "dir") /\ t[Parent(q)] \in Node
            BY <1>2, <1>5, <2>1, <2>3 DEF Shaped, Is, Tree
        <3>2. t[Parent(q)] = Dir
            BY <3>1, NodeFacts DEF Is
        <3>3. QED
            BY <1>2, <2>1, <3>1, <3>2 DEF Is
    <2>4. QED
        BY <2>2, <2>3
<1>6. QED
    BY <1>1, <1>2, <1>4, <1>5 DEF Shaped

\* A tree cut below a path, and perhaps at it.
LEMMA CutShaped ==
    ASSUME NEW t \in Tree, Shaped(t), NEW u \in Tree, NEW p \in Path, p # Root,
           \A q \in Path : q \notin Within(p) => u[q] = t[q],
           \A q \in Within(p) : q # p => u[q] = Absent,
           u[p] = t[p] \/ u[p] = Absent
    PROVE  Shaped(u)
<1>1. u[Root] = Dir
    <2>1. Root \notin Within(p) /\ Root \in Path
        BY PathType, RootFacts, WithinFacts
    <2>2. QED
        BY <2>1 DEF Shaped
<1>2. ASSUME NEW q \in Path \ {Root}, ~Is(u, q, "none") PROVE Is(u, Parent(q), "dir")
    <2>1. u[q] # Absent
        BY <1>2, NodeFacts DEF Is
    <2>2. q \notin Within(p) \/ q = p
        BY <2>1
    <2>3. t[q] # Absent
        BY <2>1, <2>2
    <2>4. Parent(q) \in Path /\ Parent(q) \in Above(q) /\ q \in Within(Parent(q))
        BY ParentFacts
    <2>5. t[Parent(q)] = Dir
        BY <2>3, <2>4, AboveDirs
    <2>6. Parent(q) \notin Within(p)
        <3>1. CASE q = p
            BY <2>4, <3>1, AboveWithin
        <3>2. CASE q \notin Within(p)
            BY <2>4, <3>2, SubtreeFacts
        <3>3. QED
            BY <2>2, <3>1, <3>2
    <2>7. QED
        BY <2>4, <2>5, <2>6, NodeFacts DEF Is
<1>3. QED
    BY <1>1, <1>2 DEF Shaped

-----------------------------------------------------------------------------
(* What an operation that does not fail leaves, place by place *)

Content(c, b) == CASE c.op = "write"  -> File({c.chunk})
                   [] c.op = "append" -> File(b[c.at].text \cup {c.chunk})
                   [] c.op = "mkdir"  -> Dir

LEMMA ParentsMade ==
    ASSUME NEW b \in Tree, NEW p \in Path, \A q \in Above(p) : ~Is(b, q, "file")
    PROVE  /\ WithParents(b, p) \in Tree
           /\ \A q \in Above(p) : q \in Path /\ b[q] \in {Absent, Dir} /\ WithParents(b, p)[q] = Dir
           /\ \A q \in Path : q \notin Above(p) => WithParents(b, p)[q] = b[q]
<1>1. \A q \in Path : b[q] \in Node
    BY DEF Tree
<1>2. ASSUME NEW q \in Path
      PROVE  /\ WithParents(b, p)[q] = IF q \in Above(p) /\ Is(b, q, "none") THEN Dir ELSE b[q]
             /\ WithParents(b, p)[q] \in Node
    BY <1>1, NodeFacts DEF WithParents
<1>3. WithParents(b, p) \in Tree
    <2> DEFINE F(q) == IF q \in Above(p) /\ Is(b, q, "none") THEN Dir ELSE b[q]
    <2>1. WithParents(b, p) = [q \in Path |-> F(q)]
        BY DEF WithParents
    <2>2. \A q \in Path : F(q) \in Node
        BY <1>1, NodeFacts
    <2> HIDE DEF F
    <2>3. QED
        BY <2>1, <2>2 DEF Tree
<1>4. \A q \in Above(p) : q \in Path
    BY WithinFacts
<1>5. QED
    BY <1>1, <1>2, <1>3, <1>4, NodeFacts DEF Is

LEMMA ResultPut ==
    ASSUME NEW b \in Tree, NEW c \in Requests, Proper(c, b), ~Fails(c, b),
           c.op \in {"write", "append", "mkdir"}
    PROVE  /\ Result(c, b) \in Tree /\ Result(c, b)[c.at] = Content(c, b) /\ Content(c, b) \in Node
           /\ \A q \in Above(c.at) : q \in Path /\ b[q] \in {Absent, Dir} /\ Result(c, b)[q] = Dir
           /\ \A q \in Path : q \notin Above(c.at) /\ q # c.at => Result(c, b)[q] = b[q]
<1>1. c.at \in Path /\ c.chunk \in Chunk /\ Target(c) = c.at
    BY RequestFacts DEF Target
<1>2. PICK t : t = WithParents(b, c.at)
    OBVIOUS
<1>3. /\ t \in Tree
      /\ \A q \in Above(c.at) : q \in Path /\ b[q] \in {Absent, Dir} /\ t[q] = Dir
      /\ \A q \in Path : q \notin Above(c.at) => t[q] = b[q]
    BY <1>1, <1>2, ParentsMade DEF Proper
<1>4. c.at \notin Above(c.at)
    BY <1>1, AboveWithin
<1>5. t[c.at] = b[c.at] /\ b[c.at] \in Node
    BY <1>1, <1>3, <1>4 DEF Tree
<1>6. Result(c, b) = [t EXCEPT ![c.at] = Content(c, b)]
    <2>1. Result(c, b) = Effect(c, b)
        BY DEF Result
    <2>2. CASE c.op = "write"
        BY <1>2, <2>1, <2>2 DEF Effect, Content
    <2>3. CASE c.op = "append"
        <3>1. Effect(c, b) = [t EXCEPT ![c.at] = File(t[c.at].text \cup {c.chunk})]
            BY <1>1, <1>2, <1>3, <2>3 DEF Effect, Tree
        <3>2. QED
            BY <1>5, <2>1, <2>3, <3>1 DEF Content
    <2>4. CASE c.op = "mkdir"
        BY <1>2, <2>1, <2>4 DEF Effect, Content
    <2>5. QED
        BY <2>2, <2>3, <2>4
<1>7. Content(c, b) \in Node
    <2>1. CASE c.op = "write"
        <3>1. {c.chunk} \in Text
            BY <1>1, TextFacts
        <3>2. QED
            BY <2>1, <3>1, NodeFacts DEF Content
    <2>2. CASE c.op = "append"
        <3>1. b[c.at] # Dir
            BY <2>2, NodeFacts DEF Fails, Is
        <3>2. b[c.at] = Absent \/ (b[c.at].text \in Text)
            BY <1>5, <3>1, NodeFacts
        <3>3. b[c.at].text \cup {c.chunk} \in Text
            <4>1. CASE b[c.at] = Absent
                <5>1. Absent.text = {}
                    BY DEF Absent
                <5>2. b[c.at].text \cup {c.chunk} = {c.chunk}
                    BY <4>1, <5>1
                <5>3. QED
                    BY <1>1, <5>2, TextFacts
            <4>2. CASE b[c.at].text \in Text
                BY <1>1, <4>2, TextFacts
            <4>3. QED
                BY <3>2, <4>1, <4>2
        <3>4. QED
            BY <2>2, <3>3, NodeFacts DEF Content
    <2>3. CASE c.op = "mkdir"
        BY <2>3, NodeFacts DEF Content
    <2>4. QED
        BY <2>1, <2>2, <2>3
<1>8. PICK v : v = Content(c, b)
    OBVIOUS
<1>9. PICK w : w = Result(c, b)
    OBVIOUS
<1>10. w = [t EXCEPT ![c.at] = v] /\ v \in Node
    BY <1>6, <1>7, <1>8, <1>9
<1>11. w \in Tree /\ w[c.at] = v /\ \A q \in Path : q # c.at => w[q] = t[q]
    BY <1>1, <1>3, <1>10 DEF Tree
<1>12. QED
    BY <1>3, <1>4, <1>8, <1>9, <1>10, <1>11

LEMMA ResultRm ==
    ASSUME NEW b \in Tree, NEW c \in Requests, ~Fails(c, b), c.op = "rm"
    PROVE  /\ Result(c, b) \in Tree
           /\ \A q \in Within(c.at) : Result(c, b)[q] = Absent
           /\ \A q \in Path : q \notin Within(c.at) => Result(c, b)[q] = b[q]
<1>1. Result(c, b) = [q \in Path |-> IF q \in Within(c.at) THEN Absent ELSE b[q]]
    BY DEF Result, Effect
<1>2. c.at \in Path /\ Absent \in Node /\ (\A q \in Within(c.at) : q \in Path) /\ \A q \in Path : b[q] \in Node
    BY RequestFacts, WithinFacts, NodeFacts DEF Tree
<1>3. QED
    BY <1>1, <1>2 DEF Tree

\* mv and cp: the source and the destination are apart.
LEMMA Apart ==
    ASSUME NEW b \in Tree, NEW c \in Requests, Proper(c, b), c.op \in {"mv", "cp"}
    PROVE  /\ \A q \in Within(c.at) : q \notin Within(c.to) /\ q \notin Above(c.to) /\ q \in Path
           /\ \A q \in Within(c.to) : q \notin Within(c.at) /\ q \notin Above(c.to) /\ q \in Path
           /\ c.to \in Path /\ c.at \in Path
<1>1. c.to \in Path /\ c.at \in Path /\ ~IsPrefix(c.at, c.to) /\ ~IsPrefix(c.to, c.at)
    BY RequestFacts DEF Proper
<1>2. \A q \in Within(c.at) : q \in Path /\ IsPrefix(c.at, q)
    BY DEF Within
<1>3. \A q \in Within(c.to) : q \in Path /\ IsPrefix(c.to, q) /\ q \notin Above(c.to)
    BY <1>1, AboveWithin DEF Within
<1>4. ASSUME NEW q \in Within(c.at) PROVE q \notin Above(c.to)
    BY <1>1, <1>2, PrefixTransitive DEF Above, IsStrictPrefix
<1>5. ASSUME NEW q \in Path, IsPrefix(c.at, q), IsPrefix(c.to, q) PROVE FALSE
    <2>1. /\ Len(c.at) \in Nat /\ Len(c.to) \in Nat /\ Len(q) \in Nat
          /\ Len(c.at) <= Len(q) /\ Len(c.to) <= Len(q)
          /\ (\A i \in 1..Len(c.at) : c.at[i] = q[i]) /\ (\A i \in 1..Len(c.to) : c.to[i] = q[i])
        BY <1>1, <1>5, PathType, PrefixFacts
    <2>2. CASE Len(c.at) <= Len(c.to)
        <3>1. \A i \in 1..Len(c.at) : i \in 1..Len(c.to)
            BY <2>1, <2>2
        <3>2. IsPrefix(c.at, c.to)
            BY <1>1, <2>1, <2>2, <3>1, PrefixFacts
        <3>3. QED
            BY <1>1, <3>2
    <2>3. CASE Len(c.to) <= Len(c.at)
        <3>1. \A i \in 1..Len(c.to) : i \in 1..Len(c.at)
            BY <2>1, <2>3
        <3>2. IsPrefix(c.to, c.at)
            BY <1>1, <2>1, <2>3, <3>1, PrefixFacts
        <3>3. QED
            BY <1>1, <3>2
    <2>4. QED
        BY <2>1, <2>2, <2>3
<1>6. QED
    BY <1>1, <1>2, <1>3, <1>4, <1>5 DEF Within

\* What the destination has from the source.
Origin(c, q) == Moved(q, c.to, c.at)

LEMMA ResultMv ==
    ASSUME NEW b \in Tree, NEW c \in Requests, Proper(c, b), ~Fails(c, b), c.op = "mv"
    PROVE  /\ Result(c, b) \in Tree
           /\ \A q \in Within(c.at) : Result(c, b)[q] = Absent
           /\ \A q \in Within(c.to) : Result(c, b)[q] = IF Origin(c, q) \in Path THEN b[Origin(c, q)] ELSE Absent
           /\ \A q \in Above(c.to) : q \in Path /\ b[q] \in {Absent, Dir} /\ Result(c, b)[q] = Dir
           /\ \A q \in Path : q \notin Within(c.at) /\ q \notin Within(c.to) /\ q \notin Above(c.to)
                                  => Result(c, b)[q] = b[q]
<1>1. /\ \A q \in Within(c.at) : q \notin Within(c.to) /\ q \notin Above(c.to) /\ q \in Path
      /\ \A q \in Within(c.to) : q \notin Within(c.at) /\ q \notin Above(c.to) /\ q \in Path
      /\ c.to \in Path /\ c.at \in Path /\ Target(c) = c.to
    BY Apart DEF Target
<1>2. PICK t : t = WithParents(b, c.to)
    OBVIOUS
<1>3. /\ t \in Tree
      /\ \A q \in Above(c.to) : q \in Path /\ b[q] \in {Absent, Dir} /\ t[q] = Dir
      /\ \A q \in Path : q \notin Above(c.to) => t[q] = b[q]
    BY <1>1, <1>2, ParentsMade DEF Proper
<1>4. PICK w : w = Result(c, b)
    OBVIOUS
<1> DEFINE G(q) == IF q \in Within(c.at) THEN Absent
                   ELSE IF q \in Within(c.to)
                        THEN IF Origin(c, q) \in Path THEN b[Origin(c, q)] ELSE Absent
                        ELSE t[q]
<1>5. w = [q \in Path |-> G(q)]
    BY <1>2, <1>4 DEF Result, Effect, Grafted, Origin
<1>6. \A q \in Path : G(q) \in Node
    BY <1>3, NodeFacts DEF Tree
<1>7. \A q \in Above(c.to) : q \notin Within(c.at) /\ q \notin Within(c.to)
    BY <1>1
<1>8. w \in Tree
    <2> HIDE DEF G
    <2>1. QED
        BY <1>5, <1>6 DEF Tree
<1>9. \A q \in Path : w[q] = G(q)
    BY <1>5
<1>10. QED
    BY <1>1, <1>3, <1>4, <1>7, <1>8, <1>9

LEMMA ResultCp ==
    ASSUME NEW b \in Tree, NEW c \in Requests, Proper(c, b), ~Fails(c, b), c.op = "cp"
    PROVE  /\ Result(c, b) \in Tree
           /\ \A q \in Within(c.to) : Result(c, b)[q] = IF Origin(c, q) \in Path /\ b[Origin(c, q)] # Absent
                                                       THEN b[Origin(c, q)] ELSE b[q]
           /\ \A q \in Above(c.to) : q \in Path /\ b[q] \in {Absent, Dir} /\ Result(c, b)[q] = Dir
           /\ \A q \in Path : q \notin Within(c.to) /\ q \notin Above(c.to) => Result(c, b)[q] = b[q]
<1>1. /\ \A q \in Within(c.to) : q \notin Above(c.to) /\ q \in Path
      /\ c.to \in Path /\ c.at \in Path /\ Target(c) = c.to
    BY Apart DEF Target
<1>2. PICK t : t = WithParents(b, c.to)
    OBVIOUS
<1>3. /\ t \in Tree
      /\ \A q \in Above(c.to) : q \in Path /\ b[q] \in {Absent, Dir} /\ t[q] = Dir
      /\ \A q \in Path : q \notin Above(c.to) => t[q] = b[q]
    BY <1>1, <1>2, ParentsMade DEF Proper
<1>4. PICK w : w = Result(c, b)
    OBVIOUS
<1>5. \A q \in Path : b[q] \in Node /\ t[q] \in Node /\ (Is(b, q, "none") <=> b[q] = Absent)
    BY <1>3, NodeFacts DEF Tree, Is
<1> DEFINE K(q) == q \in Within(c.to) /\ ~(Origin(c, q) \notin Path \/ Is(b, Origin(c, q), "none"))
           G(q) == IF K(q) THEN IF Origin(c, q) \in Path THEN b[Origin(c, q)] ELSE Absent
                   ELSE t[q]
<1>6. w = [q \in Path |-> G(q)]
    BY <1>2, <1>4 DEF Result, Effect, Grafted, Origin
<1>7. \A q \in Path : G(q) \in Node
    BY <1>5
<1>8. w \in Tree
    <2> HIDE DEF G
    <2>1. QED
        BY <1>6, <1>7 DEF Tree
<1>9. \A q \in Path : w[q] = G(q)
    BY <1>6
<1>10. QED
    BY <1>1, <1>3, <1>4, <1>5, <1>8, <1>9

-----------------------------------------------------------------------------
(* A lone shell: the operations that only make and replace *)

LEMMA StmtType ==
    ASSUME NEW st \in Stmts
    PROVE  st.do \in Verbs /\ st.at \in Path /\ st.to \in Path /\ st.node \in Node
BY DEF Stmts

\* The places a statement, or what it leads to, brings to their result.
Reach(st, q) ==
    \/ /\ st.do \in {"parent", "level", "create", "createOrUpdate", "update", "copyTo", "rewrite"}
       /\ q = st.at
    \/ st.do = "rewrite" /\ q \in Above(st.at) /\ q # Root
    \/ st.do = "copyDir" /\ q \in Above(st.to) \cup Within(st.to) /\ q # Root
    \/ st.do = "list" /\ q \in Within(st.to) /\ q # st.to

\* The directories a statement relies on.
Needs(st) ==
    IF st.do \in {"parent", "level", "create", "createOrUpdate", "copyTo"} THEN Above(st.at)
    ELSE IF st.do = "list" THEN Above(st.to) \cup {st.to} ELSE {}

\* A recursive copy of a directory; a mkdir -p.
CopiesTree(c, b) == c.op = "cp" /\ b[c.at] = Dir
MakesAll(c)      == c.op = "mkdir" /\ c.recursive

\* A statement that is on the way from the rows b to the rows w.
Fit(c, b, w, st) ==
    /\ st.do \in {"parent", "level", "create", "createOrUpdate", "update", "copyTo", "rewrite",
                  "copyDir", "list"}
    /\ st.do \in {"parent", "level"} =>
          w[st.at] = Dir /\ b[st.at] \in {Absent, Dir} /\ st.at # Root
    /\ st.do = "parent" => st.at \in Above(Target(c))
    /\ st.do = "level" => MakesAll(c) \/ CopiesTree(c, b)
    /\ st.do \in {"create", "copyTo", "rewrite"} => st.at = Target(c) /\ ~MakesAll(c) /\ ~CopiesTree(c, b)
    /\ st.do \in {"create", "createOrUpdate", "update", "copyTo", "rewrite"} =>
          w[st.at] = st.node /\ st.at # Root
    /\ st.do \in {"createOrUpdate", "update", "copyTo", "rewrite"} => st.node.kind = "file"
    /\ st.do \in {"createOrUpdate", "copyTo"} => b[st.at] # Dir
    /\ st.do \in {"copyDir", "list", "createOrUpdate"} => CopiesTree(c, b)
    /\ st.do \in {"copyDir", "list"} =>
          st.at \in Within(c.at) /\ st.to = Moved(st.at, c.at, c.to) /\ b[st.at] = Dir

\* What a statement finds at its place in the rows t.
Fresh(t, st) ==
    /\ st.do \in {"create", "rewrite"} => t[st.at] = Absent
    /\ st.do = "update" => Is(t, st.at, "file")

\* Earlier statements of q make what a later one needs.
Prepared(t, q) == \A i \in 1..Len(q) : \A z \in Needs(q[i]) :
    t[z] = Dir \/ \E j \in 1..Len(q) : j < i /\ q[j].do \in {"parent", "level"} /\ q[j].at = z

Alone(q) == \A i \in 1..Len(q) : /\ q[i].do \in {"create", "copyTo"} => i = Len(q)
                                 /\ q[i].do = "rewrite" => Len(q) = 1

\* The rows t are a tree between b and w, and what is missing to w is in q.
Builds(c, b, w, t, q) ==
    /\ Shaped(t)
    /\ \A p \in Path : t[p] = b[p] \/ t[p] = w[p]
    /\ \A p \in Path : t[p] = w[p] \/ \E i \in 1..Len(q) : Reach(q[i], p)
    /\ \A i \in 1..Len(q) : Fit(c, b, w, q[i]) /\ Fresh(t, q[i])
    /\ Prepared(t, q) /\ Alone(q)

\* A statement that sets its place to what it shall be.
LEMMA BuildsSet ==
    ASSUME NEW t \in Tree, NEW c, NEW b, NEW w \in Tree, NEW q \in Seq(Stmts), q # <<>>,
           Builds(c, b, w, t, q), NEW h, h = Head(q),
           h.do \in {"parent", "level", "create", "createOrUpdate", "update"},
           NEW u, u = [t EXCEPT ![h.at] = w[h.at]],
           \/ t[h.at] = w[h.at]
           \/ t[h.at] = Absent /\ h.do # "update"
           \/ Is(t, h.at, "file") /\ w[h.at].kind = "file"
    PROVE  u \in Tree /\ Builds(c, b, w, u, Tail(q))
<1> PICK r : r = Tail(q)
    OBVIOUS
<1>1. /\ h = q[1] /\ 1 \in 1..Len(q) /\ Len(q) \in Nat /\ Len(r) = Len(q) - 1 /\ r \in Seq(Stmts)
      /\ \A i \in 1..Len(r) : i + 1 \in 1..Len(q) /\ r[i] = q[i + 1] /\ 1 < i + 1
      /\ \A i \in 1..Len(q) : i # 1 => i - 1 \in 1..Len(r) /\ q[i] = r[i - 1]
    <2>1. \A i \in 1..Len(r) : 1 < i + 1
        OBVIOUS
    <2>2. QED
        BY <2>1, TailFacts
<1>2. h \in Stmts /\ h.at \in Path
    BY <1>1, ElementOfSeq, StmtType
<1>3. /\ u \in Tree /\ u[h.at] = w[h.at] /\ w[h.at] \in Node /\ t[h.at] \in Node
      /\ \A p \in Path : p # h.at => u[p] = t[p]
    BY <1>2 DEF Tree
<1>4. Fit(c, b, w, h) /\ Fresh(t, h)
    BY <1>1 DEF Builds
<1>5. h.do # "update" => \A z \in Above(h.at) : t[z] = Dir
    <2>1. \A z \in Needs(q[1]) : t[z] = Dir \/ \E j \in 1..Len(q) : j < 1
        BY <1>1 DEF Builds, Prepared
    <2>2. \A j \in 1..Len(q) : ~(j < 1)
        OBVIOUS
    <2>3. h.do # "update" => Needs(h) = Above(h.at)
        BY DEF Needs
    <2>4. QED
        BY <1>1, <2>1, <2>2, <2>3
<1>6. Shaped(u)
    <2>1. CASE t[h.at] = w[h.at]
        <3>1. u = t
            BY <2>1 DEF Tree
        <3>2. QED
            BY <3>1 DEF Builds
    <2>2. CASE t[h.at] # w[h.at]
        <3>1. t[h.at] # Dir
            BY <2>2, NodeFacts DEF Is
        <3>2. h.at # Root
            BY <1>4 DEF Fit
        <3>3. Parent(h.at) \in Above(h.at)
            BY <1>2, <3>2, ParentFacts
        <3>4. t[Parent(h.at)] = Dir
            <4>1. CASE h.do # "update"
                BY <1>5, <3>3, <4>1
            <4>2. CASE h.do = "update"
                <5>1. t[h.at] # Absent
                    BY <2>2, <4>2, NodeFacts DEF Is
                <5>2. QED
                    BY <1>2, <3>3, <5>1, AboveDirs DEF Builds
            <4>3. QED
                BY <4>1, <4>2
        <3>5. Shaped(t)
            BY DEF Builds
        <3>6. PICK node \in Node : node = w[h.at]
            BY <1>3
        <3>7. PICK p \in Path : p = h.at
            BY <1>2
        <3>8. u = [t EXCEPT ![p] = node]
            BY <3>6, <3>7
        <3>9. Shaped([t EXCEPT ![p] = node])
            BY ONLY t \in Tree, <3>1, <3>2, <3>4, <3>5, <3>7, SetShaped
        <3>10. QED
            BY <3>8, <3>9
    <2>3. QED
        BY <2>1, <2>2
<1>7. \A p \in Path : u[p] = b[p] \/ u[p] = w[p]
    BY <1>3 DEF Builds
<1>8. ASSUME NEW p \in Path, u[p] # w[p] PROVE \E i \in 1..Len(r) : Reach(r[i], p)
    <2>1. p # h.at /\ t[p] # w[p]
        BY <1>3, <1>8
    <2>2. PICK i \in 1..Len(q) : Reach(q[i], p)
        BY <2>1 DEF Builds
    <2>3. i # 1
        BY <1>1, <2>1, <2>2 DEF Reach
    <2>4. QED
        BY <1>1, <2>2, <2>3
<1>9. ASSUME NEW i \in 1..Len(r) PROVE Fit(c, b, w, r[i]) /\ Fresh(u, r[i])
    <2>1. r[i] = q[i + 1] /\ i + 1 \in 1..Len(q) /\ Fit(c, b, w, r[i]) /\ Fresh(t, r[i]) /\ r[i] \in Stmts
        BY <1>1, ElementOfSeq DEF Builds
    <2>2. Len(q) # 1 /\ i + 1 # 1
        BY <1>1
    <2>3. h.do # "create" /\ r[i].do # "rewrite"
        BY <1>1, <2>1, <2>2 DEF Builds, Alone
    <2>4. ASSUME r[i].do = "create", h.at = r[i].at PROVE FALSE
        <3>1. r[i].at = Target(c) /\ t[r[i].at] = Absent /\ ~MakesAll(c) /\ ~CopiesTree(c, b)
            BY <2>1, <2>4 DEF Fit, Fresh
        <3>2. h.do = "parent" => Target(c) \in Above(Target(c))
            BY <1>4, <2>4, <3>1 DEF Fit
        <3>3. Target(c) \notin Above(Target(c))
            BY DEF Above, IsStrictPrefix
        <3>4. h.do # "level" /\ h.do # "createOrUpdate"
            BY <1>4, <3>1 DEF Fit
        <3>5. h.do # "update"
            BY <1>4, <2>4, <3>1, NodeFacts DEF Fresh, Is
        <3>6. QED
            BY <2>3, <3>2, <3>3, <3>4, <3>5
    <2>5. r[i].do = "create" => u[r[i].at] = Absent
        BY <1>3, <2>1, <2>4, StmtType DEF Fresh
    <2>6. r[i].do = "update" => Is(u, r[i].at, "file")
        BY <1>3, <2>1, StmtType, NodeFacts DEF Fresh, Is
    <2>7. QED
        BY <2>1, <2>3, <2>5, <2>6 DEF Fresh
<1>10. ASSUME NEW i \in 1..Len(r), NEW z \in Needs(r[i])
       PROVE  u[z] = Dir \/ \E j \in 1..Len(r) : j < i /\ r[j].do \in {"parent", "level"} /\ r[j].at = z
    <2>1. i + 1 \in 1..Len(q) /\ r[i] = q[i + 1] /\ r[i] \in Stmts
        BY <1>1, ElementOfSeq
    <2>2. z \in Path
        BY <2>1, StmtType, WithinFacts DEF Needs
    <2>3. CASE t[z] = Dir
        BY <1>3, <2>2, <2>3, NodeFacts DEF Is
    <2>4. CASE t[z] # Dir
        <3>1. PICK j \in 1..Len(q) : j < i + 1 /\ q[j].do \in {"parent", "level"} /\ q[j].at = z
            BY <2>1, <2>4 DEF Builds, Prepared
        <3>2. CASE j = 1
            BY <1>1, <1>3, <1>4, <3>1, <3>2 DEF Fit
        <3>3. CASE j # 1
            <4>1. j - 1 \in 1..Len(r) /\ q[j] = r[j - 1] /\ j - 1 < i
                BY <1>1, <3>1, <3>3
            <4>2. QED
                BY <3>1, <4>1
        <3>4. QED
            BY <3>2, <3>3
    <2>5. QED
        BY <2>3, <2>4
<1>11. Alone(r)
    <2>1. ASSUME NEW i \in 1..Len(r)
          PROVE  /\ r[i].do \in {"create", "copyTo"} => i = Len(r)
                 /\ r[i].do = "rewrite" => Len(r) = 1
        <3>1. i + 1 \in 1..Len(q) /\ r[i] = q[i + 1] /\ Len(q) # 1
            BY <1>1
        <3>2. /\ r[i].do \in {"create", "copyTo"} => i + 1 = Len(q)
              /\ r[i].do # "rewrite"
            BY <3>1 DEF Builds, Alone
        <3>3. QED
            BY <1>1, <3>2
    <2>2. QED
        BY <2>1 DEF Alone
<1>12. Builds(c, b, w, u, r)
    BY <1>6, <1>7, <1>8, <1>9, <1>10, <1>11 DEF Builds, Prepared
<1>13. QED
    BY <1>3, <1>12

\* y is x with r behind it.
Joined(y, x, r) ==
    /\ Len(y) = Len(x) + Len(r) /\ Len(x) \in Nat /\ Len(r) \in Nat
    /\ \A i \in 1..Len(x) : i \in 1..Len(y) /\ y[i] = x[i]
    /\ \A i \in 1..Len(r) : Len(x) + i \in 1..Len(y) /\ y[Len(x) + i] = r[i]
    /\ \A k \in 1..Len(y) : k \in 1..Len(x) \/ \E i \in 1..Len(r) : k = Len(x) + i

LEMMA ConcatFacts ==
    ASSUME NEW S, NEW x \in Seq(S), NEW r \in Seq(S), NEW y, y = x \o r
    PROVE  y \in Seq(S) /\ Joined(y, x, r)
<1>1. /\ y \in Seq(S) /\ Len(y) = Len(x) + Len(r) /\ Len(x) \in Nat /\ Len(r) \in Nat
      /\ \A i \in 1..Len(x) + Len(r) : y[i] = IF i <= Len(x) THEN x[i] ELSE r[i - Len(x)]
    BY ConcatProperties, LenProperties
<1>2. \A i \in 1..Len(x) : i \in 1..Len(y) /\ y[i] = x[i]
    <2>1. \A i \in 1..Len(x) : i \in 1..Len(x) + Len(r) /\ i <= Len(x)
        BY ONLY <1>1
    <2>2. QED
        BY <1>1, <2>1
<1>3. ASSUME NEW i \in 1..Len(r) PROVE Len(x) + i \in 1..Len(y) /\ y[Len(x) + i] = r[i]
    <2>1. PICK k : k = Len(x) + i
        OBVIOUS
    <2>2. k \in 1..Len(x) + Len(r) /\ ~(k <= Len(x)) /\ k - Len(x) = i
        BY ONLY <1>1, <2>1, i \in 1..Len(r)
    <2>3. y[k] = r[k - Len(x)]
        BY <1>1, <2>2
    <2>4. QED
        BY <1>1, <2>1, <2>2, <2>3
<1>4. ASSUME NEW k \in 1..Len(y) PROVE k \in 1..Len(x) \/ \E i \in 1..Len(r) : k = Len(x) + i
    <2>1. k \in 1..Len(x) \/ (k - Len(x) \in 1..Len(r) /\ k = Len(x) + (k - Len(x)))
        BY ONLY <1>1, k \in 1..Len(y)
    <2>2. QED
        BY <2>1
<1>5. QED
    BY <1>1, <1>2, <1>3, <1>4 DEF Joined

\* A statement that only looks, and puts others in its place.
LEMMA BuildsTurn ==
    ASSUME NEW t \in Tree, NEW c, NEW b, NEW w \in Tree, NEW q \in Seq(Stmts), q # <<>>,
           Builds(c, b, w, t, q), NEW h, h = Head(q), h.do \notin {"parent", "level"},
           NEW x \in Seq(Stmts), Prepared(t, x),
           \A p \in Path : Reach(h, p) => t[p] = w[p] \/ \E i \in 1..Len(x) : Reach(x[i], p),
           \A i \in 1..Len(x) :
               /\ Fit(c, b, w, x[i]) /\ Fresh(t, x[i]) /\ x[i].do # "rewrite"
               /\ x[i].do \in {"create", "copyTo"} => i = Len(x) /\ Len(q) = 1
    PROVE  Builds(c, b, w, t, x \o Tail(q))
<1>r. PICK r : r = Tail(q)
    OBVIOUS
<1>y. PICK y : y = x \o r
    OBVIOUS
<1>1. /\ h = q[1] /\ 1 \in 1..Len(q) /\ Len(q) \in Nat /\ Len(r) = Len(q) - 1 /\ r \in Seq(Stmts)
      /\ \A i \in 1..Len(r) : i + 1 \in 1..Len(q) /\ r[i] = q[i + 1]
      /\ \A i \in 1..Len(q) : i # 1 => i - 1 \in 1..Len(r) /\ q[i] = r[i - 1]
    BY ONLY q \in Seq(Stmts), q # <<>>, h = Head(q), <1>r, TailFacts
<1>2. /\ y \in Seq(Stmts) /\ Len(y) = Len(x) + Len(r) /\ Len(x) \in Nat /\ Len(r) \in Nat
      /\ \A i \in 1..Len(x) : i \in 1..Len(y) /\ y[i] = x[i]
      /\ \A i \in 1..Len(r) : Len(x) + i \in 1..Len(y) /\ y[Len(x) + i] = r[i]
      /\ \A k \in 1..Len(y) : k \in 1..Len(x) \/ \E i \in 1..Len(r) : k = Len(x) + i
    <2>1. r \in Seq(Stmts)
        BY <1>1
    <2>2. y \in Seq(Stmts) /\ Joined(y, x, r)
        BY <1>y, <2>1, ConcatFacts
    <2>3. QED
        BY ONLY <2>2 DEF Joined
<1>3. ASSUME NEW p \in Path, t[p] # w[p] PROVE \E k \in 1..Len(y) : Reach(y[k], p)
    <2>1. PICK i \in 1..Len(q) : Reach(q[i], p)
        BY <1>3 DEF Builds
    <2>2. CASE i = 1
        <3>1. PICK k \in 1..Len(x) : Reach(x[k], p)
            BY <1>1, <1>3, <2>1, <2>2
        <3>2. QED
            BY <1>2, <3>1
    <2>3. CASE i # 1
        <3>1. PICK k \in 1..Len(r) : k = i - 1
            BY <1>1, <2>3
        <3>2. Reach(r[k], p)
            BY <1>1, <2>1, <2>3, <3>1
        <3>3. QED
            BY <1>2, <3>2
    <2>4. QED
        BY <2>2, <2>3
<1>4. ASSUME NEW k \in 1..Len(y)
      PROVE  /\ Fit(c, b, w, y[k]) /\ Fresh(t, y[k]) /\ y[k].do # "rewrite"
             /\ y[k].do \in {"create", "copyTo"} => k = Len(y)
    <2>1. CASE k \in 1..Len(x)
        <3>1. y[k] = x[k]
            BY <1>2, <2>1
        <3>2. y[k].do \in {"create", "copyTo"} => k = Len(x) /\ Len(r) = 0
            BY <1>1, <2>1, <3>1
        <3>3. QED
            <4>1. k = Len(x) /\ Len(r) = 0 => k = Len(y)
                BY ONLY <1>2
            <4>2. QED
                BY <2>1, <3>1, <3>2, <4>1
    <2>2. ASSUME NEW i \in 1..Len(r), k = Len(x) + i
          PROVE  /\ Fit(c, b, w, y[k]) /\ Fresh(t, y[k]) /\ y[k].do # "rewrite"
                 /\ y[k].do \in {"create", "copyTo"} => k = Len(y)
        <3>1. y[k] = q[i + 1] /\ i + 1 \in 1..Len(q) /\ Len(q) # 1
            <4>1. y[k] = r[i] /\ r[i] = q[i + 1] /\ i + 1 \in 1..Len(q)
                BY ONLY <1>1, <1>2, <2>2
            <4>2. Len(q) # 1
                BY ONLY <1>1, <2>2
            <4>3. QED
                BY <4>1, <4>2
        <3>2. /\ Fit(c, b, w, y[k]) /\ Fresh(t, y[k]) /\ y[k].do # "rewrite"
              /\ y[k].do \in {"create", "copyTo"} => i + 1 = Len(q)
            BY <3>1 DEF Builds, Alone
        <3>3. i + 1 = Len(q) => k = Len(y)
            <4>1. Len(q) \in Nat /\ Len(r) = Len(q) - 1 /\ Len(y) = Len(x) + Len(r) /\ Len(x) \in Nat
                BY <1>1, <1>2
            <4>2. i \in Nat
                OBVIOUS
            <4>3. QED
                BY ONLY <2>2, <4>1, <4>2
        <3>4. QED
            BY <3>2, <3>3
    <2>3. QED
        BY <1>2, <2>1, <2>2
<1>5. ASSUME NEW k \in 1..Len(y), NEW z \in Needs(y[k])
      PROVE  t[z] = Dir \/ \E j \in 1..Len(y) : j < k /\ y[j].do \in {"parent", "level"} /\ y[j].at = z
    <2>1. CASE k \in 1..Len(x)
        <3>1. y[k] = x[k] /\ z \in Needs(x[k])
            BY <1>2, <1>5, <2>1
        <3>2. t[z] = Dir \/ \E j \in 1..Len(x) : j < k /\ x[j].do \in {"parent", "level"} /\ x[j].at = z
            BY <2>1, <3>1 DEF Prepared
        <3>3. QED
            BY <1>2, <3>2
    <2>2. ASSUME NEW i \in 1..Len(r), k = Len(x) + i, t[z] # Dir
          PROVE  \E j \in 1..Len(y) : j < k /\ y[j].do \in {"parent", "level"} /\ y[j].at = z
        <3>1. y[k] = q[i + 1] /\ i + 1 \in 1..Len(q)
            BY <1>1, <1>2, <2>2
        <3>2. PICK j \in 1..Len(q) : j < i + 1 /\ q[j].do \in {"parent", "level"} /\ q[j].at = z
            BY <1>5, <2>2, <3>1 DEF Builds, Prepared
        <3>3. j # 1
            BY <1>1, <3>2
        <3>4. PICK m : m = j - 1
            OBVIOUS
        <3>5. m \in 1..Len(r) /\ q[j] = r[m] /\ m < i
            BY <1>1, <3>2, <3>3, <3>4
        <3>6. Len(x) + m \in 1..Len(y) /\ y[Len(x) + m] = r[m] /\ Len(x) + m < k
            BY ONLY <1>2, <2>2, <3>5
        <3>7. QED
            BY <3>2, <3>5, <3>6
    <2>3. QED
        BY <1>2, <2>1, <2>2
<1>6. Prepared(t, y)
    BY ONLY <1>5 DEF Prepared
<1>7. Alone(y)
    BY ONLY <1>4 DEF Alone
<1>8. Builds(c, b, w, t, y)
    BY <1>3, <1>4, <1>6, <1>7 DEF Builds
<1>9. QED
    BY <1>r, <1>y, <1>8

\* x makes the first n directories above p from the top, and goes on with y.
Run(x, do, p, n, y) ==
    /\ Len(x) = n + Len(y) /\ n \in Nat /\ Len(y) \in Nat
    /\ \A i \in 1..n : i \in 1..Len(x) /\ x[i] = On(do, SubSeq(p, 1, i))
    /\ \A i \in 1..Len(y) : n + i \in 1..Len(x) /\ x[n + i] = y[i]
    /\ \A k \in 1..Len(x) : k \in 1..n \/ \E i \in 1..Len(y) : k = n + i

\* What y needs are directories among the first n above p.
Backed(y, p, n) ==
    \A i \in 1..Len(y) :
        /\ y[i].do \notin {"parent", "level"}
        /\ \A z \in Needs(y[i]) : z = Root \/ \E m \in 1..n : z = SubSeq(p, 1, m)

LEMMA PrefixRun ==
    ASSUME NEW t, t[Root] = Dir, NEW p \in Path, NEW do \in {"parent", "level"}, NEW n \in 0..Len(p),
           NEW y \in Seq(Stmts), Backed(y, p, n), NEW x, x = AllPrefixes(do, p, n) \o y
    PROVE  x \in Seq(Stmts) /\ Run(x, do, p, n, y) /\ Prepared(t, x)
<1> PICK a : a = AllPrefixes(do, p, n)
    OBVIOUS
<1>x. x = a \o y
    OBVIOUS
<1>1. n \in Nat /\ Len(p) \in Nat /\ \A i \in 1..n : i \in 1..Len(p)
    BY PathType
<1>2. do \in Verbs
    BY DEF Verbs
<1>3. ASSUME NEW i \in 1..n PROVE On(do, SubSeq(p, 1, i)) \in Stmts
    BY <1>1, <1>2, <1>3, LevelFacts, OnFacts, NodeFacts
<1>4. a = [i \in 1..n |-> On(do, SubSeq(p, 1, i))]
    BY DEF AllPrefixes
<1>5. a \in [1..n -> Stmts]
    BY <1>3, <1>4
<1>6. a \in Seq(Stmts) /\ Len(a) = n
    BY <1>1, <1>5, SeqDef, LenProperties
<1>7. /\ x \in Seq(Stmts) /\ Len(x) = n + Len(y) /\ Len(y) \in Nat
      /\ \A i \in 1..n : i \in 1..Len(x) /\ x[i] = On(do, SubSeq(p, 1, i))
      /\ \A i \in 1..Len(y) : n + i \in 1..Len(x) /\ x[n + i] = y[i]
      /\ \A k \in 1..Len(x) : k \in 1..n \/ \E i \in 1..Len(y) : k = n + i
    <2>1. \A i \in 1..n : a[i] = On(do, SubSeq(p, 1, i))
        BY <1>4
    <2>2. QED
        <3>1. x \in Seq(Stmts) /\ Joined(x, a, y)
            BY <1>6, <1>x, ConcatFacts
        <3>2. QED
            BY ONLY <1>6, <2>1, <3>1 DEF Joined
<1>8. ASSUME NEW m \in 1..n
      PROVE  x[m].do \in {"parent", "level"} /\ x[m].at = SubSeq(p, 1, m) /\ m \in 1..Len(x)
    <2>1. PICK f \in Path : f = SubSeq(p, 1, m)
        BY <1>1, <1>8, LevelFacts
    <2>2. x[m] = On(do, f) /\ m \in 1..Len(x)
        BY <1>7, <1>8, <2>1
    <2>3. On(do, f).do = do /\ On(do, f).at = f
        BY <2>1 DEF On, Stmt
    <2>4. QED
        BY <2>1, <2>2, <2>3
<1>9. ASSUME NEW k \in 1..Len(x), NEW z \in Needs(x[k]), t[z] # Dir
      PROVE  \E j \in 1..Len(x) : j < k /\ x[j].do \in {"parent", "level"} /\ x[j].at = z
    <2>1. CASE k \in 1..n
        <3>1. PICK f \in Path : f = SubSeq(p, 1, k) /\ Len(f) = k
            BY <1>1, <2>1, LevelFacts
        <3>2. z \in Above(f)
            BY <1>8, <1>9, <2>1, <3>1 DEF Needs
        <3>3. Len(z) \in 0..k - 1 /\ SubSeq(f, 1, Len(z)) = z /\ (z # Root => Len(z) >= 1) /\ z \in Path
            BY <3>1, <3>2, AboveIsFront
        <3>4. z # Root
            BY <1>9
        <3>5. PICK m : m = Len(z)
            OBVIOUS
        <3>6. m \in 1..n /\ m < k
            BY <1>1, <2>1, <3>3, <3>4, <3>5
        <3>7. z = SubSeq(p, 1, m)
            <4>1. PICK g \in Path : g = SubSeq(p, 1, m) /\ Len(g) = m
                BY <1>1, <3>6, LevelFacts
            <4>2. \A i \in 1..m : g[i] = p[i]
                <5>1. m \in 0..Len(p)
                    BY <1>1, <3>6
                <5>2. QED
                    BY <4>1, <5>1, FrontFacts
            <4>3. \A i \in 1..k : f[i] = p[i]
                <5>1. k \in 0..Len(p)
                    BY <1>1, <2>1
                <5>2. QED
                    BY <3>1, <5>1, FrontFacts
            <4>4. \A i \in 1..m : z[i] = f[i]
                <5>1. IsPrefix(z, f)
                    BY <3>2 DEF Above, IsStrictPrefix
                <5>2. QED
                    BY <3>1, <3>3, <3>5, <5>1, PrefixFacts
            <4>5. \A i \in 1..m : i \in 1..k
                BY <2>1, <3>6
            <4>6. \A i \in 1..m : z[i] = g[i]
                BY <4>2, <4>3, <4>4, <4>5
            <4>7. QED
                BY <3>3, <3>5, <4>1, <4>6, SamePath
        <3>8. QED
            BY <1>8, <3>6, <3>7
    <2>2. ASSUME NEW i \in 1..Len(y), k = n + i
          PROVE  \E j \in 1..Len(x) : j < k /\ x[j].do \in {"parent", "level"} /\ x[j].at = z
        <3>1. z \in Needs(y[i])
            BY <1>7, <1>9, <2>2
        <3>2. z # Root
            BY <1>9
        <3>3. PICK m \in 1..n : z = SubSeq(p, 1, m)
            BY <3>1, <3>2 DEF Backed
        <3>4. m < k
            BY <1>1, <2>2
        <3>5. QED
            BY <1>8, <3>3, <3>4
    <2>3. QED
        BY <1>7, <2>1, <2>2
<1>10. Prepared(t, x)
    BY ONLY <1>9 DEF Prepared
<1>11. Run(x, do, p, n, y)
    BY ONLY <1>1, <1>7 DEF Run
<1>12. QED
    BY <1>7, <1>10, <1>11

\* Statements that may stand where a statement of the operation stood.
Ready(c, b, w, t, x) ==
    /\ Prepared(t, x)
    /\ \A i \in 1..Len(x) : /\ Fit(c, b, w, x[i]) /\ Fresh(t, x[i]) /\ x[i].do # "rewrite"
                            /\ x[i].do \in {"create", "copyTo"} => i = Len(x)

Reached(x, p) == \E i \in 1..Len(x) : Reach(x[i], p)

LEMMA ReadyOne ==
    ASSUME NEW t, NEW c, NEW b, NEW w, NEW st \in Stmts, Fit(c, b, w, st), Fresh(t, st),
           st.do # "rewrite", \A z \in Needs(st) : t[z] = Dir
    PROVE  <<st>> \in Seq(Stmts) /\ Ready(c, b, w, t, <<st>>) /\ \A p : Reach(st, p) => Reached(<<st>>, p)
<1>1. PICK x : x = <<st>>
    OBVIOUS
<1>2. x \in Seq(Stmts) /\ Len(x) = 1 /\ x[1] = st
    BY <1>1
<1>3. 1 \in 1..Len(x) /\ \A i \in 1..Len(x) : i = 1 /\ i = Len(x) /\ x[i] = st
    BY ONLY <1>2
<1>4. Prepared(t, x)
    BY <1>3 DEF Prepared
<1>5. Ready(c, b, w, t, x)
    BY <1>3, <1>4 DEF Ready
<1>6. \A p : Reach(st, p) => Reached(x, p)
    BY <1>3 DEF Reached
<1>7. QED
    BY <1>1, <1>2, <1>5, <1>6

LEMMA ReadyTurn ==
    ASSUME NEW t \in Tree, NEW c, NEW b, NEW w \in Tree, NEW q \in Seq(Stmts), q # <<>>,
           Builds(c, b, w, t, q), NEW h, h = Head(q), h.do \notin {"parent", "level"},
           NEW x \in Seq(Stmts), Ready(c, b, w, t, x),
           \A p \in Path : Reach(h, p) => t[p] = w[p] \/ Reached(x, p),
           h.do \in {"rewrite", "copyTo"} \/ \A i \in 1..Len(x) : x[i].do \notin {"create", "copyTo"}
    PROVE  Builds(c, b, w, t, x \o Tail(q))
<1>1. h.do \in {"rewrite", "copyTo"} => Len(q) = 1
    <2>1. h = q[1] /\ 1 \in 1..Len(q)
        BY TailFacts
    <2>2. QED
        BY <2>1 DEF Builds, Alone
<1>2. \A i \in 1..Len(x) :
        /\ Fit(c, b, w, x[i]) /\ Fresh(t, x[i]) /\ x[i].do # "rewrite"
        /\ x[i].do \in {"create", "copyTo"} => i = Len(x) /\ Len(q) = 1
    BY <1>1 DEF Ready
<1>3. Prepared(t, x)
    BY DEF Ready
<1>4. \A p \in Path : Reach(h, p) => t[p] = w[p] \/ \E i \in 1..Len(x) : Reach(x[i], p)
    BY DEF Reached
<1>5. QED
    BY <1>2, <1>3, <1>4, BuildsTurn

LEMMA ReadyStart ==
    ASSUME NEW b, Shaped(b), NEW c, NEW w, NEW x, Ready(c, b, w, b, x),
           \A p \in Path : b[p] = w[p] \/ Reached(x, p)
    PROVE  Builds(c, b, w, b, x)
<1>1. Alone(x)
    BY DEF Ready, Alone
<1>2. QED
    BY <1>1 DEF Ready, Reached, Builds

\* The first n directories above p may be made by do.
Makes(c, b, w, do, p, n) ==
    \A i \in 1..n : /\ w[SubSeq(p, 1, i)] = Dir /\ b[SubSeq(p, 1, i)] \in {Absent, Dir}
                    /\ do = "parent" => SubSeq(p, 1, i) \in Above(Target(c))
                    /\ do = "level" => MakesAll(c) \/ CopiesTree(c, b)

\* As Ready, but for what is needed.
Suits(c, b, w, t, x) ==
    \A i \in 1..Len(x) : /\ Fit(c, b, w, x[i]) /\ Fresh(t, x[i]) /\ x[i].do # "rewrite"
                         /\ x[i].do \in {"create", "copyTo"} => i = Len(x)

LEMMA ReadyRun ==
    ASSUME NEW t, t[Root] = Dir, NEW c, NEW b, NEW w,
           NEW p \in Path, NEW do \in {"parent", "level"}, NEW n \in 0..Len(p),
           Makes(c, b, w, do, p, n), NEW y \in Seq(Stmts), Suits(c, b, w, t, y), Backed(y, p, n),
           NEW x, x = AllPrefixes(do, p, n) \o y
    PROVE  /\ x \in Seq(Stmts) /\ Ready(c, b, w, t, x)
           /\ \A m \in 1..n : Reached(x, SubSeq(p, 1, m))
           /\ \A i \in 1..Len(y) : \A z : Reach(y[i], z) => Reached(x, z)
<1>0. x \in Seq(Stmts) /\ Run(x, do, p, n, y) /\ Prepared(t, x)
    BY PrefixRun
<1>1. /\ Len(x) = n + Len(y) /\ n \in Nat /\ Len(y) \in Nat
      /\ \A i \in 1..n : i \in 1..Len(x) /\ x[i] = On(do, SubSeq(p, 1, i))
      /\ \A i \in 1..Len(y) : n + i \in 1..Len(x) /\ x[n + i] = y[i]
      /\ \A k \in 1..Len(x) : k \in 1..n \/ \E i \in 1..Len(y) : k = n + i
    BY ONLY <1>0 DEF Run
<1>2. ASSUME NEW m \in 1..n
      PROVE  /\ m \in 1..Len(x) /\ x[m].do = do /\ x[m].at = SubSeq(p, 1, m) /\ SubSeq(p, 1, m) # Root
             /\ Fit(c, b, w, x[m]) /\ Fresh(t, x[m])
    <2>1. m \in 1..Len(p)
        BY PathType
    <2>2. PICK f : f = SubSeq(p, 1, m)
        OBVIOUS
    <2>3. f # Root
        BY <2>1, <2>2, LevelFacts
    <2>4. x[m] = On(do, f) /\ m \in 1..Len(x) /\ x[m].do = do /\ x[m].at = f
        <3>1. x[m] = On(do, f) /\ m \in 1..Len(x)
            BY <1>1, <2>2
        <3>2. PICK g : g = On(do, f)
            OBVIOUS
        <3>3. g.do = do /\ g.at = f
            BY ONLY <3>2 DEF On, Stmt
        <3>4. QED
            BY <3>1, <3>2, <3>3
    <2>5. /\ w[f] = Dir /\ b[f] \in {Absent, Dir} /\ (do = "parent" => f \in Above(Target(c)))
          /\ do = "level" => MakesAll(c) \/ CopiesTree(c, b)
        BY <2>2 DEF Makes
    <2>6. Fit(c, b, w, x[m]) /\ Fresh(t, x[m])
        BY <2>3, <2>4, <2>5 DEF Fit, Fresh
    <2>7. QED
        BY <2>2, <2>3, <2>4, <2>6
<1>3. ASSUME NEW k \in 1..Len(x)
      PROVE  /\ Fit(c, b, w, x[k]) /\ Fresh(t, x[k]) /\ x[k].do # "rewrite"
             /\ x[k].do \in {"create", "copyTo"} => k = Len(x)
    <2>1. CASE k \in 1..n
        BY <1>2, <2>1
    <2>2. ASSUME NEW i \in 1..Len(y), k = n + i
          PROVE  /\ Fit(c, b, w, x[k]) /\ Fresh(t, x[k]) /\ x[k].do # "rewrite"
                 /\ x[k].do \in {"create", "copyTo"} => k = Len(x)
        BY <1>1, <2>2 DEF Suits
    <2>3. QED
        BY <1>1, <2>1, <2>2
<1>4. Ready(c, b, w, t, x)
    BY <1>0, <1>3 DEF Ready
<1>5. \A m \in 1..n : Reached(x, SubSeq(p, 1, m))
    BY <1>2 DEF Reach, Reached
<1>6. \A i \in 1..Len(y) : \A z : Reach(y[i], z) => Reached(x, z)
    BY <1>1 DEF Reached
<1>7. QED
    BY <1>0, <1>4, <1>5, <1>6

\* The paths above p, the root apart, and p itself are its prefixes.
LEMMA FrontsAbove ==
    ASSUME NEW p \in Path, p # Root
    PROVE  /\ Len(p) - 1 \in 0..Len(p) /\ Len(p) \in 0..Len(p)
           /\ \A z \in Above(p) : z = Root \/ \E m \in 1..Len(p) - 1 : z = SubSeq(p, 1, m)
           /\ \A z \in Above(p) \cup {p} : z = Root \/ \E m \in 1..Len(p) : z = SubSeq(p, 1, m)
           /\ \A m \in 1..Len(p) - 1 : SubSeq(p, 1, m) \in Above(p) /\ SubSeq(p, 1, m) \in Path
           /\ \A m \in 1..Len(p) : SubSeq(p, 1, m) \in Above(p) \cup {p} /\ SubSeq(p, 1, m) \in Path
<1>1. Len(p) \in Nat /\ Len(p) >= 1
    BY PathType
<1>2. Len(p) - 1 \in 0..Len(p) /\ Len(p) \in 0..Len(p) /\ Len(p) \in 1..Len(p)
    BY <1>1
<1>3. ASSUME NEW z \in Above(p), z # Root PROVE \E m \in 1..Len(p) - 1 : z = SubSeq(p, 1, m)
    <2>1. Len(z) \in 0..Len(p) - 1 /\ SubSeq(p, 1, Len(z)) = z /\ Len(z) >= 1
        BY <1>3, AboveIsFront
    <2>2. PICK m : m = Len(z)
        OBVIOUS
    <2>3. m \in 1..Len(p) - 1 /\ SubSeq(p, 1, m) = z
        BY <1>1, <2>1, <2>2
    <2>4. QED
        BY ONLY <2>3
<1>4. SubSeq(p, 1, Len(p)) = p
    BY <1>2, LevelFacts
<1>5. \A m \in 1..Len(p) - 1 : m \in 1..Len(p) /\ m \in 0..Len(p) - 1
    BY <1>1
<1>6. \A m \in 1..Len(p) - 1 : SubSeq(p, 1, m) \in Above(p) /\ SubSeq(p, 1, m) \in Path
    BY <1>5, WithinFacts
<1>7. \A m \in 1..Len(p) : SubSeq(p, 1, m) \in Above(p) \cup {p} /\ SubSeq(p, 1, m) \in Path
    BY LevelFacts
<1>8. \A z \in Above(p) \cup {p} : z = Root \/ \E m \in 1..Len(p) : z = SubSeq(p, 1, m)
    BY <1>2, <1>3, <1>4, <1>5
<1>9. QED
    BY <1>2, <1>3, <1>6, <1>7, <1>8

\* ensureParents of a place, and a statement for it.
LEMMA ParentsReady ==
    ASSUME NEW t, t[Root] = Dir, NEW c, NEW b, NEW w, NEW p \in Path, p # Root, p = Target(c),
           \A z \in Above(p) : w[z] = Dir /\ b[z] \in {Absent, Dir},
           NEW st \in Stmts, st.at = p, st.do \in {"create", "copyTo"}, Fit(c, b, w, st), Fresh(t, st),
           NEW x, x = Parents(p) \o <<st>>
    PROVE  /\ x \in Seq(Stmts) /\ Ready(c, b, w, t, x)
           /\ \A z \in Above(p) \cup {p} : z = Root \/ Reached(x, z)
<1>1. PICK y : y = <<st>>
    OBVIOUS
<1>2. y \in Seq(Stmts) /\ Len(y) = 1 /\ y[1] = st
    BY <1>1
<1>3. 1 \in 1..Len(y) /\ \A i \in 1..Len(y) : i = Len(y) /\ y[i] = st
    BY ONLY <1>2
<1>4. Needs(st) = Above(p)
    BY DEF Needs
<1>5. PICK n : n = Len(p) - 1
    OBVIOUS
<1>6. /\ n \in 0..Len(p) /\ \A z \in Above(p) : z = Root \/ \E m \in 1..n : z = SubSeq(p, 1, m)
      /\ \A m \in 1..n : SubSeq(p, 1, m) \in Above(p) /\ SubSeq(p, 1, m) \in Path
    BY <1>5, FrontsAbove
<1>7. x = AllPrefixes("parent", p, n) \o y
    BY <1>1, <1>5 DEF Parents
<1>8. Suits(c, b, w, t, y) /\ Backed(y, p, n)
    <2>1. Suits(c, b, w, t, y)
        BY <1>3 DEF Suits
    <2>2. Backed(y, p, n)
        BY <1>3, <1>4, <1>6 DEF Backed
    <2>3. QED
        BY <2>1, <2>2
<1>9. /\ x \in Seq(Stmts) /\ Ready(c, b, w, t, x)
      /\ \A m \in 1..n : Reached(x, SubSeq(p, 1, m))
      /\ \A i \in 1..Len(y) : \A z : Reach(y[i], z) => Reached(x, z)
    <2>1. Makes(c, b, w, "parent", p, n)
        BY <1>6 DEF Makes
    <2>2. QED
        BY <1>2, <1>6, <1>7, <1>8, <2>1, ReadyRun
<1>10. Reach(st, p)
    BY DEF Reach
<1>11. QED
    BY <1>3, <1>6, <1>9, <1>10

\* The way down to p may be made, and what y lists shall be copied to p.
Passable(b, w, p) == \A z \in Above(p) \cup {p} : z = Root \/ (w[z] = Dir /\ b[z] \in {Absent, Dir})
Lists(c, b, w, p, y) == \A i \in 1..Len(y) : y[i].do = "list" /\ y[i].to = p /\ Fit(c, b, w, y[i])

\* mkdir -p of a place, perhaps to list what shall be copied to it.
LEMMA LevelsReady ==
    ASSUME NEW t, t[Root] = Dir, NEW c, NEW b, NEW w, NEW p \in Path, p # Root,
           MakesAll(c) \/ CopiesTree(c, b),
           Passable(b, w, p), NEW y \in Seq(Stmts), Lists(c, b, w, p, y),
           NEW x, x = MkdirP(p) \o y
    PROVE  /\ x \in Seq(Stmts) /\ Ready(c, b, w, t, x)
           /\ \A z \in Above(p) \cup {p} : z = Root \/ Reached(x, z)
           /\ \A i \in 1..Len(y) : \A z : Reach(y[i], z) => Reached(x, z)
           /\ \A i \in 1..Len(x) : x[i].do \notin {"create", "copyTo"}
<1>1. PICK n : n = Len(p)
    OBVIOUS
<1>2. /\ n \in 0..Len(p) /\ \A z \in Above(p) \cup {p} : z = Root \/ \E m \in 1..n : z = SubSeq(p, 1, m)
      /\ \A m \in 1..n : SubSeq(p, 1, m) \in Above(p) \cup {p} /\ SubSeq(p, 1, m) # Root
    <2>1. /\ Len(p) \in 0..Len(p) /\ \A z \in Above(p) \cup {p} : z = Root \/ \E m \in 1..Len(p) : z = SubSeq(p, 1, m)
          /\ \A m \in 1..Len(p) : SubSeq(p, 1, m) \in Above(p) \cup {p}
        BY FrontsAbove
    <2>2. \A m \in 1..Len(p) : SubSeq(p, 1, m) # Root
        BY LevelFacts
    <2>3. QED
        BY ONLY <1>1, <2>1, <2>2
<1>3. x = AllPrefixes("level", p, n) \o y
    BY <1>1 DEF MkdirP
<1>4. Makes(c, b, w, "level", p, n)
    BY <1>2 DEF Makes, Passable
<1>5. Suits(c, b, w, t, y) /\ Backed(y, p, n)
    <2>1. Suits(c, b, w, t, y)
        BY DEF Suits, Fresh, Lists
    <2>2. ASSUME NEW i \in 1..Len(y) PROVE Needs(y[i]) = Above(p) \cup {p}
        BY DEF Needs, Lists
    <2>3. Backed(y, p, n)
        BY <1>2, <2>2 DEF Backed, Lists
    <2>4. QED
        BY <2>1, <2>3
<1>6. /\ x \in Seq(Stmts) /\ Ready(c, b, w, t, x)
      /\ \A m \in 1..n : Reached(x, SubSeq(p, 1, m))
      /\ \A i \in 1..Len(y) : \A z : Reach(y[i], z) => Reached(x, z)
    <2>1. n \in 0..Len(p)
        BY <1>2
    <2>2. PICK do \in {"parent", "level"} : do = "level"
        OBVIOUS
    <2>3. Makes(c, b, w, do, p, n) /\ x = AllPrefixes(do, p, n) \o y
        BY <1>3, <1>4, <2>2
    <2>4. QED
        BY ONLY t[Root] = Dir, p \in Path, y \in Seq(Stmts), <1>5, <2>1, <2>3, ReadyRun
<1>7. ASSUME NEW i \in 1..Len(x) PROVE x[i].do \notin {"create", "copyTo"}
    <2>1. Fit(c, b, w, x[i])
        BY <1>6 DEF Ready
    <2>2. QED
        BY <2>1 DEF Fit
<1>8. QED
    BY <1>2, <1>6, <1>7

-----------------------------------------------------------------------------
(* A subtree and its image *)

\* How r stands below to as q stands below at.
Image(q, at, r, to) ==
    /\ q \in Within(at) /\ r \in Within(to) /\ Len(r) - Len(to) = Len(q) - Len(at)
    /\ \A i \in Len(at) + 1..Len(q) : q[i] = r[i - Len(at) + Len(to)]

LEMMA ImageTypes ==
    ASSUME NEW at \in Path, NEW to \in Path, NEW q, NEW r, Image(q, at, r, to)
    PROVE  /\ q \in Path /\ r \in Path /\ Len(at) <= Len(q) /\ Len(to) <= Len(r)
           /\ Len(at) \in Nat /\ Len(to) \in Nat /\ Len(q) \in Nat /\ Len(r) \in Nat
           /\ \A i \in 1..Len(at) : q[i] = at[i]
           /\ \A i \in 1..Len(to) : r[i] = to[i]
<1>1. q \in Path /\ r \in Path /\ IsPrefix(at, q) /\ IsPrefix(to, r)
    BY DEF Image, Within
<1>2. QED
    BY <1>1, PathType, PrefixFacts

LEMMA ImageBack ==
    ASSUME NEW at \in Path, NEW to \in Path, NEW q, NEW r, Image(q, at, r, to)
    PROVE  Image(r, to, q, at)
<1>1. /\ Len(at) \in Nat /\ Len(to) \in Nat /\ Len(q) \in Nat /\ Len(r) \in Nat
      /\ Len(at) <= Len(q) /\ Len(to) <= Len(r)
    BY ImageTypes
<1>2. ASSUME NEW i \in Len(to) + 1..Len(r) PROVE r[i] = q[i - Len(to) + Len(at)]
    <2>1. PICK k : k = i - Len(to) + Len(at)
        OBVIOUS
    <2>2. k \in Len(at) + 1..Len(q) /\ k - Len(at) + Len(to) = i
        BY ONLY <1>1, <2>1, Len(r) - Len(to) = Len(q) - Len(at), i \in Len(to) + 1..Len(r), Image(q, at, r, to) DEF Image
    <2>3. q[k] = r[k - Len(at) + Len(to)]
        BY <2>2 DEF Image
    <2>4. QED
        BY <2>1, <2>2, <2>3
<1>3. Len(q) - Len(at) = Len(r) - Len(to)
    BY <1>1 DEF Image
<1>4. QED
    BY <1>2, <1>3 DEF Image

\* What moves is an image of what was there, and the only one.
LEMMA MovedImage ==
    ASSUME NEW at \in Path, NEW to \in Path, NEW q \in Within(at), Moved(q, at, to) \in Path
    PROVE  Image(q, at, Moved(q, at, to), to)
<1>1. q \in Path /\ Len(at) \in Nat /\ Len(q) \in Nat /\ Len(to) \in Nat /\ Len(at) <= Len(q)
    BY WithinFacts, PathType
<1>2. PICK r : r = Moved(q, at, to)
    OBVIOUS
<1>3. /\ r \in Path /\ Len(r) = Len(to) + (Len(q) - Len(at)) /\ \A i \in 1..Len(to) : r[i] = to[i]
      /\ \A i \in Len(to) + 1..Len(to) + (Len(q) - Len(at)) : r[i] = q[i - Len(to) + Len(at)]
    <2>1. r \in Path
        BY <1>2
    <2>2. /\ Len(r) = Len(to) + (Len(q) - Len(at)) /\ \A i \in 1..Len(to) : r[i] = to[i]
          /\ \A i \in Len(to) + 1..Len(to) + (Len(q) - Len(at)) : r[i] = q[i - Len(to) + Len(at)]
        BY ONLY <1>1, <1>2, at \in Path, to \in Path, MovedFacts
    <2>3. QED
        BY <2>1, <2>2
<1>4. r \in Within(to)
    <2>1. Len(to) <= Len(r)
        BY ONLY <1>1, <1>3
    <2>2. IsPrefix(to, r)
        BY <1>3, <2>1, PrefixFacts
    <2>3. QED
        BY <1>3, <2>2 DEF Within
<1>5. ASSUME NEW i \in Len(at) + 1..Len(q) PROVE q[i] = r[i - Len(at) + Len(to)]
    <2>1. PICK k : k = i - Len(at) + Len(to)
        OBVIOUS
    <2>2. k \in Len(to) + 1..Len(to) + (Len(q) - Len(at)) /\ k - Len(to) + Len(at) = i
        BY ONLY <1>1, <2>1, i \in Len(at) + 1..Len(q)
    <2>3. r[k] = q[k - Len(to) + Len(at)]
        BY <1>3, <2>2
    <2>4. QED
        BY <2>1, <2>2, <2>3
<1>6. Len(r) - Len(to) = Len(q) - Len(at)
    BY ONLY <1>1, <1>3
<1>7. QED
    BY <1>2, <1>4, <1>5, <1>6 DEF Image

LEMMA ImageUnique ==
    ASSUME NEW at \in Path, NEW to \in Path, NEW q, NEW r, NEW s, Image(q, at, r, to), Image(q, at, s, to)
    PROVE  r = s
<1>1. /\ Len(at) \in Nat /\ Len(to) \in Nat /\ Len(q) \in Nat /\ Len(r) \in Nat /\ Len(s) \in Nat
      /\ Len(at) <= Len(q) /\ Len(to) <= Len(r) /\ r \in Path /\ s \in Path
      /\ \A i \in 1..Len(to) : r[i] = to[i] /\ s[i] = to[i]
    BY ImageTypes
<1>2. Len(r) = Len(s)
    BY <1>1 DEF Image
<1>3. Image(r, to, q, at) /\ Image(s, to, q, at)
    BY ImageBack
<1>4. ASSUME NEW i \in 1..Len(r) PROVE r[i] = s[i]
    <2>1. i \in 1..Len(to) \/ i \in Len(to) + 1..Len(r)
        BY <1>1
    <2>2. CASE i \in 1..Len(to)
        BY <1>1, <2>2
    <2>3. CASE i \in Len(to) + 1..Len(r)
        BY <1>2, <1>3, <2>3 DEF Image
    <2>4. QED
        BY <2>1, <2>2, <2>3
<1>5. QED
    BY <1>1, <1>2, <1>4, SamePath

LEMMA ImageMoved ==
    ASSUME NEW at \in Path, NEW to \in Path, NEW q, NEW r, Image(q, at, r, to)
    PROVE  Moved(q, at, to) = r /\ Moved(r, to, at) = q
<1>1. ASSUME NEW a \in Path, NEW b \in Path, NEW x, NEW y, Image(x, a, y, b) PROVE Moved(x, a, b) = y
    <2>1. /\ Len(a) \in Nat /\ Len(b) \in Nat /\ Len(x) \in Nat /\ Len(y) \in Nat
          /\ Len(a) <= Len(x) /\ Len(b) <= Len(y) /\ x \in Path /\ y \in Path /\ x \in Within(a)
        BY <1>1, ImageTypes DEF Image
    <2>2. PICK m : m = Moved(x, a, b)
        OBVIOUS
    <2>3. m \in Seq(Name) /\ Len(m) = Len(b) + (Len(x) - Len(a))
        BY <2>1, <2>2, MovedFacts
    <2>4. Len(y) - Len(b) = Len(x) - Len(a)
        BY <1>1 DEF Image
    <2>5. Len(m) = Len(y)
        BY ONLY <2>1, <2>3, <2>4
    <2>6. m \in Path
        BY <2>1, <2>3, <2>5, PathType, IsPath
    <2>7. Image(x, a, m, b)
        BY <2>1, <2>2, <2>6, MovedImage
    <2>8. QED
        BY <1>1, <2>2, <2>7, ImageUnique
<1>2. QED
    BY <1>1, ImageBack

LEMMA ImageOrder ==
    ASSUME NEW at \in Path, NEW to \in Path, NEW q, NEW r, Image(q, at, r, to),
           NEW x, NEW y, Image(x, at, y, to), IsPrefix(q, x)
    PROVE  IsPrefix(r, y)
<1>1. /\ Len(at) \in Nat /\ Len(to) \in Nat /\ Len(q) \in Nat /\ Len(r) \in Nat /\ Len(x) \in Nat /\ Len(y) \in Nat
      /\ Len(at) <= Len(q) /\ Len(to) <= Len(r) /\ q \in Path /\ r \in Path /\ x \in Path /\ y \in Path
      /\ \A i \in 1..Len(to) : r[i] = to[i] /\ y[i] = to[i]
    BY ImageTypes
<1>2. Len(q) <= Len(x) /\ \A i \in 1..Len(q) : q[i] = x[i]
    BY <1>1, PrefixFacts
<1>3. Len(r) - Len(to) = Len(q) - Len(at) /\ Len(y) - Len(to) = Len(x) - Len(at)
    BY DEF Image
<1>4. Len(r) <= Len(y)
    BY ONLY <1>1, <1>2, <1>3
<1>5. Image(r, to, q, at) /\ Image(y, to, x, at)
    BY ImageBack
<1>6. ASSUME NEW i \in 1..Len(r) PROVE r[i] = y[i]
    <2>1. i \in 1..Len(to) \/ i \in Len(to) + 1..Len(r)
        BY <1>1
    <2>2. CASE i \in 1..Len(to)
        BY <1>1, <2>2
    <2>3. CASE i \in Len(to) + 1..Len(r)
        <3>1. i \in Len(to) + 1..Len(y)
            BY <1>1, <1>4, <2>3
        <3>2. PICK k : k = i - Len(to) + Len(at)
            OBVIOUS
        <3>3. r[i] = q[k] /\ y[i] = x[k]
            BY <1>5, <2>3, <3>1, <3>2 DEF Image
        <3>4. k \in 1..Len(q)
            BY ONLY <1>1, <1>3, <2>3, <3>2
        <3>5. QED
            BY <1>2, <3>3, <3>4
    <2>4. QED
        BY <2>1, <2>2, <2>3
<1>7. QED
    BY <1>1, <1>4, <1>6, PrefixFacts

\* An image of an image.
LEMMA ImageBelow ==
    ASSUME NEW at \in Path, NEW to \in Path, NEW q, NEW r, Image(q, at, r, to), NEW x \in Within(q),
           NEW y, Image(x, q, y, r)
    PROVE  Image(x, at, y, to)
<1>1. /\ Len(at) \in Nat /\ Len(to) \in Nat /\ Len(q) \in Nat /\ Len(r) \in Nat
      /\ Len(at) <= Len(q) /\ Len(to) <= Len(r) /\ q \in Path /\ r \in Path
    BY ImageTypes
<1>2. x \in Path /\ y \in Path /\ Len(x) \in Nat /\ Len(y) \in Nat /\ Len(q) <= Len(x) /\ Len(r) <= Len(y)
      /\ (\A i \in 1..Len(q) : x[i] = q[i]) /\ (\A i \in 1..Len(r) : y[i] = r[i])
    BY <1>1, ImageTypes
<1>3. x \in Within(at) /\ y \in Within(to)
    <2>1. q \in Within(at) /\ r \in Within(to) /\ x \in Within(q) /\ y \in Within(r)
        BY DEF Image
    <2>2. QED
        BY <2>1, SubtreeFacts
<1>4. Len(r) - Len(to) = Len(q) - Len(at) /\ Len(y) - Len(r) = Len(x) - Len(q)
    BY DEF Image
<1>5. Len(y) - Len(to) = Len(x) - Len(at)
    <2>1. PICK a \in Nat : a = Len(at)
        BY <1>1
    <2>2. PICK b \in Nat : b = Len(to)
        BY <1>1
    <2>3. PICK f \in Nat : f = Len(q)
        BY <1>1
    <2>4. PICK d \in Nat : d = Len(r)
        BY <1>1
    <2>5. PICK g \in Nat : g = Len(x)
        BY <1>2
    <2>6. PICK e \in Nat : e = Len(y)
        BY <1>2
    <2>7. d - b = f - a /\ e - d = g - f
        BY ONLY <1>4, <2>1, <2>2, <2>3, <2>4, <2>5, <2>6
    <2>8. e - b = g - a
        BY ONLY <2>7
    <2>9. QED
        BY ONLY <2>1, <2>2, <2>5, <2>6, <2>8
<1>6. ASSUME NEW i \in Len(at) + 1..Len(x) PROVE x[i] = y[i - Len(at) + Len(to)]
    <2>1. PICK k : k = i - Len(at) + Len(to)
        OBVIOUS
    <2>2. CASE i \in Len(at) + 1..Len(q)
        <3>1. q[i] = r[k]
            BY <2>1, <2>2 DEF Image
        <3>2. k \in 1..Len(r) /\ i \in 1..Len(q)
            BY ONLY <1>1, <1>4, <2>1, <2>2
        <3>3. QED
            BY <1>2, <2>1, <3>1, <3>2
    <2>3. CASE i \in Len(q) + 1..Len(x)
        <3>1. x[i] = y[i - Len(q) + Len(r)]
            BY <2>3 DEF Image
        <3>2. i - Len(q) + Len(r) = k
            BY ONLY <1>1, <1>4, <2>1, <2>3
        <3>3. QED
            BY <2>1, <3>1, <3>2
    <2>4. i \in Len(at) + 1..Len(q) \/ i \in Len(q) + 1..Len(x)
        BY <1>1, <1>2
    <2>5. QED
        BY <2>2, <2>3, <2>4
<1>7. QED
    BY <1>3, <1>5, <1>6 DEF Image

-----------------------------------------------------------------------------
(* Source and destination *)

LEMMA OriginImage ==
    ASSUME NEW c \in Requests, c.op \in {"mv", "cp"}
    PROVE  /\ \A q \in Within(c.at) : /\ Image(q, c.at, Moved(q, c.at, c.to), c.to)
                                      /\ Moved(q, c.at, c.to) \in Within(c.to)
                                      /\ Origin(c, Moved(q, c.at, c.to)) = q
           /\ \A q \in Within(c.to) : Origin(c, q) \in Path =>
                  /\ Image(Origin(c, q), c.at, q, c.to)
                  /\ Origin(c, q) \in Within(c.at)
                  /\ Moved(Origin(c, q), c.at, c.to) = q
<1>1. c.at \in Path /\ c.to \in Path /\ Len(c.to) <= Len(c.at)
    BY RequestFacts
<1>2. ASSUME NEW q \in Within(c.at)
      PROVE  /\ Image(q, c.at, Moved(q, c.at, c.to), c.to)
             /\ Moved(q, c.at, c.to) \in Within(c.to)
             /\ Origin(c, Moved(q, c.at, c.to)) = q
    <2>1. q \in Path /\ Len(c.at) <= Len(q)
        BY <1>1, WithinFacts
    <2>2. Moved(q, c.at, c.to) \in Within(c.to)
        BY <1>1, <2>1, MovedPath
    <2>3. Moved(q, c.at, c.to) \in Path
        BY <1>1, <2>2, WithinFacts
    <2>4. Image(q, c.at, Moved(q, c.at, c.to), c.to)
        BY <1>1, <2>3, MovedImage
    <2>5. QED
        BY <1>1, <2>2, <2>4, ImageMoved DEF Origin
<1>3. ASSUME NEW q \in Within(c.to), Origin(c, q) \in Path
      PROVE  /\ Image(Origin(c, q), c.at, q, c.to)
             /\ Origin(c, q) \in Within(c.at)
             /\ Moved(Origin(c, q), c.at, c.to) = q
    <2>1. PICK o \in Path : o = Origin(c, q)
        BY <1>3
    <2>2. Moved(q, c.to, c.at) = o /\ Moved(q, c.to, c.at) \in Path
        BY <2>1 DEF Origin
    <2>3. Image(q, c.to, o, c.at)
        BY <1>1, <2>2, MovedImage
    <2>4. Image(o, c.at, q, c.to)
        BY <1>1, <2>3, ImageBack
    <2>5. Moved(o, c.at, c.to) = q /\ o \in Within(c.at)
        BY <1>1, <2>4, ImageMoved DEF Image
    <2>6. QED
        BY <2>1, <2>4, <2>5
<1>4. QED
    BY <1>2, <1>3

\* What lies above a place in the destination comes from above its origin.
LEMMA OriginAbove ==
    ASSUME NEW c \in Requests, c.op \in {"mv", "cp"}, NEW q \in Within(c.to), Origin(c, q) \in Path,
           NEW z \in Within(c.to), IsPrefix(z, q)
    PROVE  /\ Origin(c, z) \in Path /\ IsPrefix(Origin(c, z), Origin(c, q))
           /\ z # q => Origin(c, z) \in Above(Origin(c, q))
<1>1. c.at \in Path /\ c.to \in Path /\ q \in Path /\ z \in Path /\ Len(c.to) <= Len(z)
    BY RequestFacts, WithinFacts
<1>2. /\ Len(c.at) \in Nat /\ Len(c.to) \in Nat /\ Len(q) \in Nat /\ Len(z) \in Nat /\ Len(z) <= Len(q)
      /\ Depth \in Nat
    BY <1>1, PathType, PrefixFacts, TreeAssumption
<1>3. PICK o \in Path : o = Origin(c, q)
    OBVIOUS
<1>4. PICK y : y = Origin(c, z)
    OBVIOUS
<1>5. y \in Seq(Name) /\ Len(y) = Len(c.at) + (Len(z) - Len(c.to))
    BY <1>1, <1>4, MovedFacts DEF Origin
<1>6. Image(o, c.at, q, c.to) /\ Len(o) \in Nat /\ Len(o) <= Depth
    BY <1>3, OriginImage, PathType
<1>7. Len(q) - Len(c.to) = Len(o) - Len(c.at)
    BY <1>6 DEF Image
<1>8. Len(y) <= Len(o) /\ Len(y) <= Depth
    <2>1. PICK n : n = Len(y)
        OBVIOUS
    <2>2. n = Len(c.at) + (Len(z) - Len(c.to))
        BY <1>5, <2>1
    <2>3. n <= Len(o) /\ n <= Depth
        BY ONLY <1>2, <1>6, <1>7, <2>2
    <2>4. QED
        BY <2>1, <2>3
<1>9. y \in Path
    BY <1>5, <1>8, IsPath
<1>10. Image(y, c.at, z, c.to)
    BY <1>4, <1>9, OriginImage
<1>11. Image(q, c.to, o, c.at) /\ Image(z, c.to, y, c.at)
    BY <1>1, <1>6, <1>10, ImageBack
<1>12. IsPrefix(y, o)
    BY ONLY <1>1, <1>11, IsPrefix(z, q), ImageOrder
<1>13. y = o => z = q
    BY ONLY <1>1, <1>6, <1>10, ImageUnique
<1>14. z # q => y \in Above(o)
    BY <1>9, <1>12, <1>13 DEF Above, IsStrictPrefix
<1>15. QED
    BY <1>3, <1>4, <1>9, <1>12, <1>14

\* What the writes, mkdir and cp make of the rows b.
LEMMA Bounds ==
    ASSUME NEW b \in Tree, Shaped(b), NEW c \in Requests, Proper(c, b), ~Fails(c, b),
           c.op \in {"write", "append", "mkdir", "cp"}, NEW w, w = Result(c, b)
    PROVE  /\ w \in Tree /\ w[Root] = Dir
           /\ \A z \in Above(Target(c)) : w[z] = Dir /\ b[z] \in {Absent, Dir}
           /\ \A z \in Path : z \notin Above(Target(c)) /\ z \notin Within(Target(c)) => w[z] = b[z]
           /\ c.op # "cp" => \A z \in Path : z \notin Above(Target(c)) /\ z # c.at => w[z] = b[z]
<1>1. Target(c) \in Path /\ Target(c) # Root /\ Target(c) \in Within(Target(c))
    BY RequestFacts, WithinFacts
<1>2. Root \in Above(Target(c))
    <2>1. Root \in Path /\ Len(Root) = 0 /\ Len(Target(c)) \in Nat
        BY <1>1, RootFacts, PathType
    <2>2. IsPrefix(Root, Target(c))
        BY <1>1, <2>1, PrefixFacts
    <2>3. QED
        BY <1>1, <2>1, <2>2 DEF Above, IsStrictPrefix
<1>3. CASE c.op = "cp"
    BY <1>2, <1>3, ResultCp DEF Target
<1>4. CASE c.op # "cp"
    <2>1. Target(c) = c.at /\ c.op \in {"write", "append", "mkdir"}
        BY <1>4 DEF Target
    <2>2. QED
        BY <1>1, <1>2, <2>1, ResultPut
<1>5. QED
    BY <1>3, <1>4

\* What cp makes of a place that comes from at.
LEMMA CopyFacts ==
    ASSUME NEW b \in Tree, Shaped(b), NEW c \in Requests, Proper(c, b), ~Fails(c, b), c.op = "cp",
           NEW w, w = Result(c, b), NEW at \in Within(c.at), b[at] # Absent,
           NEW to, to = Moved(at, c.at, c.to)
    PROVE  /\ to \in Within(c.to) /\ to # Root /\ to \in Path /\ Image(at, c.at, to, c.to)
           /\ w[to] = b[at] /\ w[at] = b[at]
           /\ b[to] # Absent => b[to].kind = b[at].kind
           /\ \A z \in Above(to) : w[z] = Dir /\ b[z] \in {Absent, Dir}
<1>1. /\ to \in Within(c.to) /\ Image(at, c.at, to, c.to) /\ Origin(c, to) = at /\ c.to \in Path /\ c.at \in Path
      /\ at \in Path /\ to \in Path /\ c.to # Root
    BY OriginImage, RequestFacts, WithinFacts
<1>2. to # Root
    BY <1>1, PathType, WithinFacts, RootFacts
<1>3. Target(c) = c.to
    BY DEF Target
<1>4. w[to] = b[at]
    BY <1>1, ResultCp
<1>5. w[at] = b[at]
    BY <1>1, Apart, ResultCp
<1>6. \A q \in Within(c.at) : b[q] # Absent /\ b[Moved(q, c.at, c.to)] # Absent => b[q].kind = b[Moved(q, c.at, c.to)].kind
    <2>1. \A q \in Within(c.at) : q \in Path /\ Moved(q, c.at, c.to) \in Path
        BY <1>1, OriginImage, WithinFacts
    <2>2. \A q \in Path : b[q] # Absent => ~Is(b, q, "none")
        BY NodeFacts DEF Is, Tree
    <2>3. QED
        BY <2>1, <2>2 DEF Proper
<1>7. b[to] # Absent => b[to].kind = b[at].kind
    BY <1>6
<1>8. ASSUME NEW z \in Above(to) PROVE w[z] = Dir /\ b[z] \in {Absent, Dir}
    <2>1. z \in Above(c.to) \cup Within(c.to) /\ z \in Path /\ IsPrefix(z, to) /\ z # to
        BY <1>1, <1>8, SubtreeFacts DEF Above, IsStrictPrefix
    <2>2. CASE z \in Above(c.to)
        BY <1>3, <2>2, Bounds
    <2>3. CASE z \in Within(c.to)
        <3>1. PICK o : o = Origin(c, z)
            OBVIOUS
        <3>2. o \in Path /\ o \in Above(at)
            BY <1>1, <2>1, <2>3, <3>1, OriginAbove
        <3>3. b[o] = Dir
            BY <1>1, <3>2, AboveDirs
        <3>4. o \in Within(c.at) /\ Moved(o, c.at, c.to) = z
            BY <2>3, <3>1, <3>2, OriginImage
        <3>5. Dir # Absent
            BY NodeFacts
        <3>6. w[z] = Dir
            BY <2>3, <3>1, <3>2, <3>3, <3>5, ResultCp
        <3>7. b[z] # Absent => b[z].kind = "dir"
            BY <1>6, <3>3, <3>4, <3>5, NodeFacts
        <3>8. b[z] \in Node
            BY <2>1 DEF Tree
        <3>9. QED
            BY <3>6, <3>7, <3>8, NodeFacts
    <2>4. QED
        BY <2>1, <2>2, <2>3
<1>9. QED
    BY <1>1, <1>2, <1>4, <1>5, <1>7, <1>8

-----------------------------------------------------------------------------
(* The statements that look: what they put in their place *)

\* A statement to be executed next finds the directories it needs.
LEMMA HeadPrepared ==
    ASSUME NEW t, NEW c, NEW b, NEW w, NEW q \in Seq(Stmts), q # <<>>, Builds(c, b, w, t, q),
           NEW h, h = Head(q)
    PROVE  Fit(c, b, w, h) /\ Fresh(t, h) /\ h \in Stmts /\ \A z \in Needs(h) : t[z] = Dir
<1>1. h = q[1] /\ 1 \in 1..Len(q) /\ h \in Stmts
    <2>1. h = q[1] /\ 1 \in 1..Len(q)
        BY TailFacts
    <2>2. QED
        BY <2>1, ElementOfSeq
<1>2. Fit(c, b, w, h) /\ Fresh(t, h)
    BY <1>1 DEF Builds
<1>3. \A z \in Needs(q[1]) : t[z] = Dir \/ \E j \in 1..Len(q) : j < 1
    BY <1>1 DEF Builds, Prepared
<1>4. \A j \in 1..Len(q) : ~(j < 1)
    OBVIOUS
<1>5. QED
    BY <1>1, <1>2, <1>3, <1>4

\* What lies between b and w, and differs from b, is as in w.
LEMMA BetweenFacts ==
    ASSUME NEW t \in Tree, NEW c, NEW b \in Tree, NEW w \in Tree, NEW q, Builds(c, b, w, t, q), NEW p \in Path
    PROVE  /\ t[p] \in Node /\ (t[p] = b[p] \/ t[p] = w[p]) /\ (w[p] = b[p] => t[p] = b[p])
           /\ w[p] \in Node /\ b[p] \in Node /\ t[Root] = Dir /\ Shaped(t)
BY DEF Builds, Tree, Shaped

\* The update of a file's content, or where there is no row its creation.
LEMMA UpdateReady ==
    ASSUME NEW t \in Tree, NEW c, NEW b \in Tree, NEW w \in Tree, NEW q \in Seq(Stmts), q # <<>>,
           Builds(c, b, w, t, q), NEW h, h = Head(q), h.do \in {"createOrUpdate", "copyTo"},
           t[h.at] # Absent
    PROVE  Builds(c, b, w, t, <<Put("update", h.at, h.node)>> \o Tail(q))
<1>1. Fit(c, b, w, h) /\ h \in Stmts
    BY HeadPrepared
<1>2. h.at \in Path /\ h.node \in Node
    BY <1>1, StmtType
<1>3. w[h.at] = h.node /\ h.at # Root /\ h.node.kind = "file" /\ b[h.at] # Dir
    BY <1>1 DEF Fit
<1>4. Is(t, h.at, "file")
    <2>0. t[h.at] \in Node /\ (t[h.at] = b[h.at] \/ t[h.at] = w[h.at])
        <3>1. PICK p \in Path : p = h.at
            BY <1>2
        <3>2. t[p] \in Node /\ (t[p] = b[p] \/ t[p] = w[p])
            BY BetweenFacts
        <3>3. QED
            BY <3>1, <3>2
    <2>1. t[h.at] \in Node /\ t[h.at] # Dir
        BY <1>3, <2>0, NodeFacts
    <2>2. QED
        BY <2>1, NodeFacts DEF Is
<1>5. PICK st : st = Put("update", h.at, h.node)
    OBVIOUS
<1>6. st \in Stmts /\ st.do = "update" /\ st.at = h.at /\ st.node = h.node
    <2>1. "update" \in Verbs
        BY DEF Verbs
    <2>2. st \in Stmts /\ st = Stmt("update", h.at, h.at, h.node)
        BY <1>2, <1>5, <2>1, OnFacts
    <2>3. QED
        BY <1>2, <2>1, <2>2, StmtFacts
<1>7. Fit(c, b, w, st) /\ Fresh(t, st) /\ st.do # "rewrite" /\ Needs(st) = {}
    BY <1>3, <1>4, <1>6 DEF Fit, Fresh, Needs
<1>8. PICK x : x = <<st>>
    OBVIOUS
<1>9. x \in Seq(Stmts) /\ Ready(c, b, w, t, x) /\ \A p : Reach(st, p) => Reached(x, p)
    BY <1>6, <1>7, <1>8, ReadyOne
<1>10. \A p \in Path : Reach(h, p) => Reached(x, p)
    BY <1>6, <1>9 DEF Reach
<1>11. \A i \in 1..Len(x) : x[i].do \notin {"create", "copyTo"}
    <2>1. Len(x) = 1 /\ x[1] = st
        BY <1>8
    <2>2. \A i \in 1..Len(x) : x[i] = st
        BY ONLY <2>1
    <2>3. QED
        BY <1>6, <2>2
<1>12. h.do \notin {"parent", "level"}
    OBVIOUS
<1>13. Builds(c, b, w, t, x \o Tail(q))
    BY <1>9, <1>10, <1>11, <1>12, ReadyTurn
<1>14. QED
    BY <1>5, <1>8, <1>13

LEMMA CreateReady ==
    ASSUME NEW t \in Tree, NEW c, NEW b \in Tree, NEW w \in Tree, NEW q \in Seq(Stmts), q # <<>>,
           Builds(c, b, w, t, q), NEW h, h = Head(q), h.do = "copyTo", t[h.at] = Absent
    PROVE  Builds(c, b, w, t, <<Put("create", h.at, h.node)>> \o Tail(q))
<1>1. Fit(c, b, w, h) /\ h \in Stmts /\ \A z \in Needs(h) : t[z] = Dir
    BY HeadPrepared
<1>2. h.at \in Path /\ h.node \in Node
    BY <1>1, StmtType
<1>3. /\ w[h.at] = h.node /\ h.at # Root /\ h.at = Target(c) /\ ~MakesAll(c) /\ ~CopiesTree(c, b)
      /\ Needs(h) = Above(h.at)
    BY <1>1 DEF Fit, Needs
<1>5. PICK st : st = Put("create", h.at, h.node)
    OBVIOUS
<1>6. st \in Stmts /\ st.do = "create" /\ st.at = h.at /\ st.node = h.node
    <2>1. "create" \in Verbs
        BY DEF Verbs
    <2>2. st \in Stmts /\ st = Stmt("create", h.at, h.at, h.node)
        BY <1>2, <1>5, <2>1, OnFacts
    <2>3. QED
        BY <1>2, <2>1, <2>2, StmtFacts
<1>7. Fit(c, b, w, st) /\ Fresh(t, st) /\ st.do # "rewrite" /\ Needs(st) = Above(h.at)
    BY <1>3, <1>6 DEF Fit, Fresh, Needs
<1>8. PICK x : x = <<st>>
    OBVIOUS
<1>9. x \in Seq(Stmts) /\ Ready(c, b, w, t, x) /\ \A p : Reach(st, p) => Reached(x, p)
    BY <1>1, <1>3, <1>6, <1>7, <1>8, ReadyOne
<1>10. \A p \in Path : Reach(h, p) => Reached(x, p)
    BY <1>6, <1>9 DEF Reach
<1>12. h.do \notin {"parent", "level"} /\ h.do \in {"rewrite", "copyTo"}
    OBVIOUS
<1>13. Builds(c, b, w, t, x \o Tail(q))
    BY <1>9, <1>10, <1>12, ReadyTurn
<1>14. QED
    BY <1>5, <1>8, <1>13

\* The new file of an append: its directories, and the file.
LEMMA RewriteReady ==
    ASSUME NEW t \in Tree, NEW b \in Tree, NEW c \in Requests, NEW w \in Tree,
           \A z \in Above(Target(c)) : w[z] = Dir /\ b[z] \in {Absent, Dir},
           NEW q \in Seq(Stmts), q # <<>>, Builds(c, b, w, t, q), NEW h, h = Head(q), h.do = "rewrite"
    PROVE  /\ t[h.at] = Absent
           /\ Builds(c, b, w, t, (Parents(h.at) \o <<Put("create", h.at, File(h.node.text))>>) \o Tail(q))
<1>1. Fit(c, b, w, h) /\ Fresh(t, h) /\ h \in Stmts
    BY HeadPrepared
<1>2. h.at \in Path /\ h.node \in Node /\ t[Root] = Dir
    BY <1>1, StmtType DEF Builds, Shaped
<1>3. /\ w[h.at] = h.node /\ h.at # Root /\ h.at = Target(c) /\ h.node.kind = "file"
      /\ ~MakesAll(c) /\ ~CopiesTree(c, b) /\ t[h.at] = Absent
    BY <1>1 DEF Fit, Fresh
<1>4. File(h.node.text) = h.node
    BY <1>2, <1>3, NodeFacts
<1>5. PICK st : st = Put("create", h.at, h.node)
    OBVIOUS
<1>6. st \in Stmts /\ st.do = "create" /\ st.at = h.at /\ st.node = h.node
    <2>1. "create" \in Verbs
        BY DEF Verbs
    <2>2. st \in Stmts /\ st = Stmt("create", h.at, h.at, h.node)
        BY <1>2, <1>5, <2>1, OnFacts
    <2>3. QED
        BY <1>2, <2>1, <2>2, StmtFacts
<1>7. Fit(c, b, w, st) /\ Fresh(t, st)
    BY <1>3, <1>6 DEF Fit, Fresh
<1>8. PICK x : x = Parents(h.at) \o <<st>>
    OBVIOUS
<1>9. /\ x \in Seq(Stmts) /\ Ready(c, b, w, t, x)
      /\ \A z \in Above(h.at) \cup {h.at} : z = Root \/ Reached(x, z)
    <2>1. PICK p \in Path : p = h.at
        BY <1>2
    <2>2. p # Root /\ p = Target(c) /\ st.at = p /\ x = Parents(p) \o <<st>>
        BY <1>3, <1>6, <1>8, <2>1
    <2>3. \A z \in Above(p) : w[z] = Dir /\ b[z] \in {Absent, Dir}
        BY <2>2
    <2>4. st \in Stmts /\ st.do \in {"create", "copyTo"}
        BY <1>6
    <2>5. /\ x \in Seq(Stmts) /\ Ready(c, b, w, t, x)
          /\ \A z \in Above(p) \cup {p} : z = Root \/ Reached(x, z)
        BY ONLY <1>2, <1>7, <2>2, <2>3, <2>4, ParentsReady
    <2>6. QED
        BY <2>1, <2>5
<1>10. \A p \in Path : Reach(h, p) => Reached(x, p)
    BY <1>3, <1>9 DEF Reach
<1>12. h.do \notin {"parent", "level"} /\ h.do \in {"rewrite", "copyTo"}
    OBVIOUS
<1>13. Builds(c, b, w, t, x \o Tail(q))
    BY <1>9, <1>10, <1>12, ReadyTurn
<1>14. QED
    BY <1>3, <1>4, <1>5, <1>8, <1>13

\* A directory to be copied: mkdir -p, and the list of its children.
LEMMA CopyDirReady ==
    ASSUME NEW t \in Tree, NEW b \in Tree, Shaped(b), NEW c \in Requests, Proper(c, b), ~Fails(c, b),
           NEW w \in Tree, w = Result(c, b),
           NEW q \in Seq(Stmts), q # <<>>, Builds(c, b, w, t, q), NEW h, h = Head(q), h.do = "copyDir"
    PROVE  Builds(c, b, w, t, (MkdirP(h.to) \o <<FromTo("list", h.at, h.to)>>) \o Tail(q))
<1>1. Fit(c, b, w, h) /\ h \in Stmts
    BY HeadPrepared
<1>2. h.at \in Path /\ h.to \in Path /\ t[Root] = Dir
    BY <1>1, StmtType DEF Builds, Shaped
<1>3. CopiesTree(c, b) /\ h.at \in Within(c.at) /\ h.to = Moved(h.at, c.at, c.to) /\ b[h.at] = Dir
    BY <1>1 DEF Fit
<1>4. c.op = "cp" /\ b[h.at] # Absent
    BY <1>3, NodeFacts DEF CopiesTree
<1>5. /\ h.to # Root /\ w[h.to] = Dir /\ (b[h.to] # Absent => b[h.to].kind = "dir")
      /\ \A z \in Above(h.to) : w[z] = Dir /\ b[z] \in {Absent, Dir}
    BY <1>3, <1>4, CopyFacts, NodeFacts
<1>6. b[h.to] \in {Absent, Dir}
    <2>1. b[h.to] \in Node
        BY <1>2 DEF Tree
    <2>2. QED
        BY <1>5, <2>1, NodeFacts
<1>7. PICK st : st = FromTo("list", h.at, h.to)
    OBVIOUS
<1>8. st \in Stmts /\ st.do = "list" /\ st.at = h.at /\ st.to = h.to
    <2>1. "list" \in Verbs /\ Absent \in Node
        BY NodeFacts DEF Verbs
    <2>2. st \in Stmts /\ st = Stmt("list", h.at, h.to, Absent)
        BY <1>2, <1>7, <2>1, OnFacts
    <2>3. QED
        BY <1>2, <2>1, <2>2, StmtFacts
<1>9. Fit(c, b, w, st)
    BY <1>3, <1>8 DEF Fit
<1>10. PICK y : y = <<st>>
    OBVIOUS
<1>11. y \in Seq(Stmts) /\ Len(y) = 1 /\ y[1] = st
    BY <1>8, <1>10
<1>12. 1 \in 1..Len(y) /\ \A i \in 1..Len(y) : y[i] = st
    BY ONLY <1>11
<1>13. PICK x : x = MkdirP(h.to) \o y
    OBVIOUS
<1>14. /\ x \in Seq(Stmts) /\ Ready(c, b, w, t, x)
       /\ \A z \in Above(h.to) \cup {h.to} : z = Root \/ Reached(x, z)
       /\ \A i \in 1..Len(y) : \A z : Reach(y[i], z) => Reached(x, z)
       /\ \A i \in 1..Len(x) : x[i].do \notin {"create", "copyTo"}
    <2>1. PICK p \in Path : p = h.to
        BY <1>2
    <2>2. Passable(b, w, p)
        BY <1>5, <1>6, <2>1 DEF Passable
    <2>3. Lists(c, b, w, p, y)
        BY <1>8, <1>9, <1>12, <2>1 DEF Lists
    <2>4. p # Root /\ x = MkdirP(p) \o y /\ (MakesAll(c) \/ CopiesTree(c, b))
        BY <1>3, <1>5, <1>13, <2>1
    <2>5. /\ x \in Seq(Stmts) /\ Ready(c, b, w, t, x)
          /\ \A z \in Above(p) \cup {p} : z = Root \/ Reached(x, z)
          /\ \A i \in 1..Len(y) : \A z : Reach(y[i], z) => Reached(x, z)
          /\ \A i \in 1..Len(x) : x[i].do \notin {"create", "copyTo"}
        BY ONLY <1>2, <1>11, <2>2, <2>3, <2>4, LevelsReady
    <2>6. QED
        BY <2>1, <2>5
<1>15. \A z : Reach(st, z) => Reached(x, z)
    BY <1>12, <1>14
<1>goal. ASSUME NEW p \in Path, Reach(h, p) PROVE Reached(x, p)
    <2>1. p \in Above(h.to) \cup Within(h.to) /\ p # Root
        BY <1>goal DEF Reach
    <2>2. CASE p \in Above(h.to) \cup {h.to}
        BY <1>14, <2>1, <2>2
    <2>3. CASE p \in Within(h.to) /\ p # h.to
        BY <1>8, <1>15, <2>3 DEF Reach
    <2>4. QED
        BY <2>1, <2>2, <2>3
<1>17. h.do \notin {"parent", "level"}
    OBVIOUS
<1>18. Builds(c, b, w, t, x \o Tail(q))
    BY <1>14, <1>goal, <1>17, ReadyTurn
<1>19. QED
    BY <1>7, <1>10, <1>13, <1>18

ChildCopied(c, at, to, k, r) ==
    /\ c \in Requests /\ c.op = "cp" /\ at \in Within(c.at) /\ to = Moved(at, c.at, c.to)
    /\ k \in Within(at) /\ Len(k) = Len(at) + 1 /\ r = Moved(k, at, to)

\* A child of a directory that is copied, and the place it is copied to.
LEMMA ChildImage ==
    ASSUME NEW c, NEW at, NEW to, NEW k, NEW r, ChildCopied(c, at, to, k, r)
    PROVE  /\ k \in Within(c.at) /\ r = Moved(k, c.at, c.to) /\ r \in Path /\ r \in Within(to)
           /\ \A z \in Above(r) : z \in Above(to) \/ z = to
<1>0. /\ c \in Requests /\ c.op = "cp" /\ at \in Within(c.at) /\ to = Moved(at, c.at, c.to)
      /\ k \in Within(at) /\ Len(k) = Len(at) + 1 /\ r = Moved(k, at, to)
    BY DEF ChildCopied
<1>1. /\ c.at \in Path /\ c.to \in Path /\ Len(c.to) <= Len(c.at) /\ at \in Path /\ to \in Path /\ k \in Path
      /\ Image(at, c.at, to, c.to)
    BY <1>0, RequestFacts, OriginImage, WithinFacts
<1>2. Len(c.at) \in Nat /\ Len(c.to) \in Nat /\ Len(at) \in Nat /\ Len(to) \in Nat /\ Len(k) \in Nat
    BY <1>1, PathType
<1>3. Len(to) - Len(c.to) = Len(at) - Len(c.at)
    BY <1>1 DEF Image
<1>4. Len(to) <= Len(at) /\ Len(at) <= Len(k)
    <2>1. Len(k) = Len(at) + 1 /\ Len(c.to) <= Len(c.at)
        BY <1>0, <1>1
    <2>2. QED
        BY ONLY <1>2, <1>3, <2>1
<1>5. r \in Within(to)
    BY <1>0, <1>1, <1>4, MovedPath
<1>6. r \in Path
    BY <1>1, <1>5, WithinFacts
<1>7. Image(k, at, r, to)
    BY <1>0, <1>1, <1>6, MovedImage
<1>8. Image(k, c.at, r, c.to)
    BY ONLY <1>0, <1>1, <1>7, ImageBelow
<1>9. k \in Within(c.at) /\ r = Moved(k, c.at, c.to)
    <2>1. k \in Within(c.at)
        BY <1>8 DEF Image
    <2>2. Moved(k, c.at, c.to) = r
        BY ONLY <1>1, <1>8, ImageMoved
    <2>3. QED
        BY <2>1, <2>2
<1>10. Len(r) \in Nat /\ Len(r) = Len(to) + 1
    <2>1. Len(r) \in Nat
        BY <1>6, PathType
    <2>2. Len(r) - Len(to) = Len(k) - Len(at)
        BY <1>7 DEF Image
    <2>3. QED
        BY ONLY <1>0, <1>2, <2>1, <2>2
<1>11. ASSUME NEW z \in Above(r), z \in Within(to) PROVE z = to
    <2>1. z \in Path /\ Len(z) < Len(r) /\ Len(to) <= Len(z) /\ IsPrefix(to, z) /\ Len(z) \in Nat
        BY <1>1, <1>6, <1>11, WithinFacts, PathType DEF Within
    <2>2. ~(Len(to) < Len(z))
        BY ONLY <1>2, <1>10, <2>1
    <2>3. QED
        BY <1>1, <2>1, <2>2, PrefixFacts
<1>12. \A z \in Above(r) : z \in Above(to) \/ z = to
    BY <1>1, <1>5, <1>11, SubtreeFacts
<1>13. QED
    BY <1>5, <1>6, <1>9, <1>12

\* The statement that copies a child.
ForChild(at, to, k) ==
    IF Is(row, k, "dir") THEN FromTo("copyDir", k, Moved(k, at, to))
    ELSE Put("createOrUpdate", Moved(k, at, to), row[k])

AllChildren(x, at, to) ==
    /\ \A i \in 1..Len(x) : \E k \in Children(row, at) : x[i] = ForChild(at, to, k)
    /\ \A k \in Children(row, at) : \E i \in 1..Len(x) : x[i] = ForChild(at, to, k)

LEMMA ListOf ==
    ASSUME row \in Tree, NEW h, NEW at \in Path, at = h.at, NEW to, to = h.to,
           NEW x, x = CopyChildren(h), \A k \in Children(row, at) : ForChild(at, to, k) \in Stmts
    PROVE  x \in Seq(Stmts) /\ AllChildren(x, at, to)
<1> DEFINE kids == SetToSeq(Children(row, at))
<1>1. /\ kids \in Seq(Children(row, at)) /\ Len(kids) \in Nat
      /\ \A i \in 1..Len(kids) : kids[i] \in Children(row, at)
      /\ \A k \in Children(row, at) : \E i \in 1..Len(kids) : kids[i] = k
    <2>1. IsFiniteSet(Children(row, at))
        BY ChildrenFacts
    <2>2. QED
        BY <2>1, SetToSeqFacts
<1>2. x = [i \in 1..Len(kids) |-> ForChild(at, to, kids[i])]
    BY DEF CopyChildren, ForChild
<1> HIDE DEF kids
<1>3. x \in [1..Len(kids) -> Stmts]
    BY <1>1, <1>2
<1>4. x \in Seq(Stmts) /\ Len(x) = Len(kids)
    <2>1. PICK n \in Nat : n = Len(kids)
        BY <1>1
    <2>2. x \in [1..n -> Stmts]
        BY <1>3, <2>1
    <2>3. x \in Seq(Stmts) /\ Len(x) = n
        BY ONLY <2>1, <2>2, SeqDef, LenProperties
    <2>4. QED
        BY <2>1, <2>3
<1>5. \A i \in 1..Len(kids) : x[i] = ForChild(at, to, kids[i])
    BY <1>2
<1>6. QED
    BY <1>1, <1>4, <1>5 DEF AllChildren

\* What is found below a directory that is copied, and where it goes.
LEMMA ChildFound ==
    ASSUME NEW c \in Requests, c.op \in {"mv", "cp"}, NEW at \in Within(c.at), NEW to, to = Moved(at, c.at, c.to),
           NEW p \in Within(to), p # to, NEW o, o = Origin(c, p), o \in Path,
           NEW t \in Tree, Shaped(t), t[o] # Absent
    PROVE  \E k \in Children(t, at) : /\ k = o \/ t[k] = Dir
                                      /\ k \in Within(c.at) /\ p \in Within(Moved(k, c.at, c.to))
                                      /\ k = o => p = Moved(k, c.at, c.to)
<1>1. /\ c.at \in Path /\ c.to \in Path /\ at \in Path /\ to \in Within(c.to) /\ to \in Path /\ Origin(c, to) = at
      /\ Image(at, c.at, to, c.to) /\ p \in Path
    BY RequestFacts, OriginImage, WithinFacts
<1>2. p \in Within(c.to) /\ IsPrefix(to, p)
    BY <1>1, SubtreeFacts DEF Within
<1>3. Image(o, c.at, p, c.to) /\ o \in Within(c.at) /\ Moved(o, c.at, c.to) = p
    BY <1>2, OriginImage
<1>4. at \in Above(o) /\ IsPrefix(at, o) /\ at # o
    BY <1>1, <1>2, OriginAbove DEF Above, IsStrictPrefix
<1>5. Len(at) \in Nat /\ Len(o) \in Nat /\ Len(at) < Len(o) /\ \A i \in 1..Len(at) : at[i] = o[i]
    BY <1>1, <1>4, PathType, PrefixFacts
<1>6. PICK n : n = Len(at) + 1
    OBVIOUS
<1>7. n \in 1..Len(o) /\ n - 1 = Len(at) /\ n \in 0..Len(o)
    BY <1>5, <1>6
<1>8. PICK k : k = SubSeq(o, 1, n)
    OBVIOUS
<1>9. /\ k \in Path /\ k # Root /\ Len(k) = n /\ Parent(k) = SubSeq(o, 1, n - 1)
      /\ k \in Above(o) \/ k = o
    BY <1>7, <1>8, LevelFacts
<1>10. Parent(k) = at
    <2>1. SubSeq(o, 1, Len(at)) = at
        BY <1>1, <1>4, AboveIsFront
    <2>2. QED
        BY <1>7, <1>9, <2>1
<1>11. t[k] # Absent /\ (k # o => t[k] = Dir)
    BY <1>9, AboveDirs, NodeFacts
<1>12. k \in Children(t, at)
    <2>1. ~Is(t, k, "none")
        BY <1>9, <1>11, NodeFacts DEF Is, Tree
    <2>2. QED
        BY <1>9, <1>10, <2>1 DEF Children
<1>13. k \in Within(at)
    BY <1>9, <1>10, ParentFacts
<1>14. k \in Within(c.at)
    BY <1>1, <1>13, SubtreeFacts
<1>15. PICK r : r = Moved(k, c.at, c.to)
    OBVIOUS
<1>goal. Image(k, c.at, r, c.to) /\ r \in Path
    BY <1>1, <1>14, <1>15, OriginImage, WithinFacts
<1>17. IsPrefix(k, o)
    BY <1>9, PrefixFacts, PathType DEF Above, IsStrictPrefix
<1>18. IsPrefix(r, p)
    BY ONLY <1>1, <1>3, <1>goal, <1>17, ImageOrder
<1>19. p \in Within(r)
    BY <1>1, <1>18 DEF Within
<1>20. QED
    BY <1>3, <1>11, <1>12, <1>14, <1>15, <1>19

LEMMA ListReady ==
    ASSUME row \in Tree, NEW b \in Tree, Shaped(b), NEW c \in Requests, Proper(c, b), ~Fails(c, b),
           NEW w \in Tree, w = Result(c, b),
           NEW q \in Seq(Stmts), q # <<>>, Builds(c, b, w, row, q), NEW h, h = Head(q), h.do = "list"
    PROVE  Builds(c, b, w, row, CopyChildren(h) \o Tail(q))
<1>1. Fit(c, b, w, h) /\ h \in Stmts /\ \A z \in Needs(h) : row[z] = Dir
    BY HeadPrepared
<1>2. PICK at : at = h.at
    OBVIOUS
<1>3. PICK to : to = h.to
    OBVIOUS
<1>4. /\ CopiesTree(c, b) /\ at \in Within(c.at) /\ to = Moved(at, c.at, c.to) /\ b[at] = Dir
      /\ \A z \in Above(to) \cup {to} : row[z] = Dir
    BY <1>1, <1>2, <1>3 DEF Fit, Needs
<1>5. c.op = "cp" /\ at \in Path /\ to \in Path /\ c.at \in Path /\ c.to \in Path /\ Target(c) = c.to
    BY <1>1, <1>2, <1>3, <1>4, StmtType, RequestFacts DEF CopiesTree, Target
<1>6. ASSUME NEW p \in Within(c.at) PROVE row[p] = b[p] /\ p \in Path
    <2>1. p \in Path /\ p \notin Above(c.to) /\ p \notin Within(c.to)
        BY <1>5, Apart
    <2>2. w[p] = b[p]
        BY <1>5, <2>1, Bounds
    <2>3. QED
        BY <2>1, <2>2, BetweenFacts
<1>7. ASSUME NEW k \in Children(row, at), NEW st, st = ForChild(at, to, k)
      PROVE  /\ st \in Stmts /\ Fit(c, b, w, st) /\ Fresh(row, st) /\ st.do \in {"copyDir", "createOrUpdate"}
             /\ \A z \in Needs(st) : row[z] = Dir
             /\ st.do = "copyDir" <=> row[k] = Dir
             /\ st.do = "copyDir" => st.to = Moved(k, c.at, c.to)
             /\ st.do = "createOrUpdate" => st.at = Moved(k, c.at, c.to)
    <2>1. k \in Path /\ k \in Within(at) /\ Len(k) = Len(at) + 1 /\ row[k].kind # "none"
        BY <1>5, ChildrenFacts
    <2>2. PICK r : r = Moved(k, at, to)
        OBVIOUS
    <2>3. /\ k \in Within(c.at) /\ r = Moved(k, c.at, c.to) /\ r \in Path /\ r \in Within(to)
          /\ \A z \in Above(r) : z \in Above(to) \/ z = to
        <3>1. ChildCopied(c, at, to, k, r)
            BY <1>4, <1>5, <2>1, <2>2 DEF ChildCopied
        <3>2. QED
            BY ONLY <3>1, ChildImage
    <2>4. row[k] = b[k] /\ row[k] \in Node /\ row[k] # Absent
        BY <1>6, <2>1, <2>3, NodeFacts DEF Tree
    <2>5. /\ r # Root /\ w[r] = b[k] /\ (b[r] # Absent => b[r].kind = b[k].kind)
        BY <1>5, <2>3, <2>4, CopyFacts
    <2>6. "copyDir" \in Verbs /\ "createOrUpdate" \in Verbs /\ Absent \in Node
        BY NodeFacts DEF Verbs
    <2>7. CASE row[k] = Dir
        <3>1. st = FromTo("copyDir", k, r)
            BY <1>7, <2>2, <2>7, NodeFacts DEF ForChild, Is
        <3>2. st = Stmt("copyDir", k, r, Absent) /\ st \in Stmts
            BY <2>1, <2>3, <2>6, <3>1, OnFacts
        <3>3. st.do = "copyDir" /\ st.at = k /\ st.to = r
            BY <2>1, <2>3, <2>6, <3>2, StmtFacts
        <3>4. Needs(st) = {}
            BY <3>3 DEF Needs
        <3>5. Fit(c, b, w, st) /\ Fresh(row, st)
            BY <1>4, <2>3, <2>4, <2>7, <3>3 DEF Fit, Fresh
        <3>6. QED
            BY <2>3, <2>7, <3>2, <3>3, <3>4, <3>5
    <2>8. CASE row[k] # Dir
        <3>0. row[k].kind = "file"
            BY <2>4, <2>8, NodeFacts
        <3>1. st = Put("createOrUpdate", r, row[k])
            BY <1>7, <2>2, <3>0 DEF ForChild, Is
        <3>2. st = Stmt("createOrUpdate", r, r, row[k]) /\ st \in Stmts
            BY <2>3, <2>4, <2>6, <3>1, OnFacts
        <3>3. st.do = "createOrUpdate" /\ st.at = r /\ st.node = row[k]
            BY <2>3, <2>4, <2>6, <3>2, StmtFacts
        <3>4. Needs(st) = Above(r)
            BY <3>3 DEF Needs
        <3>5. b[r] # Dir
            BY <2>4, <2>5, <3>0, NodeFacts
        <3>6. Fit(c, b, w, st) /\ Fresh(row, st)
            BY <1>4, <2>4, <2>5, <3>0, <3>3, <3>5 DEF Fit, Fresh
        <3>7. QED
            BY <1>4, <2>3, <2>8, <3>2, <3>3, <3>4, <3>6
    <2>9. QED
        BY <2>7, <2>8
<1>8. PICK x : x = CopyChildren(h)
    OBVIOUS
<1>9. /\ x \in Seq(Stmts)
      /\ \A i \in 1..Len(x) : \E k \in Children(row, at) : x[i] = ForChild(at, to, k)
      /\ \A k \in Children(row, at) : \E i \in 1..Len(x) : x[i] = ForChild(at, to, k)
    <2>1. \A k \in Children(row, at) : ForChild(at, to, k) \in Stmts
        BY <1>7
    <2>2. x \in Seq(Stmts) /\ AllChildren(x, at, to)
        BY <1>2, <1>3, <1>5, <1>8, <2>1, ListOf
    <2>3. QED
        BY <2>2 DEF AllChildren
<1>10. \A i \in 1..Len(x) :
        /\ Fit(c, b, w, x[i]) /\ Fresh(row, x[i]) /\ x[i].do \in {"copyDir", "createOrUpdate"}
        /\ \A z \in Needs(x[i]) : row[z] = Dir
    BY <1>7, <1>9
<1>11. Ready(c, b, w, row, x)
    BY <1>10 DEF Ready, Prepared
<1>12. ASSUME NEW p \in Path, Reach(h, p), row[p] # w[p] PROVE Reached(x, p)
    <2>1. p \in Within(to) /\ p # to
        BY <1>3, <1>12 DEF Reach
    <2>2. to \in Within(c.to)
        BY <1>4, <1>5, OriginImage
    <2>3. p \in Within(c.to)
        BY <1>5, <2>1, <2>2, SubtreeFacts
    <2>4. PICK o : o = Origin(c, p)
        OBVIOUS
    <2>5. w[p] # b[p]
        BY <1>12, BetweenFacts
    <2>6. o \in Path /\ b[o] # Absent
        BY <1>5, <2>3, <2>4, <2>5, ResultCp
    <2>7. o \in Within(c.at)
        BY <1>5, <2>3, <2>4, <2>6, OriginImage
    <2>8. row[o] # Absent /\ Shaped(row)
        BY <1>6, <2>6, <2>7 DEF Builds
    <2>9. PICK k \in Children(row, at) : /\ k = o \/ row[k] = Dir
                                         /\ k \in Within(c.at) /\ p \in Within(Moved(k, c.at, c.to))
                                         /\ k = o => p = Moved(k, c.at, c.to)
        BY <1>4, <1>5, <2>1, <2>4, <2>6, <2>8, ChildFound
    <2>10. PICK i \in 1..Len(x) : x[i] = ForChild(at, to, k)
        BY <1>9
    <2>11. /\ x[i].do \in {"copyDir", "createOrUpdate"}
           /\ x[i].do = "copyDir" <=> row[k] = Dir
           /\ x[i].do = "copyDir" => x[i].to = Moved(k, c.at, c.to)
           /\ x[i].do = "createOrUpdate" => x[i].at = Moved(k, c.at, c.to)
        BY <1>7, <2>10
    <2>12. p # Root
        BY <1>5, <2>1, WithinFacts, RootFacts, PathType
    <2>13. Reach(x[i], p)
        BY <2>9, <2>11, <2>12 DEF Reach
    <2>14. QED
        BY <2>13 DEF Reached
<1>13. \A i \in 1..Len(x) : x[i].do \notin {"create", "copyTo"}
    BY <1>10
<1>14. h.do \notin {"parent", "level"}
    OBVIOUS
<1>15. Builds(c, b, w, row, x \o Tail(q))
    BY <1>9, <1>11, <1>12, <1>13, <1>14, ReadyTurn
<1>goal. QED
    BY <1>8, <1>15

-----------------------------------------------------------------------------
(* The steps of the operations that make and replace *)

LEMMA SetBuilds ==
    ASSUME NEW t \in Tree, NEW c, NEW b, NEW w \in Tree, NEW q \in Seq(Stmts), q # <<>>,
           Builds(c, b, w, t, q), NEW h, h = Head(q),
           h.do \in {"parent", "level", "create", "createOrUpdate", "update"}, NEW u,
           \/ u = t /\ t[h.at] = w[h.at]
           \/ /\ u = [t EXCEPT ![h.at] = w[h.at]]
              /\ \/ t[h.at] = Absent /\ h.do # "update"
                 \/ Is(t, h.at, "file") /\ w[h.at].kind = "file"
    PROVE  u \in Tree /\ Builds(c, b, w, u, <<>> \o Tail(q))
<1>1. h \in Stmts /\ h.at \in Path
    BY HeadPrepared, StmtType
<1>2. u = [t EXCEPT ![h.at] = w[h.at]]
    <2>1. t = [t EXCEPT ![h.at] = t[h.at]]
        BY <1>1 DEF Tree
    <2>2. QED
        BY <2>1
<1>3. u \in Tree /\ Builds(c, b, w, u, Tail(q))
    BY <1>2, BuildsSet
<1>4. <<>> \o Tail(q) = Tail(q)
    <2>1. Tail(q) \in Seq(Stmts)
        BY TailFacts
    <2>2. QED
        BY <2>1, ConcatEmptySeq
<1>5. QED
    BY <1>3, <1>4

\* What a statement of s does to the rows, and what it puts in its place.
Advances(s, c, b, w, q) == \E x : Continues(s, x) /\ row' \in Tree /\ Builds(c, b, w, row', x \o Tail(q))

LEMMA SetAdvances ==
    ASSUME row \in Tree, NEW s \in Shell, NEW c, NEW b \in Tree, NEW w \in Tree, NEW q \in Seq(Stmts), q # <<>>,
           q = todo[s], Builds(c, b, w, row, q), NEW h, h = Head(q),
           h.do \in {"parent", "level", "create", "update"}, Statement(s)
    PROVE  Advances(s, c, b, w, q)
<1>1. Fit(c, b, w, h) /\ Fresh(row, h) /\ h \in Stmts
    BY HeadPrepared
<1>2. h.at \in Path /\ h.node \in Node
    BY <1>1, StmtType
<1>3. row[h.at] \in Node /\ (row[h.at] = b[h.at] \/ row[h.at] = w[h.at])
    <2>1. PICK p \in Path : p = h.at
        BY <1>2
    <2>2. row[p] \in Node /\ (row[p] = b[p] \/ row[p] = w[p])
        BY BetweenFacts
    <2>3. QED
        BY <2>1, <2>2
<1>4. Statement(s) => EnsureParent(s) \/ Level(s) \/ Create(s) \/ Update(s)
    BY DEF Statement, FirstSelect, Rewrite, CopyTo, CopyDir, List, CreateOrUpdate, DeleteBelow, DeleteRow,
           Rmdir, Sweep, DeleteDir, DeleteFile, Rename, RenameBelow, Do
<1>5. CASE h.do \in {"parent", "level"}
    <2>1. w[h.at] = Dir /\ b[h.at] \in {Absent, Dir}
        BY <1>1, <1>5 DEF Fit
    <2>2. EnsureParent(s) \/ Level(s)
        BY <1>4, <1>5 DEF Create, Update, Do
    <2>3. row[h.at] \in {Absent, Dir} /\ ~Is(row, h.at, "file") /\ (Is(row, h.at, "none") <=> row[h.at] = Absent)
        BY <1>3, <2>1, NodeFacts DEF Is
    <2>4. /\ Continues(s, <<>>)
          /\ IF row[h.at] = Absent THEN Set(h.at, Dir) ELSE row' = row
        BY <2>2, <2>3 DEF EnsureParent, Level
    <2>5. \/ row' = row /\ row[h.at] = w[h.at]
          \/ row' = [row EXCEPT ![h.at] = w[h.at]] /\ row[h.at] = Absent /\ h.do # "update"
        BY <1>5, <2>1, <2>3, <2>4 DEF Set
    <2>6. row' \in Tree /\ Builds(c, b, w, row', <<>> \o Tail(q))
        BY <2>5, SetBuilds
    <2>7. QED
        BY <2>4, <2>6 DEF Advances
<1>6. CASE h.do = "create"
    <2>1. w[h.at] = h.node /\ row[h.at] = Absent
        BY <1>1, <1>6 DEF Fit, Fresh
    <2>2. Create(s)
        BY <1>4, <1>6 DEF EnsureParent, Level, Update, Do
    <2>3. Is(row, h.at, "none")
        BY <2>1, NodeFacts DEF Is
    <2>4. Continues(s, <<>>) /\ row' = [row EXCEPT ![h.at] = w[h.at]]
        BY <2>1, <2>2, <2>3 DEF Create, Set
    <2>5. row' \in Tree /\ Builds(c, b, w, row', <<>> \o Tail(q))
        BY <1>6, <2>1, <2>4, SetBuilds
    <2>6. QED
        BY <2>4, <2>5 DEF Advances
<1>7. CASE h.do = "update"
    <2>1. w[h.at] = h.node /\ Is(row, h.at, "file") /\ h.node.kind = "file"
        BY <1>1, <1>7 DEF Fit, Fresh
    <2>2. Update(s)
        BY <1>4, <1>7 DEF EnsureParent, Level, Create, Do
    <2>4. Continues(s, <<>>) /\ row' = [row EXCEPT ![h.at] = w[h.at]]
        BY <2>1, <2>2 DEF Update, UpdateContent, Set
    <2>5. row' \in Tree /\ Builds(c, b, w, row', <<>> \o Tail(q))
        <3>1. /\ row' = [row EXCEPT ![h.at] = w[h.at]]
              /\ Is(row, h.at, "file") /\ w[h.at].kind = "file"
            BY <2>1, <2>4
        <3>2. h.do \in {"parent", "level", "create", "createOrUpdate", "update"}
            BY <1>7
        <3>3. \/ row' = row /\ row[h.at] = w[h.at]
              \/ /\ row' = [row EXCEPT ![h.at] = w[h.at]]
                 /\ \/ row[h.at] = Absent /\ h.do # "update"
                    \/ Is(row, h.at, "file") /\ w[h.at].kind = "file"
            BY <3>1
        <3>4. QED
            BY ONLY row \in Tree, w \in Tree, q \in Seq(Stmts), q # <<>>, Builds(c, b, w, row, q), h = Head(q),
                    <3>2, <3>3, SetBuilds
    <2>6. QED
        BY <2>4, <2>5 DEF Advances
<1>8. QED
    BY <1>5, <1>6, <1>7

LEMMA LookAdvances ==
    ASSUME row \in Tree, NEW s \in Shell, NEW b \in Tree, Shaped(b), NEW c \in Requests, Proper(c, b),
           ~Fails(c, b), c.op \in {"write", "append", "mkdir", "cp"}, NEW w \in Tree, w = Result(c, b),
           NEW q \in Seq(Stmts), q # <<>>, q = todo[s], Builds(c, b, w, row, q), NEW h, h = Head(q),
           h.do \in {"copyTo", "createOrUpdate", "rewrite", "copyDir", "list"}, Statement(s)
    PROVE  Advances(s, c, b, w, q)
<1>1. Fit(c, b, w, h) /\ Fresh(row, h) /\ h \in Stmts
    BY HeadPrepared
<1>2. h.at \in Path /\ h.node \in Node /\ row[h.at] \in Node
    BY <1>1, StmtType DEF Tree
<1>3. Is(row, h.at, "none") <=> row[h.at] = Absent
    BY <1>2, NodeFacts DEF Is
<1>4. Statement(s) => CopyTo(s) \/ CreateOrUpdate(s) \/ Rewrite(s) \/ CopyDir(s) \/ List(s)
    BY DEF Statement, FirstSelect, EnsureParent, Level, Create, Update, DeleteBelow, DeleteRow,
           Rmdir, Sweep, DeleteDir, DeleteFile, Rename, RenameBelow, Do
<1>5. CASE h.do = "copyTo"
    <2>1. CopyTo(s)
        BY <1>4, <1>5 DEF CreateOrUpdate, Rewrite, CopyDir, List, Do
    <2>2. CASE row[h.at] = Absent
        <3>1. Continues(s, <<Put("create", h.at, h.node)>>) /\ row' = row
            BY <1>3, <2>1, <2>2 DEF CopyTo
        <3>2. Builds(c, b, w, row, <<Put("create", h.at, h.node)>> \o Tail(q))
            BY <1>5, <2>2, CreateReady
        <3>3. QED
            BY <3>1, <3>2 DEF Advances
    <2>3. CASE row[h.at] # Absent
        <3>1. Continues(s, <<Put("update", h.at, h.node)>>) /\ row' = row
            BY <1>3, <2>1, <2>3 DEF CopyTo
        <3>2. Builds(c, b, w, row, <<Put("update", h.at, h.node)>> \o Tail(q))
            BY <1>5, <2>3, UpdateReady
        <3>3. QED
            BY <3>1, <3>2 DEF Advances
    <2>4. QED
        BY <2>2, <2>3
<1>6. CASE h.do = "createOrUpdate"
    <2>1. CreateOrUpdate(s)
        BY <1>4, <1>6 DEF CopyTo, Rewrite, CopyDir, List, Do
    <2>2. CASE row[h.at] = Absent
        <3>1. w[h.at] = h.node
            BY <1>1, <1>6 DEF Fit
        <3>2. Continues(s, <<>>) /\ row' = [row EXCEPT ![h.at] = w[h.at]]
            BY <1>3, <2>1, <2>2, <3>1 DEF CreateOrUpdate, Set
        <3>3. row' \in Tree /\ Builds(c, b, w, row', <<>> \o Tail(q))
            <4>1. row' = [row EXCEPT ![h.at] = w[h.at]] /\ row[h.at] = Absent /\ h.do # "update"
                BY <1>6, <2>2, <3>2
            <4>2. h.do \in {"parent", "level", "create", "createOrUpdate", "update"}
                BY <1>6
            <4>3. QED
                BY <4>1, <4>2, SetBuilds
        <3>4. QED
            BY <3>2, <3>3 DEF Advances
    <2>3. CASE row[h.at] # Absent
        <3>1. Continues(s, <<Put("update", h.at, h.node)>>) /\ row' = row
            BY <1>3, <2>1, <2>3 DEF CreateOrUpdate
        <3>2. Builds(c, b, w, row, <<Put("update", h.at, h.node)>> \o Tail(q))
            BY <1>6, <2>3, UpdateReady
        <3>3. QED
            BY <3>1, <3>2 DEF Advances
    <2>4. QED
        BY <2>2, <2>3
<1>7. CASE h.do = "rewrite"
    <2>1. Rewrite(s)
        BY <1>4, <1>7 DEF CopyTo, CreateOrUpdate, CopyDir, List, Do
    <2>2. PICK x : x = Parents(h.at) \o <<Put("create", h.at, File(h.node.text))>>
        OBVIOUS
    <2>3. row[h.at] = Absent /\ Builds(c, b, w, row, x \o Tail(q))
        <3>1. \A z \in Above(Target(c)) : w[z] = Dir /\ b[z] \in {Absent, Dir}
            BY Bounds
        <3>2. QED
            BY <1>7, <2>2, <3>1, RewriteReady
    <2>4. Is(row, h.at, "none") /\ ~Is(row, h.at, "dir")
        BY <1>3, <2>3, NodeFacts DEF Is
    <2>5. WriteSteps(h.at, h.node.text) = x
        BY <2>2, <2>4 DEF WriteSteps, WriteNew
    <2>6. Continues(s, x) /\ row' = row
        BY <2>1, <2>4, <2>5 DEF Rewrite
    <2>7. QED
        BY <2>3, <2>6 DEF Advances
<1>8. CASE h.do = "copyDir"
    <2>1. CopyDir(s)
        BY <1>4, <1>8 DEF CopyTo, CreateOrUpdate, Rewrite, List, Do
    <2>2. PICK x : x = MkdirP(h.to) \o <<FromTo("list", h.at, h.to)>>
        OBVIOUS
    <2>3. Builds(c, b, w, row, x \o Tail(q))
        BY <1>8, <2>2, CopyDirReady
    <2>4. Continues(s, x) /\ row' = row
        BY <2>1, <2>2 DEF CopyDir
    <2>5. QED
        BY <2>3, <2>4 DEF Advances
<1>9. CASE h.do = "list"
    <2>1. List(s)
        BY <1>4, <1>9 DEF CopyTo, CreateOrUpdate, Rewrite, CopyDir, Do
    <2>2. PICK x : x = CopyChildren(h)
        OBVIOUS
    <2>3. Builds(c, b, w, row, x \o Tail(q))
        BY <1>9, <2>2, ListReady
    <2>4. Continues(s, x) /\ row' = row
        BY <2>1, <2>2 DEF List
    <2>5. QED
        BY <2>3, <2>4 DEF Advances
<1>10. QED
    BY <1>5, <1>6, <1>7, <1>8, <1>9

LEMMA BuildsAdvances ==
    ASSUME row \in Tree, NEW s \in Shell, NEW b \in Tree, Shaped(b), NEW c \in Requests, Proper(c, b),
           ~Fails(c, b), c.op \in {"write", "append", "mkdir", "cp"}, NEW w \in Tree, w = Result(c, b),
           NEW q \in Seq(Stmts), q # <<>>, q = todo[s], Builds(c, b, w, row, q), Statement(s)
    PROVE  Advances(s, c, b, w, q)
<1>1. PICK h : h = Head(q)
    OBVIOUS
<1>2. Fit(c, b, w, h)
    BY <1>1, HeadPrepared
<1>3. \/ h.do \in {"parent", "level", "create", "update"}
      \/ h.do \in {"copyTo", "createOrUpdate", "rewrite", "copyDir", "list"}
    BY <1>2 DEF Fit
<1>4. CASE h.do \in {"parent", "level", "create", "update"}
    BY <1>1, <1>4, SetAdvances
<1>5. CASE h.do \in {"copyTo", "createOrUpdate", "rewrite", "copyDir", "list"}
    BY <1>1, <1>5, LookAdvances
<1>6. QED
    BY <1>3, <1>4, <1>5

-----------------------------------------------------------------------------
(* How the operations that make and replace begin *)

LEMMA ParentsStart ==
    ASSUME NEW b \in Tree, Shaped(b), NEW c \in Requests, NEW w,
           \A z \in Above(Target(c)) : w[z] = Dir /\ b[z] \in {Absent, Dir},
           \A z \in Path : z \notin Above(Target(c)) /\ z # Target(c) => w[z] = b[z],
           w[Root] = Dir, NEW st \in Stmts, st.at = Target(c), st.do \in {"create", "copyTo"},
           Fit(c, b, w, st), Fresh(b, st), NEW x, x = Parents(Target(c)) \o <<st>>
    PROVE  x \in Seq(Stmts) /\ Builds(c, b, w, b, x)
<1>1. PICK p \in Path : p = Target(c) /\ p # Root
    BY RequestFacts
<1>2. b[Root] = Dir /\ st.at = p /\ x = Parents(p) \o <<st>> /\ p = Target(c) /\ p # Root
    BY <1>1 DEF Shaped
<1>3. \A z \in Above(p) : w[z] = Dir /\ b[z] \in {Absent, Dir}
    BY <1>1
<1>4. st \in Stmts /\ st.do \in {"create", "copyTo"} /\ Fit(c, b, w, st) /\ Fresh(b, st)
    OBVIOUS
<1>5. /\ x \in Seq(Stmts) /\ Ready(c, b, w, b, x)
      /\ \A z \in Above(p) \cup {p} : z = Root \/ Reached(x, z)
    BY ONLY p \in Path, <1>2, <1>3, <1>4, ParentsReady
<1>6. \A z \in Path : b[z] = w[z] \/ Reached(x, z)
    BY <1>1, <1>2, <1>5
<1>7. QED
    BY <1>5, <1>6, ReadyStart

LEMMA OneStart ==
    ASSUME NEW b \in Tree, Shaped(b), NEW c \in Requests, NEW w, NEW st \in Stmts,
           Fit(c, b, w, st), Fresh(b, st), \A z \in Needs(st) : b[z] = Dir,
           \A z \in Path : w[z] = b[z] \/ Reach(st, z)
    PROVE  <<st>> \in Seq(Stmts) /\ Builds(c, b, w, b, <<st>>)
<1>1. PICK x : x = <<st>>
    OBVIOUS
<1>2. x \in Seq(Stmts) /\ Len(x) = 1 /\ x[1] = st
    BY <1>1
<1>3. 1 \in 1..Len(x) /\ \A i \in 1..Len(x) : i = 1 /\ i = Len(x) /\ x[i] = st
    BY ONLY <1>2
<1>4. Prepared(b, x) /\ Alone(x)
    BY <1>2, <1>3 DEF Prepared, Alone
<1>5. \A z \in Path : b[z] = w[z] \/ \E i \in 1..Len(x) : Reach(x[i], z)
    BY <1>3
<1>6. \A i \in 1..Len(x) : Fit(c, b, w, x[i]) /\ Fresh(b, x[i])
    BY <1>3
<1>7. Builds(c, b, w, b, x)
    BY <1>4, <1>5, <1>6 DEF Builds
<1>8. QED
    BY <1>1, <1>2, <1>7

\* The statements that put a node at a place.
LEMMA PutFacts ==
    ASSUME NEW do \in {"create", "createOrUpdate", "update", "copyTo", "rewrite"}, NEW p \in Path, NEW node \in Node,
           NEW st, st = Put(do, p, node)
    PROVE  st \in Stmts /\ st.do = do /\ st.at = p /\ st.node = node
<1>1. do \in Verbs
    BY DEF Verbs
<1>2. st \in Stmts /\ st = Stmt(do, p, p, node)
    BY <1>1, OnFacts
<1>3. QED
    BY <1>1, <1>2, StmtFacts

\* New content for a file that is there.
LEMMA UpdateStart ==
    ASSUME NEW b \in Tree, Shaped(b), NEW c \in Requests, NEW w \in Tree,
           \A z \in Above(c.at) : w[z] = Dir,
           \A z \in Path : z \notin Above(c.at) /\ z # c.at => w[z] = b[z],
           Is(b, c.at, "file"), w[c.at].kind = "file", NEW x, x = <<Put("update", c.at, w[c.at])>>
    PROVE  x \in Seq(Stmts) /\ Builds(c, b, w, b, x)
<1>1. c.at \in Path /\ c.at # Root /\ w[c.at] \in Node
    BY RequestFacts DEF Tree
<1>2. PICK st : st = Put("update", c.at, w[c.at])
    OBVIOUS
<1>3. st \in Stmts /\ st.do = "update" /\ st.at = c.at /\ st.node = w[c.at]
    BY <1>1, <1>2, PutFacts
<1>4. Fit(c, b, w, st) /\ Fresh(b, st) /\ Needs(st) = {}
    BY <1>1, <1>3 DEF Fit, Fresh, Needs
<1>5. b[c.at] # Absent
    BY NodeFacts DEF Is
<1>6. \A z \in Above(c.at) : b[z] = Dir
    BY <1>1, <1>5, AboveDirs
<1>7. \A z \in Path : w[z] = b[z] \/ Reach(st, z)
    BY <1>3, <1>6 DEF Reach
<1>8. QED
    BY <1>2, <1>3, <1>4, <1>7, OneStart

LEMMA WriteStart ==
    ASSUME row \in Tree, Shaped(row), NEW c \in Requests, Proper(c, row), ~Fails(c, row),
           c.op \in {"write", "append"}, NEW w, w = Result(c, row), NEW x, x = Steps(c)
    PROVE  x \in Seq(Stmts) /\ Builds(c, row, w, row, x)
<1>1. /\ c.at \in Path /\ c.at # Root /\ Target(c) = c.at /\ c.chunk \in Chunk /\ row[c.at] \in Node
      /\ row[c.at].kind # "dir"
    BY RequestFacts DEF Target, Tree, Fails, Is
<1>2. /\ w \in Tree /\ w[Root] = Dir
      /\ \A z \in Above(Target(c)) : w[z] = Dir /\ row[z] \in {Absent, Dir}
      /\ \A z \in Path : z \notin Above(Target(c)) /\ z # Target(c) => w[z] = row[z]
    BY <1>1, Bounds
<1>3. ~MakesAll(c) /\ ~CopiesTree(c, row)
    BY DEF MakesAll, CopiesTree
<1>4. w[c.at] = Content(c, row) /\ w[c.at] \in Node
    BY ResultPut
<1>5. Is(row, c.at, "none") <=> row[c.at] = Absent
    BY <1>1, NodeFacts DEF Is
<1>6. CASE c.op = "write" /\ row[c.at] = Absent
    <2>1. w[c.at] = File({c.chunk}) /\ w[c.at].kind = "file"
        BY <1>4, <1>6, NodeFacts DEF Content
    <2>2. x = Parents(c.at) \o <<Put("create", c.at, w[c.at])>>
        BY <1>5, <1>6, <2>1 DEF Steps, WriteSteps, WriteNew
    <2>3. PICK st : st = Put("create", c.at, w[c.at])
        OBVIOUS
    <2>4. st \in Stmts /\ st.do = "create" /\ st.at = c.at /\ st.node = w[c.at]
        BY <1>1, <1>4, <2>3, PutFacts
    <2>5. Fit(c, row, w, st) /\ Fresh(row, st)
        BY <1>1, <1>3, <1>6, <2>4 DEF Fit, Fresh
    <2>6. x = Parents(Target(c)) \o <<st>> /\ st.at = Target(c) /\ st.do \in {"create", "copyTo"}
        BY <1>1, <2>2, <2>3, <2>4
    <2>7. QED
        BY <1>2, <2>4, <2>5, <2>6, ParentsStart
<1>7. CASE row[c.at] # Absent
    <2>1. row[c.at].kind = "file" /\ row[c.at].text \in Text
        BY <1>1, <1>7, NodeFacts
    <2>2. w[c.at].kind = "file" /\ x = <<Put("update", c.at, w[c.at])>>
        <3>1. CASE c.op = "write"
            BY <1>4, <1>5, <1>7, <3>1, NodeFacts DEF Content, Steps, WriteSteps, WriteNew
        <3>2. CASE c.op = "append"
            BY <1>4, <1>5, <1>7, <3>2, NodeFacts DEF Content, Steps, AppendSteps
        <3>3. QED
            BY <3>1, <3>2
    <2>3. /\ \A z \in Above(c.at) : w[z] = Dir
          /\ \A z \in Path : z \notin Above(c.at) /\ z # c.at => w[z] = row[z]
          /\ Is(row, c.at, "file")
        BY <1>1, <1>2, <2>1 DEF Is
    <2>4. QED
        BY <1>2, <2>2, <2>3, UpdateStart
<1>8. CASE c.op = "append" /\ row[c.at] = Absent
    <2>1. w[c.at] = File({c.chunk})
        <3>1. row[c.at].text = {}
            BY <1>8 DEF Absent
        <3>2. row[c.at].text \cup {c.chunk} = {c.chunk}
            BY <3>1
        <3>3. QED
            BY <1>4, <1>8, <3>2 DEF Content
    <2>2. x = <<Put("rewrite", c.at, w[c.at])>>
        BY <1>5, <1>8, <2>1 DEF Steps, AppendSteps
    <2>3. PICK st : st = Put("rewrite", c.at, w[c.at])
        OBVIOUS
    <2>4. st \in Stmts /\ st.do = "rewrite" /\ st.at = c.at /\ st.node = w[c.at] /\ w[c.at].kind = "file"
        BY <1>1, <1>4, <2>1, <2>3, PutFacts, NodeFacts
    <2>5. Fit(c, row, w, st) /\ Fresh(row, st) /\ Needs(st) = {}
        BY <1>1, <1>3, <1>8, <2>4 DEF Fit, Fresh, Needs
    <2>6. \A z \in Path : w[z] = row[z] \/ Reach(st, z)
        <3>1. row[Root] = Dir
            BY DEF Shaped
        <3>2. QED
            BY <1>1, <1>2, <2>4, <3>1 DEF Reach
    <2>7. QED
        BY <2>2, <2>3, <2>4, <2>5, <2>6, OneStart
<1>9. QED
    BY <1>6, <1>7, <1>8

LEMMA MkdirStart ==
    ASSUME row \in Tree, Shaped(row), NEW c \in Requests, Proper(c, row), ~Fails(c, row),
           c.op = "mkdir", NEW w, w = Result(c, row), NEW x, x = Steps(c)
    PROVE  x \in Seq(Stmts) /\ Builds(c, row, w, row, x)
<1>1. /\ c.at \in Path /\ c.at # Root /\ Target(c) = c.at /\ row[c.at] \in Node /\ row[Root] = Dir
      /\ Parent(c.at) \in Path /\ Parent(c.at) \in Above(c.at)
    BY RequestFacts, ParentFacts DEF Target, Tree, Shaped
<1>2. /\ w \in Tree /\ w[Root] = Dir
      /\ \A z \in Above(c.at) : w[z] = Dir /\ row[z] \in {Absent, Dir}
      /\ \A z \in Path : z \notin Above(c.at) /\ z # c.at => w[z] = row[z]
    BY <1>1, Bounds
<1>3. w[c.at] = Dir
    BY ResultPut DEF Content
<1>4. CASE c.recursive
    <2>1. x = MkdirP(c.at) /\ ~Is(row, c.at, "file")
        <3>1. x = MkdirP(c.at)
            BY <1>4 DEF Steps
        <3>2. ~Is(row, c.at, "file")
            <4>1. ~(c.op \in {"write", "append"}) /\ c.op = "mkdir" /\ c.recursive
                BY <1>4
            <4>2. Fails(c, row) = Is(row, c.at, "file")
                BY <4>1 DEF Fails
            <4>3. QED
                BY <4>2
        <3>3. QED
            BY <3>1, <3>2
    <2>2. row[c.at] \in {Absent, Dir}
        BY <1>1, <2>1, NodeFacts DEF Is
    <2>3. PICK y : y = <<>>
        OBVIOUS
    <2>4. y \in Seq(Stmts) /\ Len(y) = 0
        BY <2>3, EmptySeq
    <2>5. \A i \in 1..Len(y) : FALSE
        BY ONLY <2>4
    <2>6. PICK p \in Path : p = c.at
        BY <1>1
    <2>7. Passable(row, w, p)
        BY <1>2, <1>3, <2>2, <2>6 DEF Passable
    <2>8. Lists(c, row, w, p, y)
        BY <2>5 DEF Lists
    <2>9. x = MkdirP(p) \o y
        <3>1. MkdirP(p) \in Seq(Stmts)
            <4>1. PICK n \in Nat : n = Len(p)
                BY PathType
            <4>2. "level" \in Verbs
                BY DEF Verbs
            <4>3. ASSUME NEW i \in 1..n PROVE On("level", SubSeq(p, 1, i)) \in Stmts
                BY <4>1, <4>2, LevelFacts, OnFacts, NodeFacts
            <4>4. MkdirP(p) = [i \in 1..n |-> On("level", SubSeq(p, 1, i))]
                BY <4>1 DEF MkdirP, AllPrefixes
            <4>5. MkdirP(p) \in [1..n -> Stmts]
                BY <4>3, <4>4
            <4>6. QED
                BY <4>5, SeqDef
        <3>2. QED
            BY <2>1, <2>3, <2>6, <3>1, ConcatEmptySeq
    <2>10. p # Root /\ (MakesAll(c) \/ CopiesTree(c, row))
        BY <1>1, <1>4, <2>6 DEF MakesAll
    <2>11. /\ x \in Seq(Stmts) /\ Ready(c, row, w, row, x)
           /\ \A z \in Above(p) \cup {p} : z = Root \/ Reached(x, z)
        BY <1>1, <2>4, <2>7, <2>8, <2>9, <2>10, LevelsReady
    <2>12. \A z \in Path : row[z] = w[z] \/ Reached(x, z)
        BY <1>1, <1>2, <2>6, <2>11
    <2>13. QED
        BY <2>11, <2>12, ReadyStart
<1>5. CASE ~c.recursive
    <2>1. row[Parent(c.at)] = Dir /\ row[c.at] = Absent
        <3>1. Is(row, Parent(c.at), "dir") /\ Is(row, c.at, "none")
            BY <1>5 DEF Fails
        <3>2. row[Parent(c.at)] \in Node
            BY <1>1 DEF Tree
        <3>3. QED
            BY <1>1, <3>1, <3>2, NodeFacts DEF Is
    <2>2. ASSUME NEW z \in Above(c.at) PROVE row[z] = Dir
        <3>1. c.at \in Within(Parent(c.at)) /\ Len(Parent(c.at)) = Len(c.at) - 1
            BY <1>1, ParentFacts
        <3>2. z \in Above(Parent(c.at)) \/ z \in Within(Parent(c.at))
            BY <1>1, <3>1, SubtreeFacts
        <3>3. CASE z \in Above(Parent(c.at))
            BY <1>1, <2>1, <3>3, AboveDirs, NodeFacts
        <3>4. CASE z \in Within(Parent(c.at))
            <4>1. /\ Len(z) < Len(c.at) /\ Len(Parent(c.at)) <= Len(z) /\ Len(z) \in Nat /\ Len(c.at) \in Nat
                  /\ IsPrefix(Parent(c.at), z) /\ z \in Path
                BY <1>1, <3>4, WithinFacts, PathType DEF Within
            <4>2. PICK m : m = Len(Parent(c.at))
                OBVIOUS
            <4>3. ~(m < Len(z))
                BY <3>1, <4>1, <4>2
            <4>4. z = Parent(c.at)
                BY <1>1, <4>1, <4>2, <4>3, PrefixFacts
            <4>5. QED
                BY <2>1, <4>4
        <3>5. QED
            BY <3>2, <3>3, <3>4
    <2>3. x = <<Put("create", c.at, Dir)>>
        BY <1>5 DEF Steps
    <2>4. PICK st : st = Put("create", c.at, Dir)
        OBVIOUS
    <2>5. st \in Stmts /\ st.do = "create" /\ st.at = c.at /\ st.node = Dir
        BY <1>1, <2>4, NodeFacts, PutFacts
    <2>6. ~MakesAll(c) /\ ~CopiesTree(c, row)
        BY <1>5 DEF MakesAll, CopiesTree
    <2>7. Fit(c, row, w, st) /\ Fresh(row, st) /\ Needs(st) = Above(c.at)
        BY <1>1, <1>3, <2>1, <2>5, <2>6 DEF Fit, Fresh, Needs
    <2>8. \A z \in Path : w[z] = row[z] \/ Reach(st, z)
        BY <1>2, <2>2, <2>5 DEF Reach
    <2>9. QED
        BY <2>2, <2>3, <2>4, <2>5, <2>7, <2>8, OneStart
<1>6. QED
    BY <1>4, <1>5

LEMMA CpStart ==
    ASSUME row \in Tree, Shaped(row), NEW c \in Requests, Proper(c, row), ~Fails(c, row),
           c.op = "cp", NEW w, w = Result(c, row), NEW x, x = Steps(c)
    PROVE  x \in Seq(Stmts) /\ Builds(c, row, w, row, x)
<1>1. /\ c.at \in Path /\ c.to \in Path /\ c.to # Root /\ Target(c) = c.to /\ row[c.at] \in Node /\ row[Root] = Dir
      /\ c.at \in Within(c.at) /\ Len(c.to) <= Len(c.at)
    BY RequestFacts, WithinFacts DEF Target, Tree, Shaped
<1>2. /\ w \in Tree /\ w[Root] = Dir
      /\ \A z \in Above(c.to) : w[z] = Dir /\ row[z] \in {Absent, Dir}
      /\ \A z \in Path : z \notin Above(c.to) /\ z \notin Within(c.to) => w[z] = row[z]
    BY <1>1, Bounds
<1>3. row[c.at] # Absent
    BY <1>1, NodeFacts DEF Fails, Is
<1>4. c.to = Moved(c.at, c.at, c.to)
    BY <1>1, MovedSelf
<1>5. w[c.to] = row[c.at] /\ (row[c.to] # Absent => row[c.to].kind = row[c.at].kind)
    BY <1>1, <1>3, <1>4, CopyFacts
<1>6. CASE row[c.at] = Dir
    <2>1. x = <<FromTo("copyDir", c.at, c.to)>>
        BY <1>6, NodeFacts DEF Steps, CpSteps, Is
    <2>2. PICK st : st = FromTo("copyDir", c.at, c.to)
        OBVIOUS
    <2>3. st \in Stmts /\ st.do = "copyDir" /\ st.at = c.at /\ st.to = c.to
        <3>1. "copyDir" \in Verbs /\ Absent \in Node
            BY NodeFacts DEF Verbs
        <3>2. st \in Stmts /\ st = Stmt("copyDir", c.at, c.to, Absent)
            BY <1>1, <2>2, <3>1, OnFacts
        <3>3. QED
            BY <1>1, <3>1, <3>2, StmtFacts
    <2>4. CopiesTree(c, row)
        BY <1>6 DEF CopiesTree
    <2>5. Fit(c, row, w, st) /\ Fresh(row, st) /\ Needs(st) = {}
        BY <1>1, <1>4, <1>6, <2>3, <2>4 DEF Fit, Fresh, Needs
    <2>6. \A z \in Path : w[z] = row[z] \/ Reach(st, z)
        BY <1>1, <1>2, <2>3 DEF Reach
    <2>7. QED
        BY <2>1, <2>2, <2>3, <2>5, <2>6, OneStart
<1>7. CASE row[c.at] # Dir
    <2>1. row[c.at].kind = "file"
        BY <1>1, <1>3, <1>7, NodeFacts
    <2>2. x = Parents(c.to) \o <<Put("copyTo", c.to, row[c.at])>>
        BY <2>1 DEF Steps, CpSteps, Is
    <2>3. PICK st : st = Put("copyTo", c.to, row[c.at])
        OBVIOUS
    <2>4. st \in Stmts /\ st.do = "copyTo" /\ st.at = c.to /\ st.node = row[c.at]
        BY <1>1, <2>3, PutFacts
    <2>5. ~MakesAll(c) /\ ~CopiesTree(c, row)
        BY <1>7 DEF MakesAll, CopiesTree
    <2>6. row[c.to] # Dir
        BY <1>5, <2>1, NodeFacts
    <2>7. Fit(c, row, w, st) /\ Fresh(row, st)
        BY <1>1, <1>5, <2>1, <2>4, <2>5, <2>6 DEF Fit, Fresh
    <2>8. ASSUME NEW z \in Path, z \notin Above(c.to), z # c.to PROVE w[z] = row[z]
        <3>1. CASE z \notin Within(c.to)
            BY <1>2, <2>8, <3>1
        <3>2. CASE z \in Within(c.to) /\ Origin(c, z) \in Path
            <4>1. PICK o \in Path : o = Origin(c, z)
                BY <3>2
            <4>2. o \in Within(c.at) /\ Moved(o, c.at, c.to) = z
                BY <3>2, <4>1, OriginImage
            <4>3. o # c.at
                BY <1>4, <2>8, <4>2
            <4>4. row[o] = Absent
                BY <1>1, <1>7, <4>2, <4>3, NothingBelow
            <4>5. QED
                BY <3>2, <4>1, <4>4, ResultCp
        <3>3. CASE z \in Within(c.to) /\ Origin(c, z) \notin Path
            BY <3>3, ResultCp
        <3>4. QED
            BY <3>1, <3>2, <3>3
    <2>9. QED
        BY <1>1, <1>2, <2>2, <2>3, <2>4, <2>7, <2>8, ParentsStart
<1>8. QED
    BY <1>6, <1>7

-----------------------------------------------------------------------------
(* The operation that removes *)

\* The tree while rm -r has the directory itself still to delete.
Emptied(c, b) == [p \in Path |-> IF p \in Within(c.at) /\ p # c.at THEN Absent ELSE b[p]]

\* An rm on its way: the rows are t and the statements q are to come.
Removes(c, b, w, t, q) ==
    /\ c.op = "rm"
    /\ \/ t = b /\ b[c.at].kind = "file" /\ q = <<On("deleteFile", c.at)>>
       \/ /\ t = b /\ b[c.at] = Dir /\ ~c.recursive /\ Children(b, c.at) = {}
          /\ q \in {<<On("rmdir", c.at)>>, <<On("deleteDir", c.at)>>}
       \/ t = b /\ c.recursive /\ q = <<On("deleteBelow", c.at), On("deleteRow", c.at), On("sweep", c.at)>>
       \/ t = Emptied(c, b) /\ c.recursive /\ q = <<On("deleteRow", c.at), On("sweep", c.at)>>
       \/ t = w /\ c.recursive /\ q \in {<<On("sweep", c.at)>>, <<On("deleteDir", c.at)>>}
       \/ t = w /\ q = <<>>

LEMMA EmptiedFacts ==
    ASSUME NEW b \in Tree, Shaped(b), NEW c \in Requests, ~Fails(c, b), c.op = "rm",
           NEW w, w = Result(c, b)
    PROVE  /\ w \in Tree /\ Emptied(c, b) \in Tree
           /\ Shaped(w) /\ Shaped(Emptied(c, b)) /\ w[c.at] = Absent
           /\ \A u \in Tree : (u[c.at] = Absent /\ (\A p \in Path : p \notin Within(c.at) => u[p] = b[p])
                               /\ \A p \in Within(c.at) : p # c.at => u[p] = Absent) => u = w
<1>1. c.at \in Path /\ c.at # Root /\ c.at \in Within(c.at) /\ b[c.at] \in Node /\ \A p \in Within(c.at) : p \in Path
    BY RequestFacts, WithinFacts DEF Tree
<1>2. /\ w \in Tree /\ \A p \in Within(c.at) : w[p] = Absent
      /\ \A p \in Path : p \notin Within(c.at) => w[p] = b[p]
    BY ResultRm
<1>3. PICK e : e = Emptied(c, b)
    OBVIOUS
<1>4. e \in Tree /\ \A p \in Path : e[p] = IF p \in Within(c.at) /\ p # c.at THEN Absent ELSE b[p]
    BY <1>3, NodeFacts DEF Emptied, Tree
<1>5. Shaped(w)
    <2>1. \A q \in Within(c.at) : q # c.at => w[q] = Absent
        BY <1>2
    <2>2. w[c.at] = Absent
        BY <1>1, <1>2
    <2>3. QED
        BY <1>1, <1>2, <2>1, <2>2, CutShaped
<1>6. Shaped(e)
    <2>1. /\ \A q \in Path : q \notin Within(c.at) => e[q] = b[q]
          /\ \A q \in Within(c.at) : q # c.at => e[q] = Absent
          /\ e[c.at] = b[c.at]
        BY <1>1, <1>4
    <2>2. QED
        BY <1>1, <1>4, <2>1, CutShaped
<1>7. ASSUME NEW u \in Tree, u[c.at] = Absent, \A p \in Path : p \notin Within(c.at) => u[p] = b[p],
             \A p \in Within(c.at) : p # c.at => u[p] = Absent
      PROVE  u = w
    <2>1. \A p \in Path : u[p] = w[p]
        BY <1>2, <1>7
    <2>2. QED
        BY <1>2, <2>1 DEF Tree
<1>8. QED
    BY <1>1, <1>2, <1>3, <1>4, <1>5, <1>6, <1>7

LEMMA RmStart ==
    ASSUME row \in Tree, Shaped(row), NEW c \in Requests, ~Fails(c, row), c.op = "rm", NEW w
    PROVE  Removes(c, row, w, row, Steps(c))
<1>1. c.at \in Path /\ row[c.at] \in Node /\ c.recursive \in BOOLEAN
    BY RequestFacts DEF Tree
<1>2. Fails(c, row) <=> Is(row, c.at, "none") \/ (~c.recursive /\ Children(row, c.at) # {})
    BY DEF Fails
<1>3. Steps(c) = RmSteps(c)
    BY DEF Steps
<1>4. CASE Is(row, c.at, "file")
    BY <1>3, <1>4 DEF RmSteps, Removes, Is
<1>5. CASE ~Is(row, c.at, "file") /\ c.recursive
    <2>1. Steps(c) = <<On("deleteBelow", c.at), On("deleteRow", c.at), On("sweep", c.at)>>
        <3>1. ASSUME NEW S, NEW x \in S, NEW y \in S, NEW z \in S PROVE <<x, y>> \o <<z>> = <<x, y, z>>
            <4>1. <<x, y>> \in Seq(S) /\ <<z>> \in Seq(S) /\ Len(<<x, y>>) = 2 /\ Len(<<z>>) = 1
                BY <3>1
            <4>2. PICK f : f = <<x, y>>
                OBVIOUS
            <4>3. PICK g : g = <<z>>
                OBVIOUS
            <4>4. f \in Seq(S) /\ g \in Seq(S) /\ Len(f) = 2 /\ Len(g) = 1 /\ f[1] = x /\ f[2] = y /\ g[1] = z
                BY <4>1, <4>2, <4>3
            <4>5. f \o g \in Seq(S) /\ Len(f \o g) = 3 /\ (f \o g)[1] = x /\ (f \o g)[2] = y /\ (f \o g)[3] = z
                <5>1. /\ f \o g \in Seq(S) /\ Len(f \o g) = Len(f) + Len(g)
                      /\ \A i \in 1..Len(f) + Len(g) : (f \o g)[i] = IF i <= Len(f) THEN f[i] ELSE g[i - Len(f)]
                    BY <4>4, ConcatProperties
                <5>2. QED
                    BY ONLY <4>4, <5>1
            <4>6. PICK h : h = f \o g
                OBVIOUS
            <4>7. PICK k : k = <<x, y, z>>
                OBVIOUS
            <4>8. k \in Seq(S) /\ Len(k) = 3 /\ k[1] = x /\ k[2] = y /\ k[3] = z
                BY ONLY <3>1, <4>7
            <4>9. Len(h) = Len(k) /\ \A i \in 1..Len(h) : h[i] = k[i]
                BY ONLY <4>5, <4>6, <4>8
            <4>10. h = k
                BY <4>5, <4>6, <4>8, <4>9, SeqEqual
            <4>11. QED
                BY <4>2, <4>3, <4>6, <4>7, <4>10
        <3>2. Steps(c) = <<On("deleteBelow", c.at), On("deleteRow", c.at)>> \o <<On("sweep", c.at)>>
            BY <1>3, <1>5 DEF RmSteps, DeleteTree
        <3>3. On("deleteBelow", c.at) \in Stmts /\ On("deleteRow", c.at) \in Stmts /\ On("sweep", c.at) \in Stmts
            BY <1>1, NodeFacts, OnFacts DEF Verbs
        <3>4. QED
            BY <3>1, <3>2, <3>3
    <2>2. QED
        BY <1>5, <2>1 DEF Removes
<1>6. CASE ~Is(row, c.at, "file") /\ ~c.recursive
    <2>1. row[c.at] = Dir /\ Children(row, c.at) = {}
        BY <1>1, <1>2, <1>6, NodeFacts DEF Is
    <2>2. Steps(c) = <<On("rmdir", c.at)>>
        BY <1>3, <1>6 DEF RmSteps
    <2>3. QED
        BY <1>6, <2>1, <2>2 DEF Removes
<1>7. QED
    BY <1>4, <1>5, <1>6

LEMMA ContinuesFacts ==
    ASSUME TypeInv, NEW s \in Shell, NEW x \in Seq(Stmts), Continues(s, x), NEW q \in Seq(Stmts), q = Tail(todo[s])
    PROVE  /\ todo'[s] = x \o q /\ failed' = failed
           /\ x = <<>> => todo'[s] = q
           /\ q = <<>> => todo'[s] = x
<1>1. Goes(s, x \o q)
    BY DEF Continues
<1>2. todo'[s] = x \o q /\ failed' = failed
    BY <1>1, GoesFacts DEF Goes
<1>3. <<>> \o q = q /\ x \o <<>> = x
    BY ConcatEmptySeq
<1>4. QED
    BY <1>2, <1>3

LEMMA GoesOn ==
    ASSUME TypeInv, NEW s \in Shell, todo[s] # <<>>, Continues(s, <<>>)
    PROVE  todo'[s] = Tail(todo[s]) /\ failed' = failed
<1>1. PICK q : q = Tail(todo[s])
    OBVIOUS
<1>2. q \in Seq(Stmts)
    BY <1>1, TailFacts DEF TypeInv
<1>3. <<>> \in Seq(Stmts)
    BY EmptyPlan
<1>4. QED
    BY <1>1, <1>2, <1>3, ContinuesFacts

LEMMA HeadsAndTails ==
    ASSUME NEW S, NEW x \in S, NEW y \in S, NEW z \in S
    PROVE  /\ Head(<<x>>) = x /\ Tail(<<x>>) = <<>> /\ <<x>> # <<>>
           /\ Head(<<x, y>>) = x /\ Tail(<<x, y>>) = <<y>> /\ <<x, y>> # <<>>
           /\ Head(<<x, y, z>>) = x /\ Tail(<<x, y, z>>) = <<y, z>> /\ <<x, y, z>> # <<>>
<1>1. Head(<<x>>) = x /\ Tail(<<x>>) = <<>> /\ <<x>> # <<>>
    OBVIOUS
<1>2. Head(<<x, y>>) = x /\ Tail(<<x, y>>) = <<y>> /\ <<x, y>> # <<>>
    OBVIOUS
<1>3. Head(<<x, y, z>>) = x /\ Tail(<<x, y, z>>) = <<y, z>> /\ <<x, y, z>> # <<>>
    OBVIOUS
<1>4. QED
    BY <1>1, <1>2, <1>3

LEMMA RmStatement ==
    ASSUME NEW s \in Shell, Statement(s),
           Head(todo[s]).do \in {"deleteFile", "rmdir", "deleteDir", "deleteBelow", "deleteRow", "sweep"}
    PROVE  \/ Head(todo[s]).do = "deleteFile" /\ DeleteFile(s)
           \/ Head(todo[s]).do = "rmdir" /\ Rmdir(s)
           \/ Head(todo[s]).do = "deleteDir" /\ DeleteDir(s)
           \/ Head(todo[s]).do = "deleteBelow" /\ DeleteBelow(s)
           \/ Head(todo[s]).do = "deleteRow" /\ DeleteRow(s)
           \/ Head(todo[s]).do = "sweep" /\ Sweep(s)
<1>1. DeleteFile(s) \/ Rmdir(s) \/ DeleteDir(s) \/ DeleteBelow(s) \/ DeleteRow(s) \/ Sweep(s)
    BY DEF Statement, FirstSelect, EnsureParent, Level, Rewrite, Create, Update, CopyTo, CopyDir, List,
           CreateOrUpdate, Rename, RenameBelow, Do
<1>2. QED
    BY <1>1 DEF DeleteFile, Rmdir, DeleteDir, DeleteBelow, DeleteRow, Sweep, Do

\* What the only statement of the shell does, and what follows it.
LEMMA LastStatement ==
    ASSUME TypeInv, NEW s \in Shell, NEW do \in Verbs, NEW p \in Path, todo[s] = <<On(do, p)>>
    PROVE  /\ Head(todo[s]).do = do /\ Head(todo[s]).at = p
           /\ Continues(s, <<>>) => todo'[s] = <<>> /\ failed' = failed
           /\ \A d \in Verbs : Continues(s, <<On(d, p)>>) => todo'[s] = <<On(d, p)>> /\ failed' = failed
<1>1. On(do, p) \in Stmts /\ On(do, p).do = do /\ On(do, p).at = p
    BY OnFacts, StmtFacts, NodeFacts
<1>2. Head(todo[s]) = On(do, p) /\ Tail(todo[s]) = <<>>
    BY <1>1, HeadsAndTails
<1>3. <<>> \in Seq(Stmts)
    BY EmptyPlan
<1>4. \A d \in Verbs : <<On(d, p)>> \in Seq(Stmts)
    BY OnFacts, NodeFacts
<1>5. QED
    BY <1>1, <1>2, <1>3, <1>4, ContinuesFacts

LEMMA RemovesOne ==
    ASSUME TypeInv, NEW s \in Shell, NEW c \in Requests, c = call[s], c.op = "rm", NEW b \in Tree, Shaped(b),
           ~Fails(c, b), NEW w, w = Result(c, b), Statement(s),
           \/ row = b /\ b[c.at].kind = "file" /\ todo[s] = <<On("deleteFile", c.at)>>
           \/ /\ row = b /\ b[c.at] = Dir /\ ~c.recursive /\ Children(b, c.at) = {}
              /\ todo[s] \in {<<On("rmdir", c.at)>>, <<On("deleteDir", c.at)>>}
           \/ row = w /\ c.recursive /\ todo[s] \in {<<On("sweep", c.at)>>, <<On("deleteDir", c.at)>>}
    PROVE  Removes(c, b, w, row', todo'[s]) /\ failed' = failed
<1>1. /\ c.at \in Path /\ c.at \in Within(c.at) /\ row[c.at] \in Node
      /\ {"deleteFile", "rmdir", "deleteDir", "sweep"} \subseteq Verbs
    BY RequestFacts, WithinFacts DEF TypeInv, Tree, Verbs
<1>2. PICK at \in Path : at = c.at
    BY <1>1
<1>3. ASSUME row = b, Set(at, Absent), \A p \in Within(at) : p # at => b[p] = Absent
      PROVE  row' = w
    <2>1. row' = [row EXCEPT ![at] = Absent]
        BY <1>3 DEF Set
    <2>2. row' \in Tree /\ row'[at] = Absent /\ \A p \in Path : p # at => row'[p] = b[p]
        BY <1>2, <1>3, <2>1, NodeFacts DEF Tree
    <2>3. \A p \in Within(at) : p \in Path
        BY <1>2, WithinFacts
    <2>4. \A p \in Path : p \notin Within(c.at) => row'[p] = b[p]
        BY <1>1, <1>2, <2>2
    <2>5. \A p \in Within(c.at) : p # c.at => row'[p] = Absent
        BY <1>2, <1>3, <2>2, <2>3
    <2>6. QED
        BY <1>2, <2>2, <2>4, <2>5, EmptiedFacts
<1>4. CASE row = b /\ b[c.at].kind = "file" /\ todo[s] = <<On("deleteFile", c.at)>>
    <2>1. Head(todo[s]).do = "deleteFile" /\ Head(todo[s]).at = at
        BY <1>1, <1>2, <1>4, LastStatement
    <2>2. DeleteFile(s)
        BY <2>1, RmStatement
    <2>3. Is(row, at, "file")
        BY <1>2, <1>4 DEF Is
    <2>4. Set(at, Absent) /\ Continues(s, <<>>)
        BY <2>1, <2>2, <2>3 DEF DeleteFile
    <2>5. b[c.at] # Dir
        BY <1>4, NodeFacts
    <2>6. row' = w
        BY <1>2, <1>3, <1>4, <2>4, <2>5, NothingBelow
    <2>7. todo'[s] = <<>> /\ failed' = failed
        BY <1>1, <1>4, <2>4, LastStatement
    <2>8. QED
        BY <2>6, <2>7 DEF Removes
<1>5. CASE /\ row = b /\ b[c.at] = Dir /\ ~c.recursive /\ Children(b, c.at) = {}
           /\ todo[s] = <<On("rmdir", c.at)>>
    <2>1. Head(todo[s]).do = "rmdir" /\ Head(todo[s]).at = at
        BY <1>1, <1>2, <1>5, LastStatement
    <2>2. Rmdir(s)
        BY <2>1, RmStatement
    <2>3. Continues(s, <<On("deleteDir", at)>>) /\ row' = row
        BY <1>2, <1>5, <2>1, <2>2 DEF Rmdir
    <2>4. todo'[s] = <<On("deleteDir", c.at)>> /\ failed' = failed
        BY <1>1, <1>2, <1>5, <2>3, LastStatement
    <2>5. QED
        BY <1>5, <2>3, <2>4 DEF Removes
<1>6. CASE /\ row = b /\ b[c.at] = Dir /\ ~c.recursive /\ Children(b, c.at) = {}
           /\ todo[s] = <<On("deleteDir", c.at)>>
    <2>1. Head(todo[s]).do = "deleteDir" /\ Head(todo[s]).at = at
        BY <1>1, <1>2, <1>6, LastStatement
    <2>2. DeleteDir(s)
        BY <2>1, RmStatement
    <2>3. Is(row, at, "dir")
        BY <1>2, <1>6, NodeFacts DEF Is
    <2>4. Set(at, Absent) /\ Continues(s, <<>>)
        BY <2>1, <2>2, <2>3 DEF DeleteDir
    <2>5. row' = w
        BY <1>2, <1>3, <1>6, <2>4, NoChildren
    <2>6. todo'[s] = <<>> /\ failed' = failed
        BY <1>1, <1>6, <2>4, LastStatement
    <2>7. QED
        BY <2>5, <2>6 DEF Removes
<1>7. CASE row = w /\ c.recursive /\ todo[s] = <<On("sweep", c.at)>>
    <2>1. Head(todo[s]).do = "sweep" /\ Head(todo[s]).at = at
        BY <1>1, <1>2, <1>7, LastStatement
    <2>2. Sweep(s)
        BY <2>1, RmStatement
    <2>3. (Continues(s, <<>>) \/ Continues(s, <<On("deleteDir", at)>>)) /\ row' = row
        BY <2>1, <2>2 DEF Sweep
    <2>4. (todo'[s] = <<>> \/ todo'[s] = <<On("deleteDir", c.at)>>) /\ failed' = failed
        BY <1>1, <1>2, <1>7, <2>3, LastStatement
    <2>5. QED
        BY <1>7, <2>3, <2>4 DEF Removes
<1>8. CASE row = w /\ c.recursive /\ todo[s] = <<On("deleteDir", c.at)>>
    <2>1. Head(todo[s]).do = "deleteDir" /\ Head(todo[s]).at = at
        BY <1>1, <1>2, <1>8, LastStatement
    <2>2. DeleteDir(s)
        BY <2>1, RmStatement
    <2>3. row[c.at] = Absent
        BY <1>8, EmptiedFacts
    <2>4. ~Is(row, at, "dir")
        BY <1>2, <2>3, NodeFacts DEF Is
    <2>5. Continues(s, <<>>) /\ row' = row
        BY <1>8, <2>1, <2>2, <2>4 DEF DeleteDir
    <2>6. todo'[s] = <<>> /\ failed' = failed
        BY <1>1, <1>8, <2>5, LastStatement
    <2>7. QED
        BY <1>8, <2>5, <2>6 DEF Removes
<1>9. QED
    BY <1>4, <1>5, <1>6, <1>7, <1>8

LEMMA RemovesTree ==
    ASSUME TypeInv, NEW s \in Shell, NEW c \in Requests, c = call[s], c.op = "rm", NEW b \in Tree, Shaped(b),
           ~Fails(c, b), Plain, NEW w, w = Result(c, b), Statement(s), c.recursive,
           \/ row = b /\ todo[s] = <<On("deleteBelow", c.at), On("deleteRow", c.at), On("sweep", c.at)>>
           \/ row = Emptied(c, b) /\ todo[s] = <<On("deleteRow", c.at), On("sweep", c.at)>>
    PROVE  Removes(c, b, w, row', todo'[s]) /\ failed' = failed
<1>1. /\ c.at \in Path /\ c.at # Root /\ c.at \in Within(c.at)
      /\ {"deleteBelow", "deleteRow", "sweep"} \subseteq Verbs
    BY RequestFacts, WithinFacts DEF TypeInv, Verbs
<1>2. PICK at \in Path : at = c.at
    BY <1>1
<1>3. PICK x : x = On("deleteBelow", at)
    OBVIOUS
<1>4. PICK y : y = On("deleteRow", at)
    OBVIOUS
<1>5. PICK z : z = On("sweep", at)
    OBVIOUS
<1>6. /\ x \in Stmts /\ x.do = "deleteBelow" /\ x.at = at
      /\ y \in Stmts /\ y.do = "deleteRow" /\ y.at = at
      /\ z \in Stmts
    BY <1>1, <1>3, <1>4, <1>5, OnFacts, StmtFacts, NodeFacts
<1>8. CASE row = b /\ todo[s] = <<x, y, z>>
    <2>1. Head(todo[s]) = x /\ Tail(todo[s]) = <<y, z>>
        BY <1>6, <1>8, HeadsAndTails
    <2>2. DeleteBelow(s)
        BY <1>6, <2>1, RmStatement
    <2>3. /\ row' = [q \in Path |-> IF LikeBelow(at, q) THEN Absent ELSE row[q]]
          /\ Continues(s, <<>>)
        BY <1>6, <2>1, <2>2 DEF DeleteBelow
    <2>4. todo'[s] = <<y, z>> /\ failed' = failed
        <3>1. todo[s] # <<>> /\ Continues(s, <<>>)
            BY <2>3, StatementFrame
        <3>2. todo'[s] = Tail(todo[s]) /\ failed' = failed
            BY <3>1, GoesOn
        <3>3. QED
            BY <2>1, <3>2
    <2>5. \A q \in Path : LikeBelow(at, q) <=> q \in Within(at) /\ q # at
        BY <1>1, <1>2, PlainBelow
    <2>6. row' = Emptied(c, b)
        BY <1>2, <1>8, <2>3, <2>5 DEF Emptied
    <2>7. QED
        BY <1>2, <1>4, <1>5, <2>4, <2>6 DEF Removes
<1>9. CASE row = Emptied(c, b) /\ todo[s] = <<y, z>>
    <2>1. Head(todo[s]) = y /\ Tail(todo[s]) = <<z>>
        BY <1>6, <1>9, HeadsAndTails
    <2>2. DeleteRow(s)
        BY <1>6, <2>1, RmStatement
    <2>3. row' = [row EXCEPT ![at] = Absent] /\ Continues(s, <<>>)
        BY <1>6, <2>1, <2>2 DEF DeleteRow, Set
    <2>4. todo'[s] = <<z>> /\ failed' = failed
        <3>1. todo[s] # <<>> /\ Continues(s, <<>>)
            BY <2>3, StatementFrame
        <3>2. todo'[s] = Tail(todo[s]) /\ failed' = failed
            BY <3>1, GoesOn
        <3>3. QED
            BY <2>1, <3>2
    <2>5. /\ row \in [Path -> Node]
          /\ \A q \in Path : row[q] = IF q \in Within(at) /\ q # at THEN Absent ELSE b[q]
        BY <1>2, <1>9 DEF Emptied, TypeInv, Tree
    <2>6. row' \in Tree /\ row'[at] = Absent /\ \A q \in Path : q # at => row'[q] = row[q]
        BY <2>3, <2>5, NodeFacts DEF Tree
    <2>7. \A q \in Path : q \notin Within(c.at) => row'[q] = b[q]
        BY <1>1, <1>2, <2>5, <2>6
    <2>8. \A q \in Within(c.at) : q # c.at => row'[q] = Absent
        BY <1>2, <2>5, <2>6, WithinFacts
    <2>9. row' = w
        BY <1>2, <2>6, <2>7, <2>8, EmptiedFacts
    <2>10. QED
        BY <1>2, <1>5, <2>4, <2>9 DEF Removes
<1>10. QED
    BY <1>2, <1>3, <1>4, <1>5, <1>8, <1>9

LEMMA RemovesAdvances ==
    ASSUME TypeInv, NEW s \in Shell, NEW c \in Requests, c = call[s], NEW b \in Tree, Shaped(b),
           ~Fails(c, b), Plain, NEW w, w = Result(c, b), Removes(c, b, w, row, todo[s]), Statement(s)
    PROVE  Removes(c, b, w, row', todo'[s]) /\ failed' = failed
<1>1. c.op = "rm" /\ todo[s] # <<>>
    BY StatementFrame DEF Removes
<1>2. CASE \/ row = b /\ b[c.at].kind = "file" /\ todo[s] = <<On("deleteFile", c.at)>>
           \/ /\ row = b /\ b[c.at] = Dir /\ ~c.recursive /\ Children(b, c.at) = {}
              /\ todo[s] \in {<<On("rmdir", c.at)>>, <<On("deleteDir", c.at)>>}
           \/ row = w /\ c.recursive /\ todo[s] \in {<<On("sweep", c.at)>>, <<On("deleteDir", c.at)>>}
    BY <1>1, <1>2, RemovesOne
<1>3. CASE /\ c.recursive
           /\ \/ row = b /\ todo[s] = <<On("deleteBelow", c.at), On("deleteRow", c.at), On("sweep", c.at)>>
              \/ row = Emptied(c, b) /\ todo[s] = <<On("deleteRow", c.at), On("sweep", c.at)>>
    BY <1>1, <1>3, RemovesTree
<1>4. QED
    BY <1>1, <1>2, <1>3 DEF Removes

LEMMA RemovesShaped ==
    ASSUME NEW b \in Tree, Shaped(b), NEW c \in Requests, ~Fails(c, b), NEW w, w = Result(c, b),
           NEW t, NEW q, Removes(c, b, w, t, q)
    PROVE  Shaped(t) /\ (q = <<>> => t = w)
<1>1. c.op = "rm"
    BY DEF Removes
<1>2. t = b \/ t = w \/ t = Emptied(c, b)
    BY DEF Removes
<1>3. Shaped(t)
    BY <1>1, <1>2, EmptiedFacts
<1>4. \A x : \A y : \A z : <<x>> # <<>> /\ <<x, y>> # <<>> /\ <<x, y, z>> # <<>>
    OBVIOUS
<1>5. q = <<>> => t = w
    BY <1>4 DEF Removes
<1>6. QED
    BY <1>3, <1>5

-----------------------------------------------------------------------------
(* The operations that fail after their first SELECT *)

\* The statements of a call that fails, up to the one that finds out: until
\* then the rows are the b the call began with.
Failing(c, b, q) ==
    \/ /\ c.op = "mkdir" /\ Is(b, c.at, "file")
       /\ \A i \in 1..Len(q) : q[i].do = "level" /\ q[i].at \in Above(c.at) \cup {c.at}
       /\ \E i \in 1..Len(q) : q[i].at = c.at
    \/ c.op = "mkdir" /\ b[c.at] # Absent /\ q = <<Put("create", c.at, Dir)>>
    \/ c.op = "rm" /\ Children(b, c.at) # {} /\ q = <<On("rmdir", c.at)>>

LEMMA FailsBoolean ==
    ASSUME NEW b \in Tree, NEW c \in Requests
    PROVE  Fails(c, b) \in BOOLEAN
<1>1. c.op \in Operation /\ c.recursive \in BOOLEAN
    BY RequestFacts
<1>2. CASE c.op \in {"write", "append"}
    BY <1>2 DEF Fails, Is
<1>3. CASE c.op = "mkdir" /\ c.recursive
    BY <1>3 DEF Fails, Is
<1>4. CASE c.op = "mkdir" /\ ~c.recursive
    BY <1>4 DEF Fails
<1>5. CASE c.op = "rm"
    BY <1>5 DEF Fails
<1>6. CASE c.op = "mv"
    BY <1>6 DEF Fails, Is
<1>7. CASE c.op = "cp"
    BY <1>7 DEF Fails
<1>8. QED
    BY <1>1, <1>2, <1>3, <1>4, <1>5, <1>6, <1>7 DEF Operation

LEMMA RefusedFails ==
    ASSUME row \in Tree, Shaped(row), NEW c \in Requests
    PROVE  /\ Refused(c) => Fails(c, row)
           /\ Fails(c, row) \in BOOLEAN
           /\ ~Refused(c) /\ Fails(c, row) => Failing(c, row, Steps(c))
<1>1. /\ c.op \in Operation /\ c.at \in Path /\ c.at # Root /\ row[c.at] \in Node
      /\ c.recursive \in BOOLEAN
    BY RequestFacts DEF Tree
<1>2. CASE c.op \in {"write", "append"}
    <2>1. Fails(c, row) = Is(row, c.at, "dir")
        BY <1>2 DEF Fails
    <2>2. Is(row, c.at, "dir") \in BOOLEAN
        BY DEF Is
    <2>3. QED
        BY <1>2, <2>1, <2>2 DEF Refused
<1>3. CASE c.op = "mkdir" /\ c.recursive
    <2>1. Fails(c, row) = Is(row, c.at, "file")
        BY <1>3 DEF Fails
    <2>2. Is(row, c.at, "file") \in BOOLEAN /\ ~Refused(c)
        BY <1>3 DEF Is, Refused
    <2>3. PICK n \in Nat : n = Len(c.at)
        BY <1>1, PathType
    <2>4. n >= 1
        BY <1>1, <2>3, PathType
    <2>5. Steps(c) = [i \in 1..n |-> On("level", SubSeq(c.at, 1, i))]
        BY <1>3, <2>3 DEF Steps, MkdirP, AllPrefixes
    <2>6. PICK x : x = Steps(c)
        OBVIOUS
    <2>7. Len(x) = n
        BY <2>5, <2>6
    <2>8. ASSUME NEW i \in 1..Len(x)
          PROVE  x[i].do = "level" /\ x[i].at = SubSeq(c.at, 1, i) /\ SubSeq(c.at, 1, i) \in Above(c.at) \cup {c.at}
        <3>1. "level" \in Verbs
            BY DEF Verbs
        <3>2. i \in 1..n /\ x[i] = On("level", SubSeq(c.at, 1, i))
            BY <2>5, <2>6, <2>7
        <3>3. SubSeq(c.at, 1, i) \in Path /\ SubSeq(c.at, 1, i) \in Above(c.at) \cup {c.at}
            BY <1>1, <2>3, <3>2, LevelFacts
        <3>4. PICK p \in Path : p = SubSeq(c.at, 1, i)
            BY <3>3
        <3>5. On("level", p) = Stmt("level", p, p, Absent)
            BY <3>1, OnFacts, NodeFacts
        <3>6. On("level", p).do = "level" /\ On("level", p).at = p
            BY <3>1, <3>5, StmtFacts, NodeFacts
        <3>7. QED
            BY <3>2, <3>3, <3>4, <3>6
    <2>9. x[n].at = c.at /\ n \in 1..Len(x)
        <3>1. n \in 1..n /\ n \in 1..Len(c.at)
            BY <2>3, <2>4
        <3>2. SubSeq(c.at, 1, n) = c.at
            BY ONLY <1>1, <2>3, <3>1, LevelFacts
        <3>3. n \in 1..Len(x)
            BY <2>7, <3>1
        <3>4. x[n].at = SubSeq(c.at, 1, n)
            BY <2>8, <3>3
        <3>5. QED
            BY <3>2, <3>3, <3>4
    <2>10. Is(row, c.at, "file") => Failing(c, row, x)
        BY <1>3, <2>8, <2>9 DEF Failing
    <2>11. QED
        BY <2>1, <2>2, <2>6, <2>10
<1>4. CASE c.op = "mkdir" /\ ~c.recursive
    <2>1. Fails(c, row) = (~Is(row, Parent(c.at), "dir") \/ ~Is(row, c.at, "none"))
        BY <1>4 DEF Fails
    <2>2. Refused(c) <=> ~Is(row, Parent(c.at), "dir")
        BY <1>4 DEF Refused
    <2>3. ~Is(row, c.at, "none") => row[c.at] # Absent
        BY <1>1, NodeFacts DEF Is
    <2>4. Steps(c) = <<Put("create", c.at, Dir)>>
        BY <1>4 DEF Steps
    <2>5. QED
        BY <1>4, <2>1, <2>2, <2>3, <2>4 DEF Failing
<1>5. CASE c.op = "rm"
    <2>1. Fails(c, row) = (Is(row, c.at, "none") \/ (~c.recursive /\ Children(row, c.at) # {}))
        BY <1>5 DEF Fails
    <2>2. Refused(c) <=> Is(row, c.at, "none")
        BY <1>5 DEF Refused
    <2>3. ASSUME ~c.recursive, Children(row, c.at) # {}
          PROVE  Steps(c) = <<On("rmdir", c.at)>>
        <3>1. PICK q \in Children(row, c.at) : TRUE
            BY <2>3
        <3>2. q \in Within(c.at) /\ Len(q) = Len(c.at) + 1 /\ row[q].kind # "none" /\ Len(c.at) \in Nat
            BY <1>1, <3>1, ChildrenFacts, PathType
        <3>3. q # c.at
            BY <3>2
        <3>4. row[c.at] = Dir
            BY <1>1, <3>2, <3>3, NothingBelow, NodeFacts
        <3>5. ~Is(row, c.at, "file")
            BY <3>4, NodeFacts DEF Is
        <3>6. QED
            BY <1>5, <2>3, <3>5 DEF Steps, RmSteps
    <2>4. QED
        BY <1>5, <2>1, <2>2, <2>3 DEF Failing
<1>6. CASE c.op = "mv"
    <2>1. Fails(c, row) = Is(row, c.at, "none")
        BY <1>6 DEF Fails
    <2>2. Is(row, c.at, "none") \in BOOLEAN
        BY DEF Is
    <2>3. QED
        BY <1>6, <2>1, <2>2 DEF Refused
<1>7. CASE c.op = "cp"
    <2>1. Fails(c, row) = (Is(row, c.at, "none") \/ (Is(row, c.at, "dir") /\ ~c.recursive))
        BY <1>7 DEF Fails
    <2>2. QED
        BY <1>7, <2>1 DEF Refused
<1>8. QED
    BY <1>1, <1>2, <1>3, <1>4, <1>5, <1>6, <1>7 DEF Operation

LEMMA FailingAdvances ==
    ASSUME TypeInv, Shaped(row), NEW s \in Shell, NEW c \in Requests, c = call[s],
           Failing(c, row, todo[s]), Statement(s)
    PROVE  /\ row' = row
           /\ \/ Throws(s)
              \/ Failing(c, row, todo'[s]) /\ failed' = failed
<1>1. c.at \in Path /\ row \in Tree /\ row[c.at] \in Node /\ Dir \in Node /\ Absent \in Node
    BY RequestFacts, NodeFacts DEF TypeInv, Tree
<1>2. PICK at \in Path : at = c.at
    BY <1>1
<1>3. CASE /\ c.op = "mkdir" /\ Is(row, at, "file")
           /\ \A i \in 1..Len(todo[s]) : todo[s][i].do = "level" /\ todo[s][i].at \in Above(at) \cup {at}
           /\ \E i \in 1..Len(todo[s]) : todo[s][i].at = at
    <2>1. PICK q \in Seq(Stmts) : q = todo[s]
        BY DEF TypeInv
    <2>2. PICK h : h = Head(q)
        OBVIOUS
    <2>3. q # <<>>
        BY <2>1, StatementFrame
    <2>4. /\ h = q[1] /\ 1 \in 1..Len(q) /\ Len(q) \in Nat
          /\ Tail(q) \in Seq(Stmts) /\ Len(Tail(q)) = Len(q) - 1
          /\ \A i \in 1..Len(Tail(q)) : i + 1 \in 1..Len(q) /\ Tail(q)[i] = q[i + 1]
          /\ \A i \in 1..Len(q) : i # 1 => i - 1 \in 1..Len(Tail(q)) /\ q[i] = Tail(q)[i - 1]
        BY <2>2, <2>3, TailFacts
    <2>5. h.do = "level" /\ h.at \in Above(at) \cup {at}
        BY <1>3, <2>1, <2>4
    <2>6. Level(s)
        BY <2>1, <2>2, <2>5 DEF Statement, FirstSelect, EnsureParent, Rewrite, Create, Update, CopyTo, CopyDir, List,
              CreateOrUpdate, DeleteBelow, DeleteRow, Rmdir, Sweep, DeleteDir, DeleteFile, Rename, RenameBelow, Do
    <2>7. CASE h.at = at
        <3>1. Throws(s)
            BY <1>3, <2>1, <2>2, <2>6, <2>7 DEF Level
        <3>2. QED
            BY <3>1 DEF Throws
    <2>8. CASE h.at # at
        <3>1. row[at] # Absent
            BY <1>2, <1>3, NodeFacts DEF Is
        <3>2. PICK p \in Above(at) : p = h.at
            BY <2>5, <2>8
        <3>3. row[p] = Dir
            BY <1>1, <3>1, AboveDirs
        <3>4. ~Is(row, h.at, "file") /\ ~Is(row, h.at, "none")
            BY <3>2, <3>3, NodeFacts DEF Is
        <3>5. Continues(s, <<>>) /\ row' = row
            BY <2>1, <2>2, <2>6, <3>4 DEF Level
        <3>6. todo'[s] = Tail(q) /\ failed' = failed
            BY <2>1, <2>3, <3>5, GoesOn
        <3>7. \A i \in 1..Len(Tail(q)) : Tail(q)[i].do = "level" /\ Tail(q)[i].at \in Above(at) \cup {at}
            BY <1>3, <2>1, <2>4
        <3>8. \E i \in 1..Len(Tail(q)) : Tail(q)[i].at = at
            <4>1. PICK i \in 1..Len(q) : q[i].at = at
                BY <1>3, <2>1
            <4>2. i # 1
                BY <2>4, <2>8, <4>1
            <4>3. QED
                BY <2>4, <4>1, <4>2
        <3>9. QED
            BY <1>2, <1>3, <3>5, <3>6, <3>7, <3>8 DEF Failing
    <2>9. QED
        BY <2>7, <2>8
<1>4. CASE c.op = "mkdir" /\ row[at] # Absent /\ todo[s] = <<Put("create", at, Dir)>>
    <2>1. PICK st : st = Put("create", at, Dir)
        OBVIOUS
    <2>2. st \in Stmts /\ st.do = "create" /\ st.at = at
        BY <1>1, <2>1, PutFacts
    <2>3. Head(todo[s]) = st
        BY <1>4, <2>1, <2>2, HeadsAndTails
    <2>4. Create(s)
        BY <2>2, <2>3 DEF Statement, FirstSelect, EnsureParent, Level, Rewrite, Update, CopyTo, CopyDir, List,
              CreateOrUpdate, DeleteBelow, DeleteRow, Rmdir, Sweep, DeleteDir, DeleteFile, Rename, RenameBelow, Do
    <2>5. ~Is(row, at, "none")
        BY <1>1, <1>2, <1>4, NodeFacts DEF Is
    <2>6. Throws(s)
        BY <2>2, <2>3, <2>4, <2>5 DEF Create
    <2>7. QED
        BY <2>6 DEF Throws
<1>5. CASE c.op = "rm" /\ Children(row, at) # {} /\ todo[s] = <<On("rmdir", at)>>
    <2>1. "rmdir" \in Verbs
        BY DEF Verbs
    <2>2. Head(todo[s]).do = "rmdir" /\ Head(todo[s]).at = at
        BY <1>5, <2>1, LastStatement
    <2>3. Rmdir(s)
        BY <2>2, RmStatement
    <2>4. Throws(s)
        BY <1>5, <2>2, <2>3 DEF Rmdir
    <2>5. QED
        BY <2>4 DEF Throws
<1>6. QED
    BY <1>2, <1>3, <1>4, <1>5 DEF Failing

-----------------------------------------------------------------------------
(* The operation that moves *)

LEMMA AboveParent ==
    ASSUME NEW p \in Path, p # Root, NEW q \in Above(p)
    PROVE  q = Parent(p) \/ q \in Above(Parent(p))
<1>1. /\ Parent(p) \in Path /\ Len(Parent(p)) = Len(p) - 1 /\ p \in Within(Parent(p)) /\ Len(p) \in Nat
      /\ q \in Path /\ Len(q) < Len(p) /\ Len(q) \in Nat
    BY ParentFacts, WithinFacts, PathType
<1>2. q \in Above(Parent(p)) \/ q \in Within(Parent(p))
    BY <1>1, SubtreeFacts
<1>3. CASE q \in Within(Parent(p))
    <2>1. PICK m : m = Len(Parent(p))
        OBVIOUS
    <2>2. ~(m < Len(q))
        BY ONLY <1>1, <2>1
    <2>3. IsPrefix(Parent(p), q)
        BY <1>3 DEF Within
    <2>4. QED
        BY <1>1, <2>1, <2>2, <2>3, PrefixFacts
<1>4. QED
    BY <1>2, <1>3

LEMMA AboveAbove ==
    ASSUME NEW p \in Path, NEW q \in Above(p), NEW r \in Above(q)
    PROVE  r \in Above(p)
<1>1. q \in Path /\ r \in Path /\ Len(q) < Len(p) /\ Len(r) < Len(q) /\ Len(p) \in Nat /\ Len(q) \in Nat /\ Len(r) \in Nat
    BY WithinFacts, PathType
<1>2. p \in Within(q) /\ q \in Within(r)
    BY <1>1, AboveWithin
<1>3. p \in Within(r)
    BY <1>1, <1>2, SubtreeFacts
<1>4. r # p
    BY <1>1
<1>5. QED
    BY <1>1, <1>3, <1>4, AboveWithin

LEMMA MvBounds ==
    ASSUME NEW b \in Tree, Shaped(b), NEW c \in Requests, Proper(c, b), ~Fails(c, b), c.op = "mv",
           NEW w, w = Result(c, b)
    PROVE  /\ w \in Tree /\ w[c.to] = b[c.at] /\ b[c.at] # Absent
           /\ \A z \in Above(c.to) : z \in Path /\ w[z] = Dir /\ b[z] \in {Absent, Dir}
           /\ \A p \in Within(c.at) : p \in Path /\ w[p] = Absent /\ p \notin Within(c.to) /\ p \notin Above(c.to)
           /\ \A p \in Within(c.to) :
                 /\ p \in Path /\ p \notin Within(c.at) /\ p \notin Above(c.to)
                 /\ p # c.to => b[p] = Absent
                 /\ w[p] = IF Origin(c, p) \in Path THEN b[Origin(c, p)] ELSE Absent
           /\ \A p \in Path : p \notin Within(c.at) /\ p \notin Within(c.to) /\ p \notin Above(c.to) => w[p] = b[p]
<1>1. c.at \in Path /\ c.to \in Path /\ c.at \in Within(c.at) /\ c.to \in Within(c.to) /\ Len(c.to) <= Len(c.at)
    BY RequestFacts, WithinFacts
<1>2. /\ w \in Tree
      /\ \A q \in Within(c.at) : w[q] = Absent
      /\ \A q \in Within(c.to) : w[q] = IF Origin(c, q) \in Path THEN b[Origin(c, q)] ELSE Absent
      /\ \A q \in Above(c.to) : q \in Path /\ b[q] \in {Absent, Dir} /\ w[q] = Dir
      /\ \A q \in Path : q \notin Within(c.at) /\ q \notin Within(c.to) /\ q \notin Above(c.to) => w[q] = b[q]
    BY ResultMv
<1>3. /\ \A q \in Within(c.at) : q \notin Within(c.to) /\ q \notin Above(c.to) /\ q \in Path
      /\ \A q \in Within(c.to) : q \notin Within(c.at) /\ q \notin Above(c.to) /\ q \in Path
    BY Apart
<1>4. Origin(c, c.to) = c.at
    <2>1. Moved(c.at, c.at, c.to) = c.to
        BY <1>1, MovedSelf
    <2>2. QED
        BY <1>1, <2>1, OriginImage
<1>5. Children(b, c.to) = {}
    BY DEF Proper
<1>6. \A p \in Within(c.to) : p # c.to => b[p] = Absent
    BY <1>1, <1>5, NoChildren
<1>7. b[c.at] # Absent
    <2>1. Fails(c, b) = Is(b, c.at, "none")
        BY DEF Fails
    <2>2. QED
        BY <2>1, NodeFacts DEF Is
<1>8. w[c.to] = b[c.at]
    BY <1>1, <1>2, <1>4
<1>9. QED
    BY <1>2, <1>3, <1>6, <1>7, <1>8

LEMMA MvShaped ==
    ASSUME NEW b \in Tree, Shaped(b), NEW c \in Requests, Proper(c, b), ~Fails(c, b), c.op = "mv",
           NEW w, w = Result(c, b)
    PROVE  Shaped(w)
<1>1. /\ w \in Tree /\ w[c.to] = b[c.at] /\ b[c.at] # Absent
      /\ \A z \in Above(c.to) : z \in Path /\ w[z] = Dir /\ b[z] \in {Absent, Dir}
      /\ \A p \in Within(c.at) : p \in Path /\ w[p] = Absent /\ p \notin Within(c.to) /\ p \notin Above(c.to)
      /\ \A p \in Within(c.to) :
            /\ p \in Path /\ p \notin Within(c.at) /\ p \notin Above(c.to)
            /\ p # c.to => b[p] = Absent
            /\ w[p] = IF Origin(c, p) \in Path THEN b[Origin(c, p)] ELSE Absent
      /\ \A p \in Path : p \notin Within(c.at) /\ p \notin Within(c.to) /\ p \notin Above(c.to) => w[p] = b[p]
    BY MvBounds
<1>2. c.at \in Path /\ c.to \in Path /\ c.to # Root /\ c.to \in Within(c.to)
    BY RequestFacts, WithinFacts
<1>3. w[Root] = Dir
    <2>1. PICK n \in Nat : n = Len(c.to)
        BY <1>2, PathType
    <2>2. n >= 1
        BY <1>2, <2>1, PathType
    <2>3. 0 \in 0..n - 1
        BY ONLY <2>2
    <2>4. SubSeq(c.to, 1, 0) \in Above(c.to)
        BY <1>2, <2>1, <2>3, WithinFacts
    <2>5. 0 \in 0..n
        BY ONLY <2>2
    <2>6. SubSeq(c.to, 1, 0) = Root
        BY <1>2, <2>1, <2>5, FrontFacts, RootFacts
    <2>7. QED
        BY <1>1, <2>4, <2>6
<1>4. ASSUME NEW p \in Path, p # Root, w[p] # Absent PROVE w[Parent(p)] = Dir
    <2>1. Parent(p) \in Path /\ Parent(p) \in Above(p) /\ p \in Within(Parent(p)) /\ w[p] \in Node
        BY <1>1, <1>4, ParentFacts DEF Tree
    <2>2. PICK u \in Path : u = Parent(p)
        BY <2>1
    <2>3. p \notin Within(c.at)
        BY <1>1, <1>4
    <2>4. CASE p \in Above(c.to) \/ p = c.to
        <3>1. u \in Above(c.to)
            BY <1>2, <2>1, <2>2, <2>4, AboveAbove
        <3>2. QED
            BY <1>1, <2>2, <3>1
    <2>5. CASE p \in Within(c.to) /\ p # c.to
        <3>1. Origin(c, p) \in Path /\ w[p] = b[Origin(c, p)]
            BY <1>1, <1>4, <2>5
        <3>2. c.to \in Above(p)
            BY <1>2, <2>5, AboveWithin
        <3>3. c.to = u \/ c.to \in Above(u)
            BY <1>4, <2>2, <3>2, AboveParent
        <3>4. u \in Within(c.to)
            BY <1>2, <2>2, <3>3, AboveWithin
        <3>5. IsPrefix(u, p) /\ u # p
            BY <2>1, <2>2, AboveWithin DEF Within
        <3>6. Origin(c, u) \in Path /\ Origin(c, u) \in Above(Origin(c, p))
            BY <2>5, <3>1, <3>4, <3>5, OriginAbove
        <3>7. PICK o \in Path : o = Origin(c, p)
            BY <3>1
        <3>8. b[o] # Absent /\ Origin(c, u) \in Above(o)
            BY <1>4, <3>1, <3>6, <3>7
        <3>9. b[Origin(c, u)] = Dir
            BY <3>8, AboveDirs
        <3>10. QED
            BY <1>1, <2>2, <3>4, <3>6, <3>9
    <2>6. CASE p \notin Within(c.to) /\ p \notin Above(c.to)
        <3>1. b[p] # Absent
            BY <1>1, <1>4, <2>3, <2>6
        <3>2. b[u] = Dir
            BY <2>1, <2>2, <3>1, AboveDirs
        <3>3. u \notin Within(c.at) /\ u \notin Within(c.to)
            BY <1>2, <2>1, <2>2, <2>3, <2>6, SubtreeFacts
        <3>4. QED
            BY <1>1, <2>2, <3>2, <3>3
    <2>7. QED
        BY <2>4, <2>5, <2>6
<1>5. \A p \in Path : p # Root /\ ~Is(w, p, "none") => Is(w, Parent(p), "dir")
    BY <1>4, NodeFacts DEF Is
<1>6. QED
    BY <1>3, <1>5 DEF Shaped

\* The statements of a mv, counted from the last: e are behind st. A file has
\* no renameBelow, and its count begins with 1.
Due(c, e, st) ==
    /\ e = 0 => st = FromTo("renameBelow", c.at, c.to)
    /\ e = 1 => st = FromTo("rename", c.at, c.to)
    /\ e = 2 => st = On("deleteRow", c.to)
    /\ e >= 3 => st.do = "parent" /\ st.at \in Above(c.to)

Ahead(c, d, q) == \A i \in 1..Len(q) : Due(c, Len(q) - i + d, q[i])
Shift(c, b)    == IF b[c.at] = Dir THEN 0 ELSE 1
Count(c, b, q) == Len(q) + Shift(c, b)

\* The rows while the directories of the destination are made, when what was
\* there is gone, and when the source itself has its new path.
Opening(c, b, w, t, q) ==
    \A p \in Path :
        \/ t[p] = b[p] /\ (p \in Above(c.to) => \E i \in 1..Len(q) : q[i].do = "parent" /\ q[i].at = p)
        \/ t[p] = w[p] /\ p \in Above(c.to)

Cleared(c, b, w) ==
    [p \in Path |-> IF p \in Above(c.to) THEN w[p] ELSE IF p = c.to THEN Absent ELSE b[p]]

Renamed(c, b, w) ==
    [p \in Path |-> IF p \in Above(c.to) THEN w[p] ELSE IF p = c.to THEN b[c.at]
                    ELSE IF p = c.at THEN Absent ELSE b[p]]

\* A mv on its way.
Moves(c, b, w, t, q) ==
    /\ c.op = "mv" /\ Ahead(c, Shift(c, b), q)
    /\ \/ Count(c, b, q) >= 3 /\ Opening(c, b, w, t, q)
       \/ Count(c, b, q) = 2 /\ t = Cleared(c, b, w)
       \/ Count(c, b, q) = 1 /\ t = Renamed(c, b, w)
       \/ Count(c, b, q) = 0 /\ t = w

LEMMA AheadTail ==
    ASSUME NEW S, NEW q \in Seq(S), q # <<>>, NEW c, NEW d \in {0, 1}, Ahead(c, d, q), NEW n, n = Len(q)
    PROVE  /\ Ahead(c, d, Tail(q)) /\ Due(c, n - 1 + d, Head(q))
           /\ n \in Nat /\ n >= 1 /\ Len(Tail(q)) = n - 1
<1>1. PICK r : r = Tail(q)
    OBVIOUS
<1>2. /\ Head(q) = q[1] /\ 1 \in 1..n /\ n \in Nat /\ Len(r) = n - 1
      /\ \A i \in 1..Len(r) : i + 1 \in 1..n /\ r[i] = q[i + 1]
    BY <1>1, TailFacts
<1>3. ASSUME NEW i \in 1..Len(r) PROVE Due(c, Len(r) - i + d, r[i])
    <2>1. i + 1 \in 1..Len(q) /\ r[i] = q[i + 1]
        BY <1>2
    <2>2. Due(c, n - (i + 1) + d, r[i])
        BY <2>1 DEF Ahead
    <2>3. n - (i + 1) + d = Len(r) - i + d
        BY ONLY <1>2
    <2>4. QED
        BY <2>2, <2>3
<1>4. Ahead(c, d, r)
    BY ONLY <1>3 DEF Ahead
<1>5. Due(c, n - 1 + d, q[1])
    BY <1>2 DEF Ahead
<1>6. QED
    BY <1>1, <1>2, <1>4, <1>5

LEMMA MvTreeFacts ==
    ASSUME NEW b \in Tree, Shaped(b), NEW c \in Requests, Proper(c, b), ~Fails(c, b), c.op = "mv",
           NEW w, w = Result(c, b)
    PROVE  /\ Cleared(c, b, w) \in Tree /\ Renamed(c, b, w) \in Tree
           /\ \A p \in Path : Cleared(c, b, w)[p] =
                 IF p \in Above(c.to) THEN w[p] ELSE IF p = c.to THEN Absent ELSE b[p]
           /\ \A p \in Path : Renamed(c, b, w)[p] =
                 IF p \in Above(c.to) THEN w[p] ELSE IF p = c.to THEN b[c.at]
                 ELSE IF p = c.at THEN Absent ELSE b[p]
           /\ b[c.at] # Dir => Renamed(c, b, w) = w
<1>1. /\ w \in Tree /\ w[c.to] = b[c.at] /\ b[c.at] # Absent
      /\ \A p \in Within(c.at) : p \in Path /\ w[p] = Absent /\ p \notin Within(c.to) /\ p \notin Above(c.to)
      /\ \A p \in Within(c.to) :
            /\ p \in Path /\ p \notin Within(c.at) /\ p \notin Above(c.to)
            /\ p # c.to => b[p] = Absent
            /\ w[p] = IF Origin(c, p) \in Path THEN b[Origin(c, p)] ELSE Absent
      /\ \A p \in Path : p \notin Within(c.at) /\ p \notin Within(c.to) /\ p \notin Above(c.to) => w[p] = b[p]
    BY MvBounds
<1>2. c.at \in Path /\ c.to \in Path /\ c.at \in Within(c.at) /\ c.to \in Within(c.to) /\ Absent \in Node /\ b[c.at] \in Node
    BY RequestFacts, WithinFacts, NodeFacts DEF Tree
<1>3. PICK x : x = Cleared(c, b, w)
    OBVIOUS
<1>4. PICK y : y = Renamed(c, b, w)
    OBVIOUS
<1>5. x \in Tree /\ \A p \in Path : x[p] = IF p \in Above(c.to) THEN w[p] ELSE IF p = c.to THEN Absent ELSE b[p]
    BY <1>1, <1>2, <1>3 DEF Cleared, Tree
<1>6. /\ y \in Tree
      /\ \A p \in Path : y[p] = IF p \in Above(c.to) THEN w[p] ELSE IF p = c.to THEN b[c.at]
                                ELSE IF p = c.at THEN Absent ELSE b[p]
    BY <1>1, <1>2, <1>4 DEF Renamed, Tree
<1>7. ASSUME b[c.at] # Dir PROVE y = w
    <2>1. ASSUME NEW p \in Path PROVE y[p] = w[p]
        <3>1. CASE p \in Within(c.at)
            <4>1. p # c.at => b[p] = Absent
                BY <1>2, <1>7, <3>1, NothingBelow
            <4>2. p # c.to /\ p \notin Above(c.to)
                BY <1>1, <1>2, <3>1
            <4>3. QED
                BY <1>1, <1>6, <3>1, <4>1, <4>2
        <3>2. CASE p \in Within(c.to) /\ p # c.to
            <4>1. p # c.at /\ p \notin Above(c.to) /\ b[p] = Absent
                BY <1>1, <1>2, <3>2
            <4>2. y[p] = Absent
                BY <1>6, <3>2, <4>1
            <4>3. ASSUME Origin(c, p) \in Path PROVE b[Origin(c, p)] = Absent
                <5>1. PICK o \in Path : o = Origin(c, p)
                    BY <4>3
                <5>2. o \in Within(c.at) /\ Moved(o, c.at, c.to) = p
                    BY <3>2, <5>1, OriginImage
                <5>3. o # c.at
                    BY <1>2, <3>2, <5>2, RequestFacts, MovedSelf
                <5>4. QED
                    BY <1>2, <1>7, <5>1, <5>2, <5>3, NothingBelow
            <4>4. QED
                BY <1>1, <3>2, <4>2, <4>3
        <3>3. CASE p = c.to
            BY <1>1, <1>2, <1>6, <3>3
        <3>4. CASE p \in Above(c.to)
            BY <1>6, <3>4
        <3>5. CASE p \notin Within(c.at) /\ p \notin Within(c.to) /\ p \notin Above(c.to)
            BY <1>1, <1>2, <1>6, <3>5
        <3>6. QED
            BY <3>1, <3>2, <3>3, <3>4, <3>5
    <2>2. QED
        BY <1>1, <1>6, <2>1 DEF Tree
<1>8. QED
    BY <1>3, <1>4, <1>5, <1>6, <1>7

\* The next statement h of a mv, m - 1 before the end of the count.
Turn(s, c, b, q, h, m) ==
    /\ m \in Nat /\ m >= 1 /\ Count(c, b, Tail(q)) = m - 1 /\ Due(c, m - 1, h)
    /\ Ahead(c, Shift(c, b), Tail(q))
    /\ m >= 4 => h.do = "parent" /\ EnsureParent(s)
    /\ m = 3 => h = On("deleteRow", c.to) /\ h.at = c.to /\ DeleteRow(s)
    /\ m = 2 => h = FromTo("rename", c.at, c.to) /\ h.at = c.at /\ h.to = c.to /\ Rename(s)
    /\ m = 1 => h = FromTo("renameBelow", c.at, c.to) /\ RenameBelow(s)

LEMMA MvHead ==
    ASSUME TypeInv, NEW s \in Shell, NEW c \in Requests, NEW b, NEW w, NEW q \in Seq(Stmts), q = todo[s], q # <<>>,
           Moves(c, b, w, row, q), Statement(s), NEW h, h = Head(q), NEW m, m = Count(c, b, q)
    PROVE  Turn(s, c, b, q, h, m)
<1>1. PICK d \in {0, 1} : d = Shift(c, b)
    BY DEF Shift
<1>2. PICK n : n = Len(q)
    OBVIOUS
<1>3. Ahead(c, d, q)
    BY <1>1 DEF Moves
<1>4. /\ Ahead(c, d, Tail(q)) /\ Due(c, n - 1 + d, h)
      /\ n \in Nat /\ n >= 1 /\ Len(Tail(q)) = n - 1
    BY <1>2, <1>3, AheadTail
<1>5. /\ m = n + d /\ m \in Nat /\ m >= 1 /\ n - 1 + d = m - 1
    BY ONLY m = Count(c, b, q), <1>1, <1>2, <1>4 DEF Count
<1>6. Due(c, m - 1, h)
    BY <1>4, <1>5
<1>7. c.at \in Path /\ c.to \in Path /\ {"deleteRow", "rename", "renameBelow"} \subseteq Verbs
    BY RequestFacts DEF Verbs
<1>8. /\ On("deleteRow", c.to).do = "deleteRow" /\ On("deleteRow", c.to).at = c.to
      /\ FromTo("rename", c.at, c.to).do = "rename" /\ FromTo("rename", c.at, c.to).at = c.at
      /\ FromTo("rename", c.at, c.to).to = c.to
      /\ FromTo("renameBelow", c.at, c.to).do = "renameBelow"
    BY DEF On, FromTo, Stmt
<1>9. /\ m >= 4 => h.do = "parent"
      /\ m = 3 => h = On("deleteRow", c.to)
      /\ m = 2 => h = FromTo("rename", c.at, c.to)
      /\ m = 1 => h = FromTo("renameBelow", c.at, c.to)
    BY ONLY <1>5, <1>6 DEF Due
<1>10. h.do \in {"parent", "deleteRow", "rename", "renameBelow"}
    BY <1>5, <1>8, <1>9
<1>11. EnsureParent(s) \/ DeleteRow(s) \/ Rename(s) \/ RenameBelow(s)
    BY <1>10 DEF Statement, FirstSelect, Level, Rewrite, Create, Update, CopyTo, CopyDir, List,
           CreateOrUpdate, DeleteBelow, Rmdir, Sweep, DeleteDir, DeleteFile, Do
<1>12. /\ h.do = "parent" => EnsureParent(s)
       /\ h.do = "deleteRow" => DeleteRow(s)
       /\ h.do = "rename" => Rename(s)
       /\ h.do = "renameBelow" => RenameBelow(s)
    BY <1>11 DEF EnsureParent, DeleteRow, Rename, RenameBelow, Do
<1>13. Count(c, b, Tail(q)) = m - 1
    BY ONLY <1>1, <1>4, <1>5 DEF Count
<1>14. QED
    BY ONLY <1>1, <1>4, <1>5, <1>6, <1>8, <1>9, <1>12, <1>13 DEF Turn

LEMMA MovesParent ==
    ASSUME TypeInv, NEW s \in Shell, NEW c \in Requests, c = call[s], NEW b \in Tree, Shaped(b),
           Proper(c, b), ~Fails(c, b), NEW w, w = Result(c, b), NEW q \in Seq(Stmts), q = todo[s], q # <<>>,
           Moves(c, b, w, row, q), Statement(s), NEW m, m = Count(c, b, q), m >= 4
    PROVE  Moves(c, b, w, row', todo'[s]) /\ failed' = failed
<1>1. c.op = "mv"
    BY DEF Moves
<1>2. PICK h : h = Head(q)
    OBVIOUS
<1>3. /\ m \in Nat /\ Count(c, b, Tail(q)) = m - 1 /\ Due(c, m - 1, h) /\ Ahead(c, Shift(c, b), Tail(q))
      /\ EnsureParent(s)
    <2>1. Turn(s, c, b, q, h, m)
        BY <1>2, MvHead
    <2>2. QED
        BY ONLY <2>1, m >= 4 DEF Turn
<1>4. h.do = "parent" /\ h.at \in Above(c.to)
    BY ONLY <1>3, m >= 4 DEF Due
<1>5. Opening(c, b, w, row, q)
    BY ONLY Moves(c, b, w, row, q), m = Count(c, b, q), m >= 4, <1>3 DEF Moves
<1>6. w \in Tree /\ \A z \in Above(c.to) : z \in Path /\ w[z] = Dir /\ b[z] \in {Absent, Dir}
    BY <1>1, MvBounds
<1>7. PICK p \in Above(c.to) : p = h.at
    BY <1>4
<1>8. /\ Continues(s, <<>>)
      /\ IF Is(row, p, "none") THEN Set(p, Dir) ELSE UNCHANGED row
    BY <1>2, <1>3, <1>7 DEF EnsureParent
<1>9. p \in Path /\ row \in [Path -> Node] /\ Dir \in Node /\ (row[p] = Absent \/ row[p] = Dir)
    BY <1>5, <1>6, <1>7, NodeFacts DEF Opening, TypeInv, Tree
<1>10. Is(row, p, "none") <=> row[p] = Absent
    BY <1>9, NodeFacts DEF Is
<1>11. row'[p] = Dir /\ \A z \in Path : z # p => row'[z] = row[z]
    BY <1>8, <1>9, <1>10 DEF Set
<1>12. todo'[s] = Tail(q) /\ failed' = failed
    BY <1>8, GoesOn
<1>13. Opening(c, b, w, row', Tail(q))
    <2>1. PICK r : r = Tail(q)
        OBVIOUS
    <2>2. h = q[1] /\ \A i \in 1..Len(q) : i # 1 => i - 1 \in 1..Len(r) /\ q[i] = r[i - 1]
        BY <1>2, <2>1, TailFacts
    <2>3. ASSUME NEW z \in Path
          PROVE  \/ /\ row'[z] = b[z]
                    /\ (z \in Above(c.to) => \E i \in 1..Len(r) : r[i].do = "parent" /\ r[i].at = z)
                 \/ row'[z] = w[z] /\ z \in Above(c.to)
        <3>1. CASE z = p
            BY <1>6, <1>7, <1>11, <3>1
        <3>2. CASE z # p /\ row[z] = w[z] /\ z \in Above(c.to)
            BY <1>11, <3>2
        <3>3. CASE z # p /\ row[z] = b[z] /\ z \in Above(c.to)
                   /\ \E i \in 1..Len(q) : q[i].do = "parent" /\ q[i].at = z
            <4>1. PICK i \in 1..Len(q) : q[i].do = "parent" /\ q[i].at = z
                BY <3>3
            <4>2. i # 1
                BY <1>7, <2>2, <3>3, <4>1
            <4>3. i - 1 \in 1..Len(r) /\ r[i - 1].do = "parent" /\ r[i - 1].at = z
                BY <2>2, <4>1, <4>2
            <4>4. QED
                BY <1>11, <3>3, <4>3
        <3>4. CASE z # p /\ row[z] = b[z] /\ z \notin Above(c.to)
            BY <1>11, <3>4
        <3>5. QED
            BY <1>5, <3>1, <3>2, <3>3, <3>4 DEF Opening
    <2>4. Opening(c, b, w, row', r)
        BY ONLY <2>3 DEF Opening
    <2>5. QED
        BY <2>1, <2>4
<1>14. m - 1 >= 3
    BY ONLY <1>3, m >= 4
<1>15. Moves(c, b, w, row', Tail(q))
    BY ONLY <1>1, <1>3, <1>13, <1>14 DEF Moves
<1>goal. QED
    BY <1>12, <1>15

LEMMA MovesDelete ==
    ASSUME TypeInv, NEW s \in Shell, NEW c \in Requests, c = call[s], NEW b \in Tree, Shaped(b),
           Proper(c, b), ~Fails(c, b), NEW w, w = Result(c, b), NEW q \in Seq(Stmts), q = todo[s], q # <<>>,
           Moves(c, b, w, row, q), Statement(s), NEW m, m = Count(c, b, q), m = 3
    PROVE  Moves(c, b, w, row', todo'[s]) /\ failed' = failed
<1>1. c.op = "mv" /\ Ahead(c, Shift(c, b), q)
    BY DEF Moves
<1>2. PICK h : h = Head(q)
    OBVIOUS
<1>3. /\ Count(c, b, Tail(q)) = 2 /\ Ahead(c, Shift(c, b), Tail(q))
      /\ h.at = c.to /\ DeleteRow(s)
    <2>1. Turn(s, c, b, q, h, m)
        BY <1>2, MvHead
    <2>2. QED
        BY ONLY <2>1, m = 3 DEF Turn
<1>4. Opening(c, b, w, row, q)
    BY ONLY Moves(c, b, w, row, q), m = Count(c, b, q), m = 3 DEF Moves
<1>5. \A i \in 1..Len(q) : q[i].do # "parent"
    <2>1. PICK n : n = Len(q)
        OBVIOUS
    <2>2. PICK d \in {0, 1} : d = Shift(c, b)
        BY DEF Shift
    <2>3. n \in Nat /\ n + d = 3
        <3>1. n \in Nat
            BY <2>1, TailFacts
        <3>2. QED
            BY ONLY m = Count(c, b, q), m = 3, <2>1, <2>2, <3>1 DEF Count
    <2>4. ASSUME NEW i \in 1..n PROVE q[i].do # "parent"
        <3>1. Due(c, n - i + d, q[i])
            BY <1>1, <2>1, <2>2, <2>4 DEF Ahead
        <3>2. n - i + d = 0 \/ n - i + d = 1 \/ n - i + d = 2
            BY ONLY <2>2, <2>3, <2>4
        <3>3. /\ On("deleteRow", c.to).do = "deleteRow"
              /\ FromTo("rename", c.at, c.to).do = "rename"
              /\ FromTo("renameBelow", c.at, c.to).do = "renameBelow"
            BY DEF On, FromTo, Stmt
        <3>4. q[i] \in {On("deleteRow", c.to), FromTo("rename", c.at, c.to), FromTo("renameBelow", c.at, c.to)}
            BY ONLY <3>1, <3>2 DEF Due
        <3>5. QED
            BY <3>3, <3>4
    <2>5. QED
        BY <2>1, <2>4
<1>6. \A p \in Path : row[p] = IF p \in Above(c.to) THEN w[p] ELSE b[p]
    BY <1>4, <1>5 DEF Opening
<1>7. row' = [row EXCEPT ![c.to] = Absent] /\ Continues(s, <<>>)
    BY <1>2, <1>3 DEF DeleteRow, Set
<1>8. row' = Cleared(c, b, w)
    <2>1. c.to \in Path /\ row \in [Path -> Node] /\ c.to \notin Above(c.to)
        BY RequestFacts, AboveWithin DEF TypeInv, Tree
    <2>2. \A p \in Path : row'[p] = IF p \in Above(c.to) THEN w[p] ELSE IF p = c.to THEN Absent ELSE b[p]
        BY <1>6, <1>7, <2>1
    <2>3. row' = [p \in Path |-> row'[p]]
        BY <1>7, <2>1
    <2>4. QED
        BY <2>2, <2>3 DEF Cleared
<1>9. todo'[s] = Tail(q) /\ failed' = failed
    BY <1>7, GoesOn
<1>10. Moves(c, b, w, row', Tail(q))
    BY <1>1, <1>3, <1>8 DEF Moves
<1>11. QED
    BY <1>9, <1>10

LEMMA MovesRename ==
    ASSUME TypeInv, NEW s \in Shell, NEW c \in Requests, c = call[s], NEW b \in Tree, Shaped(b),
           Proper(c, b), ~Fails(c, b), NEW w, w = Result(c, b), NEW q \in Seq(Stmts), q = todo[s], q # <<>>,
           Moves(c, b, w, row, q), Statement(s), NEW m, m = Count(c, b, q), m = 2
    PROVE  Moves(c, b, w, row', todo'[s]) /\ failed' = failed
<1>1. c.op = "mv" /\ row = Cleared(c, b, w)
    BY ONLY Moves(c, b, w, row, q), m = Count(c, b, q), m = 2 DEF Moves
<1>2. PICK h : h = Head(q)
    OBVIOUS
<1>3. /\ Count(c, b, Tail(q)) = 1 /\ Ahead(c, Shift(c, b), Tail(q))
      /\ h.at = c.at /\ h.to = c.to /\ Rename(s)
    <2>1. Turn(s, c, b, q, h, m)
        BY <1>2, MvHead
    <2>2. QED
        BY ONLY <2>1, m = 2 DEF Turn
<1>4. \A p \in Path : row[p] = IF p \in Above(c.to) THEN w[p] ELSE IF p = c.to THEN Absent ELSE b[p]
    BY <1>1, MvTreeFacts
<1>5. /\ c.at \in Path /\ c.to \in Path /\ c.at # c.to /\ c.at \notin Above(c.to) /\ c.to \notin Above(c.to)
      /\ b[c.at] # Absent /\ row \in [Path -> Node]
    <2>1. /\ c.at \in Path /\ c.to \in Path /\ c.at \in Within(c.at) /\ c.to \in Within(c.to)
          /\ c.to \notin Above(c.to) /\ row \in [Path -> Node]
        BY <1>1, RequestFacts, WithinFacts, AboveWithin DEF TypeInv, Tree
    <2>2. c.at \notin Within(c.to) /\ c.at \notin Above(c.to) /\ b[c.at] # Absent
        BY <1>1, <2>1, MvBounds
    <2>3. QED
        BY <2>1, <2>2
<1>6. row[c.at] = b[c.at] /\ row[c.to] = Absent
    BY <1>4, <1>5
<1>7. ~Is(row, c.at, "none") /\ Is(row, c.to, "none")
    BY <1>5, <1>6, NodeFacts DEF Is
<1>8. row' = [row EXCEPT ![c.to] = row[c.at], ![c.at] = Absent] /\ Continues(s, <<>>)
    BY <1>2, <1>3, <1>7 DEF Rename
<1>9. row' = Renamed(c, b, w)
    <2>1. \A p \in Path : row'[p] = IF p \in Above(c.to) THEN w[p] ELSE IF p = c.to THEN b[c.at]
                                    ELSE IF p = c.at THEN Absent ELSE b[p]
        BY <1>4, <1>5, <1>6, <1>8
    <2>2. row' = [p \in Path |-> row'[p]]
        BY <1>5, <1>8
    <2>3. QED
        BY <2>1, <2>2 DEF Renamed
<1>10. todo'[s] = Tail(q) /\ failed' = failed
    BY <1>8, GoesOn
<1>11. Moves(c, b, w, row', Tail(q))
    BY <1>1, <1>3, <1>9 DEF Moves
<1>12. QED
    BY <1>10, <1>11

LEMMA MovesBelow ==
    ASSUME TypeInv, NEW s \in Shell, NEW c \in Requests, c = call[s], NEW b \in Tree, Shaped(b), Plain,
           Proper(c, b), ~Fails(c, b), NEW w, w = Result(c, b), NEW q \in Seq(Stmts), q = todo[s], q # <<>>,
           Moves(c, b, w, row, q), Statement(s), NEW m, m = Count(c, b, q), m = 1
    PROVE  Moves(c, b, w, row', todo'[s]) /\ failed' = failed
<1>1. c.op = "mv" /\ row = Renamed(c, b, w)
    BY ONLY Moves(c, b, w, row, q), m = Count(c, b, q), m = 1 DEF Moves
<1>2. PICK h : h = Head(q)
    OBVIOUS
<1>3. Count(c, b, Tail(q)) = 0 /\ Ahead(c, Shift(c, b), Tail(q)) /\ RenameBelow(s)
    <2>1. Turn(s, c, b, q, h, m)
        BY <1>2, MvHead
    <2>2. QED
        BY ONLY <2>1, m = 1 DEF Turn
<1>4. \A p \in Path : row[p] = IF p \in Above(c.to) THEN w[p] ELSE IF p = c.to THEN b[c.at]
                               ELSE IF p = c.at THEN Absent ELSE b[p]
    BY <1>1, MvTreeFacts
<1>5. /\ w \in Tree /\ w[c.to] = b[c.at]
      /\ \A p \in Within(c.at) : p \in Path /\ w[p] = Absent /\ p \notin Within(c.to) /\ p \notin Above(c.to)
      /\ \A p \in Within(c.to) :
            /\ p \in Path /\ p \notin Within(c.at) /\ p \notin Above(c.to)
            /\ p # c.to => b[p] = Absent
            /\ w[p] = IF Origin(c, p) \in Path THEN b[Origin(c, p)] ELSE Absent
      /\ \A p \in Path : p \notin Within(c.at) /\ p \notin Within(c.to) /\ p \notin Above(c.to) => w[p] = b[p]
    BY <1>1, MvBounds
<1>6. /\ c.at \in Path /\ c.to \in Path /\ c.at # Root /\ c.at \in Within(c.at) /\ c.to \in Within(c.to)
      /\ row \in [Path -> Node] /\ row' \in Tree /\ c.to # Root /\ Len(c.to) <= Len(c.at)
    BY <1>1, RequestFacts, WithinFacts, StatementStep DEF TypeInv, Tree
<1>goal. \A p \in Within(c.at) : p # c.at => Goal(c, p) = Moved(p, c.at, c.to)
    BY <1>6, RespeltBelow DEF Goal
<1>7. /\ \A p \in MovingBelow(c) : /\ p \in Within(c.at) /\ p # c.at /\ p \in Path
                                   /\ row[p] = b[p] /\ b[p] # Absent
                                   /\ Goal(c, p) \in Within(c.to) /\ Goal(c, p) # c.to /\ Origin(c, Goal(c, p)) = p
      /\ \A p \in Within(c.at) : p # c.at /\ row[p] # Absent => p \in MovingBelow(c)
    <2>1. ASSUME NEW p \in MovingBelow(c)
          PROVE  /\ p \in Within(c.at) /\ p # c.at /\ p \in Path
                 /\ row[p] = b[p] /\ b[p] # Absent
                 /\ Goal(c, p) \in Within(c.to) /\ Goal(c, p) # c.to /\ Origin(c, Goal(c, p)) = p
        <3>1. p \in Path /\ LikeBelow(c.at, p) /\ ~Is(row, p, "none")
            BY DEF MovingBelow
        <3>2. p \in Within(c.at)
            BY <1>6, <3>1, PlainBelow
        <3>3. p # c.at
            BY <1>6, <3>1, PlainBelow
        <3>4. row[p] = b[p]
            BY <1>4, <1>5, <1>6, <3>2, <3>3
        <3>5. row[p] # Absent
            BY <3>1, NodeFacts DEF Is
        <3>6. Goal(c, p) \in Within(c.to) /\ Origin(c, Goal(c, p)) = p
            BY <1>1, <1>goal, <3>2, <3>3, OriginImage
        <3>7. Origin(c, c.to) = c.at
            <4>1. Moved(c.at, c.at, c.to) = c.to
                BY <1>6, MovedSelf
            <4>2. Origin(c, Moved(c.at, c.at, c.to)) = c.at
                BY <1>1, <1>6, OriginImage
            <4>3. QED
                BY <4>1, <4>2
        <3>8. QED
            BY <3>1, <3>2, <3>3, <3>4, <3>5, <3>6, <3>7
    <2>2. ASSUME NEW p \in Within(c.at), p # c.at, row[p] # Absent PROVE p \in MovingBelow(c)
        <3>1. p \in Path /\ row[p] \in Node
            BY <1>5, <1>6
        <3>2. LikeBelow(c.at, p)
            BY <1>6, <2>2, <3>1, PlainBelow
        <3>3. ~Is(row, p, "none")
            BY <2>2, <3>1, NodeFacts DEF Is
        <3>4. QED
            BY <3>1, <3>2, <3>3 DEF MovingBelow
    <2>3. QED
        BY <2>1, <2>2
<1>8. \A p \in Within(c.to) : p # c.to => row[p] = Absent
    <2>1. ASSUME NEW p \in Within(c.to), p # c.to PROVE row[p] = Absent
        <3>1. p \in Path /\ p \notin Above(c.to) /\ b[p] = Absent /\ p # c.at
            BY <1>5, <1>6, <2>1
        <3>2. QED
            BY <1>4, <2>1, <3>1
    <2>2. QED
        BY <2>1
<1>9. ~MayClash(c)
    <2>1. \A p \in MovingBelow(c) : Is(row, Goal(c, p), "none")
        BY <1>7, <1>8, NodeFacts DEF Is
    <2>2. \A p, r \in MovingBelow(c) : Goal(c, r) = Goal(c, p) => r = p
        BY <1>7
    <2>3. QED
        BY <2>1, <2>2 DEF MayClash, Shared, Taken
<1>10. /\ Continues(s, <<>>)
       /\ \A p \in MovingBelow(c) : row'[Goal(c, p)] = row[p]
       /\ \A p \in Path : (\A r \in MovingBelow(c) : Goal(c, r) # p) =>
             row'[p] = IF p \in MovingBelow(c) THEN Absent ELSE row[p]
    BY <1>1, <1>3, <1>9, RenameBelowEffect
<1>11. ASSUME NEW p \in Path PROVE row'[p] = w[p]
    <2>1. CASE p \notin Within(c.to)
        <3>1. row'[p] = IF p \in MovingBelow(c) THEN Absent ELSE row[p]
            BY <1>7, <1>10, <2>1
        <3>2. CASE p \in Within(c.at)
            <4>1. row[c.at] = Absent
                BY <1>4, <1>5, <1>6
            <4>2. QED
                BY <1>5, <1>7, <3>1, <3>2, <4>1
        <3>3. CASE p \notin Within(c.at)
            <4>1. p \notin MovingBelow(c) /\ p # c.at /\ p # c.to
                BY <1>6, <1>7, <2>1, <3>3
            <4>2. QED
                BY <1>4, <1>5, <2>1, <3>1, <3>3, <4>1
        <3>4. QED
            BY <3>2, <3>3
    <2>2. CASE p = c.to
        <3>1. p \notin MovingBelow(c) /\ p \notin Above(c.to)
            BY <1>5, <1>6, <1>7, <2>2
        <3>2. row'[p] = row[p]
            BY <1>7, <1>10, <2>2, <3>1
        <3>3. QED
            BY <1>4, <1>5, <2>2, <3>1, <3>2
    <2>3. CASE p \in Within(c.to) /\ p # c.to
        <3>1. p \notin MovingBelow(c) /\ row[p] = Absent
            BY <1>5, <1>7, <1>8, <2>3
        <3>2. CASE \E r \in MovingBelow(c) : Goal(c, r) = p
            <4>1. PICK r \in MovingBelow(c) : Goal(c, r) = p
                BY <3>2
            <4>2. Origin(c, p) = r /\ r \in Path /\ row[r] = b[r] /\ row'[p] = row[r]
                BY <1>7, <1>10, <4>1
            <4>3. QED
                BY <1>5, <2>3, <4>2
        <3>3. CASE \A r \in MovingBelow(c) : Goal(c, r) # p
            <4>1. row'[p] = Absent
                BY <1>10, <3>1, <3>3
            <4>2. ASSUME Origin(c, p) \in Path PROVE b[Origin(c, p)] = Absent
                <5>1. PICK o \in Path : o = Origin(c, p)
                    BY <4>2
                <5>2. o \in Within(c.at) /\ Moved(o, c.at, c.to) = p
                    BY <1>1, <2>3, <5>1, OriginImage
                <5>3. o # c.at
                    BY <1>6, <2>3, <5>2, MovedSelf
                <5>4. row[o] = b[o]
                    BY <1>4, <1>5, <1>6, <5>2, <5>3
                <5>5. row[o] = Absent
                    BY <1>7, <1>goal, <3>3, <5>2, <5>3
                <5>6. QED
                    BY <5>1, <5>4, <5>5
            <4>3. QED
                BY <1>5, <2>3, <4>1, <4>2
        <3>4. QED
            BY <3>2, <3>3
    <2>4. QED
        BY <2>1, <2>2, <2>3
<1>12. row' = w
    BY <1>5, <1>6, <1>11 DEF Tree
<1>13. todo'[s] = Tail(q) /\ failed' = failed
    BY <1>10, GoesOn
<1>14. Moves(c, b, w, row', Tail(q))
    BY <1>1, <1>3, <1>12 DEF Moves
<1>15. QED
    BY <1>13, <1>14

LEMMA MovesStart ==
    ASSUME TypeInv, Shaped(row), NEW c \in Requests, Proper(c, row), ~Fails(c, row), c.op = "mv",
           NEW w, w = Result(c, row)
    PROVE  Moves(c, row, w, row, Steps(c))
<1>1. PICK q : q = Steps(c)
    OBVIOUS
<1>2. PICK n : n = Len(c.to) - 1
    OBVIOUS
<1>3. MvForm(c, q, n)
    <2>1. Steps(c) = MvSteps(c)
        BY DEF Steps
    <2>2. QED
        BY <1>1, <1>2, <2>1, MvStepsForm
<1>4. PICK d \in {0, 1} : d = Shift(c, row)
    BY DEF Shift
<1>5. /\ n \in Nat /\ Len(q) \in Nat /\ Len(q) + d = n + 3 /\ (d = 0 => Is(row, c.at, "dir"))
      /\ \A i \in 1..n : q[i] = On("parent", SubSeq(c.to, 1, i))
      /\ q[n + 1] = On("deleteRow", c.to)
      /\ q[n + 2] = FromTo("rename", c.at, c.to)
      /\ d = 0 => q[n + 3] = FromTo("renameBelow", c.at, c.to)
    <2>1. Is(row, c.at, "dir") <=> row[c.at] = Dir
        <3>1. row[c.at] \in Node
            BY RequestFacts DEF TypeInv, Tree
        <3>2. QED
            BY <3>1, NodeFacts DEF Is
    <2>2. d = IF Is(row, c.at, "dir") THEN 0 ELSE 1
        BY <1>4, <2>1 DEF Shift
    <2>3. QED
        BY ONLY <1>3, <2>2 DEF MvForm
<1>6. c.to \in Path /\ c.to # Root /\ "parent" \in Verbs
    BY RequestFacts DEF Verbs
<1>7. ASSUME NEW i \in 1..n
      PROVE  q[i].do = "parent" /\ q[i].at = SubSeq(c.to, 1, i) /\ q[i].at \in Above(c.to)
    <2>1. SubSeq(c.to, 1, i) \in Above(c.to)
        BY <1>2, <1>6, <1>7, FrontsAbove
    <2>2. On("parent", SubSeq(c.to, 1, i)).do = "parent" /\ On("parent", SubSeq(c.to, 1, i)).at = SubSeq(c.to, 1, i)
        BY DEF On, Stmt
    <2>3. QED
        BY <1>5, <1>7, <2>1, <2>2
<1>8. Ahead(c, d, q)
    <2>1. ASSUME NEW i \in 1..Len(q), NEW e, e = Len(q) - i + d PROVE Due(c, e, q[i])
        <3>1. e = n + 3 - i /\ (i \in 1..n \/ i = n + 1 \/ i = n + 2 \/ (i = n + 3 /\ d = 0))
            BY ONLY <1>4, <1>5, <2>1
        <3>2. CASE i \in 1..n
            BY <1>5, <1>7, <3>1, <3>2 DEF Due
        <3>3. CASE i = n + 1
            <4>1. e = 2 /\ q[i] = On("deleteRow", c.to)
                BY ONLY <1>5, <3>1, <3>3
            <4>2. QED
                BY ONLY <4>1 DEF Due
        <3>4. CASE i = n + 2
            <4>1. e = 1 /\ q[i] = FromTo("rename", c.at, c.to)
                BY ONLY <1>5, <3>1, <3>4
            <4>2. QED
                BY ONLY <4>1 DEF Due
        <3>5. CASE i = n + 3 /\ d = 0
            <4>1. e = 0 /\ q[i] = FromTo("renameBelow", c.at, c.to)
                BY ONLY <1>5, <3>1, <3>5
            <4>2. QED
                BY ONLY <4>1 DEF Due
        <3>6. QED
            BY <3>1, <3>2, <3>3, <3>4, <3>5
    <2>2. QED
        BY <2>1 DEF Ahead
<1>9. Opening(c, row, w, row, q)
    <2>1. w \in Tree /\ \A z \in Above(c.to) : w[z] = Dir
        BY MvBounds DEF TypeInv
    <2>2. ASSUME NEW p \in Path, p \in Above(c.to)
          PROVE  row[p] = w[p] \/ \E i \in 1..Len(q) : q[i].do = "parent" /\ q[i].at = p
        <3>1. p = Root \/ \E m \in 1..Len(c.to) - 1 : p = SubSeq(c.to, 1, m)
            BY <1>6, <2>2, FrontsAbove
        <3>2. CASE p = Root
            BY <2>1, <2>2, <3>2 DEF Shaped
        <3>3. CASE \E m \in 1..Len(c.to) - 1 : p = SubSeq(c.to, 1, m)
            <4>1. PICK m \in 1..n : p = SubSeq(c.to, 1, m)
                BY <1>2, <3>3
            <4>2. m \in 1..Len(q)
                BY ONLY <1>4, <1>5, <4>1
            <4>3. QED
                BY <1>7, <4>1, <4>2
        <3>4. QED
            BY <3>1, <3>2, <3>3
    <2>3. QED
        BY <2>2 DEF Opening
<1>10. Count(c, row, q) >= 3
    BY ONLY <1>4, <1>5 DEF Count
<1>11. Moves(c, row, w, row, q)
    BY <1>4, <1>8, <1>9, <1>10 DEF Moves
<1>12. QED
    BY <1>1, <1>11

LEMMA MovesAdvances ==
    ASSUME TypeInv, NEW s \in Shell, NEW c \in Requests, c = call[s], NEW b \in Tree, Shaped(b), Plain,
           Proper(c, b), ~Fails(c, b), NEW w, w = Result(c, b),
           Moves(c, b, w, row, todo[s]), Statement(s)
    PROVE  Moves(c, b, w, row', todo'[s]) /\ failed' = failed
<1>1. PICK q \in Seq(Stmts) : q = todo[s]
    BY DEF TypeInv
<1>2. q # <<>>
    BY <1>1, StatementFrame
<1>3. PICK h : h = Head(q)
    OBVIOUS
<1>4. PICK m : m = Count(c, b, q)
    OBVIOUS
<1>5. Turn(s, c, b, q, h, m)
    BY <1>1, <1>2, <1>3, <1>4, MvHead
<1>6. m \in Nat /\ m >= 1
    BY ONLY <1>5 DEF Turn
<1>7. m >= 4 \/ m = 3 \/ m = 2 \/ m = 1
    BY ONLY <1>6
<1>8. CASE m >= 4
    BY <1>1, <1>2, <1>4, <1>8, MovesParent
<1>9. CASE m = 3
    BY <1>1, <1>2, <1>4, <1>9, MovesDelete
<1>10. CASE m = 2
    BY <1>1, <1>2, <1>4, <1>10, MovesRename
<1>11. CASE m = 1
    BY <1>1, <1>2, <1>4, <1>11, MovesBelow
<1>12. QED
    BY <1>7, <1>8, <1>9, <1>10, <1>11

LEMMA MovesEnd ==
    ASSUME NEW b \in Tree, Shaped(b), NEW c \in Requests, Proper(c, b), ~Fails(c, b),
           NEW w, w = Result(c, b), NEW t, Moves(c, b, w, t, <<>>)
    PROVE  t = w /\ Shaped(t)
<1>1. c.op = "mv"
    BY DEF Moves
<1>2. PICK q : q = <<>>
    OBVIOUS
<1>3. Count(c, b, q) = Shift(c, b)
    <2>1. Len(q) = 0
        BY <1>2
    <2>2. Shift(c, b) \in {0, 1}
        BY DEF Shift
    <2>3. QED
        BY ONLY <2>1, <2>2 DEF Count
<1>4. Shift(c, b) = 0 \/ (Shift(c, b) = 1 /\ b[c.at] # Dir)
    BY DEF Shift
<1>5. t = w \/ (t = Renamed(c, b, w) /\ b[c.at] # Dir)
    BY <1>2, <1>3, <1>4 DEF Moves
<1>6. t = w
    BY <1>1, <1>5, MvTreeFacts
<1>7. QED
    BY <1>1, <1>6, MvShaped

-----------------------------------------------------------------------------
(* A shell that has the workspace to itself *)

\* An operation on its way from the rows b to its result w.
Underway(c, b, w, t, q) ==
    \/ c.op \in {"write", "append", "mkdir", "cp"} /\ Builds(c, b, w, t, q)
    \/ Removes(c, b, w, t, q)
    \/ Moves(c, b, w, t, q)

LEMMA UnderwayStart ==
    ASSUME TypeInv, Shaped(row), NEW c \in Requests, Proper(c, row), ~Fails(c, row), NEW w, w = Result(c, row)
    PROVE  Underway(c, row, w, row, Steps(c))
<1>1. row \in Tree /\ c.op \in Operation
    BY RequestFacts DEF TypeInv
<1>2. CASE c.op \in {"write", "append"}
    BY <1>1, <1>2, WriteStart DEF Underway
<1>3. CASE c.op = "mkdir"
    BY <1>1, <1>3, MkdirStart DEF Underway
<1>4. CASE c.op = "cp"
    BY <1>1, <1>4, CpStart DEF Underway
<1>5. CASE c.op = "rm"
    BY <1>1, <1>5, RmStart DEF Underway
<1>6. CASE c.op = "mv"
    BY <1>6, MovesStart DEF Underway
<1>7. QED
    BY <1>1, <1>2, <1>3, <1>4, <1>5, <1>6 DEF Operation

LEMMA UnderwayAdvances ==
    ASSUME TypeInv, NEW s \in Shell, NEW c \in Requests, c = call[s], NEW b \in Tree, Shaped(b), Plain,
           Proper(c, b), ~Fails(c, b), NEW w, w = Result(c, b),
           Underway(c, b, w, row, todo[s]), Statement(s)
    PROVE  Underway(c, b, w, row', todo'[s]) /\ failed' = failed
<1>1. CASE c.op \in {"write", "append", "mkdir", "cp"} /\ Builds(c, b, w, row, todo[s])
    <2>1. PICK q \in Seq(Stmts) : q = todo[s]
        BY DEF TypeInv
    <2>2. q # <<>>
        BY <2>1, StatementFrame
    <2>3. w \in Tree
        BY <1>1, Bounds
    <2>4. row \in Tree
        BY DEF TypeInv
    <2>5. Advances(s, c, b, w, q)
        BY <1>1, <2>1, <2>2, <2>3, <2>4, BuildsAdvances
    <2>6. PICK x : Continues(s, x) /\ Builds(c, b, w, row', x \o Tail(q))
        BY <2>5 DEF Advances
    <2>7. PICK y : y = x \o Tail(q)
        OBVIOUS
    <2>8. Goes(s, y)
        BY <2>1, <2>6, <2>7 DEF Continues
    <2>9. todo'[s] = y /\ failed' = failed
        BY <2>8, GoesFacts DEF Goes
    <2>10. QED
        BY <1>1, <2>6, <2>7, <2>9 DEF Underway
<1>2. CASE Removes(c, b, w, row, todo[s])
    BY <1>2, RemovesAdvances DEF Underway
<1>3. CASE Moves(c, b, w, row, todo[s])
    BY <1>3, MovesAdvances DEF Underway
<1>4. QED
    BY <1>1, <1>2, <1>3 DEF Underway

\* With no statement left the result is reached; but for a mv, the rows are a
\* tree all the way.
LEMMA UnderwayFacts ==
    ASSUME NEW b \in Tree, Shaped(b), NEW c \in Requests, Proper(c, b), ~Fails(c, b),
           NEW w, w = Result(c, b), NEW t \in Tree, NEW q, Underway(c, b, w, t, q)
    PROVE  /\ q = <<>> => t = w /\ Shaped(t)
           /\ c.op # "mv" => Shaped(t)
<1>1. CASE c.op \in {"write", "append", "mkdir", "cp"} /\ Builds(c, b, w, t, q)
    <2>1. Shaped(t)
        BY <1>1 DEF Builds
    <2>2. ASSUME q = <<>> PROVE t = w
        <3>1. Len(q) = 0
            BY <2>2
        <3>2. \A p \in Path : t[p] = w[p]
            BY <1>1, <3>1 DEF Builds
        <3>3. w \in Tree
            BY <1>1, Bounds
        <3>4. QED
            BY <3>2, <3>3 DEF Tree
    <2>3. QED
        BY <2>1, <2>2
<1>2. CASE Removes(c, b, w, t, q)
    BY <1>2, RemovesShaped
<1>3. CASE Moves(c, b, w, t, q)
    BY <1>3, MovesEnd DEF Moves
<1>4. QED
    BY <1>1, <1>2, <1>3 DEF Underway

\* Where a shell can be that works on a tree nobody else changes.
Calling(s, c, b) ==
    /\ Shaped(b) /\ Proper(c, b)
    /\ \/ failed[s] /\ todo[s] = <<>> /\ row = b /\ Fails(c, b)
       \/ /\ ~failed[s] /\ row = b
          /\ todo[s] = <<On("call", c.at)>> \/ (Fails(c, b) /\ Failing(c, b, todo[s]))
       \/ ~failed[s] /\ ~Fails(c, b) /\ Underway(c, b, Result(c, b), row, todo[s])

Lone(s) ==
    /\ call[s] = Nothing => Shaped(row) /\ ~failed[s]
    /\ call[s] # Nothing => Calling(s, call[s], before)

\* What the theorems about one shell assume: it has the workspace to itself, its
\* calls are proper, no name contains _, % or \, and no statement fails.
LoneShell(s) == Shell = {s} /\ OnlyProper /\ Plain /\ ~Unreliable

LEMMA LoneBegins ==
    ASSUME TypeInv, NEW s, LoneShell(s), Lone(s), NEW c \in Requests, Begin(s, c)
    PROVE  Lone(s)'
<1>1. s \in Shell /\ Shell = {s} /\ OnlyProper
    BY DEF LoneShell
<1>2. /\ call[s] = Nothing /\ Proper(c, row) /\ before' = row /\ row' = row /\ failed' = failed
      /\ call'[s] = c /\ todo'[s] = <<On("call", c.at)>>
    BY <1>1 DEF Begin, TypeInv
<1>3. Shaped(row) /\ ~failed[s]
    BY <1>2 DEF Lone
<1>4. c # Nothing
    BY RequestFacts
<1>5. Calling(s, c, row)'
    BY <1>2, <1>3 DEF Calling
<1>6. QED
    BY <1>2, <1>4, <1>5 DEF Lone

LEMMA LoneReturns ==
    ASSUME TypeInv, NEW s, LoneShell(s), Lone(s), Return(s)
    PROVE  Lone(s)'
<1>1. s \in Shell
    BY DEF LoneShell
<1>2. call[s] # Nothing /\ todo[s] = <<>> /\ call'[s] = Nothing /\ ~failed'[s] /\ row' = row
    BY <1>1 DEF Return, TypeInv
<1>3. call[s] \in Requests /\ row \in Tree /\ before \in Tree
    BY <1>1, <1>2 DEF TypeInv
<1>4. Calling(s, call[s], before)
    BY <1>2 DEF Lone
<1>5. Shaped(row)
    <2>1. PICK q : q = todo[s]
        OBVIOUS
    <2>2. CASE row = before
        BY <1>4, <2>2 DEF Calling
    <2>3. CASE ~Fails(call[s], before) /\ Underway(call[s], before, Result(call[s], before), row, todo[s])
        BY <1>2, <1>3, <1>4, <2>3, UnderwayFacts DEF Calling
    <2>4. QED
        BY <1>4, <2>2, <2>3 DEF Calling
<1>6. QED
    BY <1>2, <1>5 DEF Lone

LEMMA LoneThrows ==
    ASSUME TypeInv, NEW s \in Shell, Throws(s)
    PROVE  row' = row /\ todo'[s] = <<>> /\ failed'[s]
BY DEF Throws, TypeInv

LEMMA LoneStatement ==
    ASSUME TypeInv, NEW s, LoneShell(s), Lone(s), Statement(s)
    PROVE  Lone(s)'
<1>1. s \in Shell /\ Plain
    BY DEF LoneShell
<1>2. call' = call /\ before' = before /\ todo[s] # <<>>
    BY <1>1, StatementFrame
<1>3. PICK c \in Requests : c = call[s]
    BY <1>1, <1>2, HeadFacts
<1>4. PICK b \in Tree : b = before
    BY DEF TypeInv
<1>5. c # Nothing /\ c.at \in Path
    BY RequestFacts
<1>6. Calling(s, c, b)
    BY <1>3, <1>4, <1>5 DEF Lone
<1>7. Shaped(b) /\ Proper(c, b)
    BY <1>6 DEF Calling
<1>8. PICK w : w = Result(c, b)
    OBVIOUS
<1>9. ~failed[s]
    BY <1>2, <1>6 DEF Calling
<1>10. CASE row = b /\ todo[s] = <<On("call", c.at)>>
    <2>1. Head(todo[s]).do = "call"
        <3>1. "call" \in Verbs
            BY DEF Verbs
        <3>2. QED
            BY <1>1, <1>5, <1>10, <3>1, LastStatement
    <2>2. FirstSelect(s)
        BY <2>1 DEF Statement, EnsureParent, Level, Rewrite, Create, Update, CopyTo, CopyDir, List,
           CreateOrUpdate, DeleteBelow, DeleteRow, Rmdir, Sweep, DeleteDir, DeleteFile, Rename, RenameBelow, Do
    <2>3. Shaped(row) /\ row \in Tree
        BY <1>4, <1>7, <1>10
    <2>4. ASSUME Refused(c) PROVE Calling(s, c, b)'
        <3>1. Throws(s)
            BY <1>3, <2>2, <2>4 DEF FirstSelect
        <3>2. row' = b /\ todo'[s] = <<>> /\ failed'[s]
            BY <1>1, <1>10, <3>1, LoneThrows
        <3>3. Fails(c, b)
            BY <1>10, <2>3, <2>4, RefusedFails
        <3>4. QED
            BY <1>7, <3>2, <3>3 DEF Calling
    <2>5. ASSUME ~Refused(c) PROVE Calling(s, c, b)'
        <3>1. Goes(s, Steps(c)) /\ row' = row
            BY <1>3, <2>2, <2>5 DEF FirstSelect
        <3>2. todo'[s] = Steps(c) /\ failed' = failed
            BY <1>1, <3>1, GoesFacts DEF Goes
        <3>3. CASE Fails(c, b)
            <4>1. Failing(c, b, Steps(c))
                BY <1>10, <2>3, <2>5, <3>3, RefusedFails
            <4>2. QED
                BY <1>7, <1>9, <1>10, <3>1, <3>2, <3>3, <4>1 DEF Calling
        <3>4. CASE ~Fails(c, b)
            <4>1. Underway(c, b, w, row, Steps(c))
                BY <1>7, <1>8, <1>10, <2>3, <3>4, UnderwayStart
            <4>2. QED
                BY <1>7, <1>8, <1>9, <3>1, <3>2, <3>4, <4>1 DEF Calling
        <3>5. QED
            BY <3>3, <3>4
    <2>6. Calling(s, c, b)'
        BY <2>4, <2>5
    <2>7. QED
        BY <1>2, <1>3, <1>4, <1>5, <2>6 DEF Lone
<1>11. CASE row = b /\ Fails(c, b) /\ Failing(c, b, todo[s])
    <2>1. Failing(c, row, todo[s]) /\ Shaped(row)
        BY <1>7, <1>11
    <2>2. row' = row /\ (Throws(s) \/ (Failing(c, row, todo'[s]) /\ failed' = failed))
        BY <1>1, <1>3, <2>1, FailingAdvances
    <2>3. Throws(s) => todo'[s] = <<>> /\ failed'[s]
        BY <1>1, LoneThrows
    <2>4. Calling(s, c, b)'
        BY <1>7, <1>9, <1>11, <2>2, <2>3 DEF Calling
    <2>5. QED
        BY <1>2, <1>3, <1>4, <1>5, <2>4 DEF Lone
<1>12. CASE ~Fails(c, b) /\ Underway(c, b, w, row, todo[s])
    <2>1. Underway(c, b, w, row', todo'[s]) /\ failed' = failed
        BY <1>1, <1>3, <1>7, <1>8, <1>12, UnderwayAdvances
    <2>2. Calling(s, c, b)'
        BY <1>7, <1>8, <1>9, <1>12, <2>1 DEF Calling
    <2>3. QED
        BY <1>2, <1>3, <1>4, <1>5, <2>2 DEF Lone
<1>13. QED
    BY <1>6, <1>8, <1>9, <1>10, <1>11, <1>12 DEF Calling

\* Lone is an invariant: between operations, and after every statement of one,
\* what the shell has still to run leads from the rows of now to the tree and the
\* outcome of the whole operation.
THEOREM LoneAlways == \A s : LoneShell(s) => (Spec => []Lone(s))
<1>1. SUFFICES ASSUME NEW s, LoneShell(s) PROVE Spec => []Lone(s)
    OBVIOUS
<1>2. Init => Lone(s)
    <2>1. SUFFICES ASSUME Init PROVE Lone(s)
        OBVIOUS
    <2>2. s \in Shell
        BY <1>1 DEF LoneShell
    <2>3. call[s] = Nothing /\ failed[s] = FALSE /\ Shaped(row)
        BY <2>1, <2>2 DEF Init
    <2>4. QED
        BY <2>3 DEF Lone
<1>3. TypeInv /\ Lone(s) /\ [Next]_vars => Lone(s)'
    <2>1. ASSUME TypeInv, Lone(s), Next PROVE Lone(s)'
        <3>1. PICK t \in Shell : (\E c \in Requests : Begin(t, c)) \/ Statement(t) \/ Return(t)
            BY <1>1, <2>1 DEF Next, StatementFails, LoneShell
        <3>2. t = s
            BY <1>1, <3>1 DEF LoneShell
        <3>3. QED
            BY <1>1, <2>1, <3>1, <3>2, LoneBegins, LoneStatement, LoneReturns
    <2>2. ASSUME TypeInv, Lone(s), UNCHANGED vars PROVE Lone(s)'
        BY <2>2 DEF vars, Lone, Calling
    <2>3. QED
        BY <2>1, <2>2
<1>4. QED
    BY <1>2, <1>3, Typed, PTL DEF Spec

\* A shell as in LoneShell gets, from every operation and on any tree, the tree and
\* the outcome of that operation as one indivisible step.
THEOREM LoneResult == \A s : LoneShell(s) => (Spec => []ResultAsSpecified)
<1>1. SUFFICES ASSUME NEW s, LoneShell(s) PROVE Spec => []ResultAsSpecified
    OBVIOUS
<1>2. Spec => []Lone(s)
    BY <1>1, LoneAlways
<1>3. TypeInv /\ Lone(s) => ResultAsSpecified
    <2>1. SUFFICES ASSUME TypeInv, Lone(s), Finished(s)
                   PROVE  row = Result(call[s], before) /\ failed[s] = Fails(call[s], before)
        BY <1>1 DEF ResultAsSpecified, LoneShell
    <2>2. call[s] # Nothing /\ todo[s] = <<>>
        BY <2>1 DEF Finished
    <2>3. s \in Shell /\ call[s] \in Requests /\ before \in Tree /\ row \in Tree /\ failed[s] \in BOOLEAN
        BY <1>1, <2>1, <2>2 DEF LoneShell, TypeInv
    <2>4. Calling(s, call[s], before)
        BY <2>1, <2>2 DEF Lone
    <2>5. CASE failed[s] /\ row = before /\ Fails(call[s], before)
        BY <2>5 DEF Result
    <2>6. CASE ~failed[s] /\ ~Fails(call[s], before)
               /\ Underway(call[s], before, Result(call[s], before), row, todo[s])
        <3>1. Shaped(before) /\ Proper(call[s], before)
            BY <2>4 DEF Calling
        <3>2. PICK w : w = Result(call[s], before)
            OBVIOUS
        <3>3. row = w
            BY <2>2, <2>3, <2>6, <3>1, <3>2, UnderwayFacts
        <3>4. Fails(call[s], before) \in BOOLEAN
            BY <2>3, <3>1, FailsBoolean
        <3>5. failed[s] = Fails(call[s], before)
            BY <2>3, <2>6, <3>4
        <3>6. QED
            BY <3>2, <3>3, <3>5
    <2>7. ~Failing(call[s], before, <<>>)
        BY DEF Failing
    <2>8. QED
        BY <2>2, <2>4, <2>5, <2>6, <2>7 DEF Calling
<1>4. QED
    BY <1>2, <1>3, Typed, PTL

\* Wherever such a shell dies in the middle of an operation, mv excepted, the
\* rows are a tree: no entry without its directory.
THEOREM LoneTree == \A s : LoneShell(s) => (Spec => []ShapedUnlessMoving)
<1>1. SUFFICES ASSUME NEW s, LoneShell(s) PROVE Spec => []ShapedUnlessMoving
    OBVIOUS
<1>2. Spec => []Lone(s)
    BY <1>1, LoneAlways
<1>3. TypeInv /\ Lone(s) => ShapedUnlessMoving
    <2>1. SUFFICES ASSUME TypeInv, Lone(s), call[s].op # "mv" PROVE Shaped(row)
        BY <1>1 DEF ShapedUnlessMoving, LoneShell
    <2>2. CASE call[s] = Nothing
        BY <2>1, <2>2 DEF Lone
    <2>3. CASE call[s] # Nothing
        <3>1. call[s] \in Requests /\ before \in Tree /\ row \in Tree
            BY <1>1, <2>1, <2>3 DEF LoneShell, TypeInv
        <3>2. Calling(s, call[s], before)
            BY <2>1, <2>3 DEF Lone
        <3>3. CASE row = before
            BY <3>2, <3>3 DEF Calling
        <3>4. CASE ~Fails(call[s], before) /\ Underway(call[s], before, Result(call[s], before), row, todo[s])
            BY <2>1, <3>1, <3>2, <3>4, UnderwayFacts DEF Calling
        <3>5. QED
            BY <3>2, <3>3, <3>4 DEF Calling
    <2>4. QED
        BY <2>2, <2>3
<1>4. QED
    BY <1>2, <1>3, Typed, PTL
=============================================================================
