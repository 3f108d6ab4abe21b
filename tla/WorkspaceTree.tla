---------------------------- MODULE WorkspaceTree ----------------------------
(***************************************************************************)
(* WorkspaceFs, the file system that just-bash sees at /home/agent, and    *)
(* the queries under it: every operation is a run of SQL statements on     *)
(* _openrind.workspace_files, each committed by itself.                    *)
(*                                                                         *)
(* The shells of several sandboxes may work on one workspace, and a shell  *)
(* may die between any two statements: it simply goes no further. In an    *)
(* unreliable workspace a statement may also fail, which most of the code  *)
(* takes for the answer that there is no such row.                         *)
(***************************************************************************)
EXTENDS FileTree

CONSTANTS
    Shell,       \* processes with a WorkspaceFs on the workspace
    Ops,         \* the operations they call
    Place,       \* the paths they call them on
    OnlyProper,  \* the calls are Proper when they begin
    Unreliable,  \* statements may fail: a lost connection, statement_timeout
    Matches(_, _),     \* Matches(p, q): q LIKE p || '/%', with the _, the %
                       \* and the \ that the names of p may contain
    Respelt(_, _, _)   \* Respelt(q, p, to): to || substring(q FROM length(p) + 1),
                       \* a cut by characters, wherever in a name it falls

Operation == {"write", "append", "mkdir", "rm", "mv", "cp"}

ASSUME ShellAssumption ==
    /\ Ops \subseteq Operation /\ Place \subseteq Path \ {Root}
    /\ OnlyProper \in BOOLEAN /\ Unreliable \in BOOLEAN

\* What is known of every name: each / of a pattern, whatever stands before it,
\* matches one of the path; and what is below p keeps what it has behind p.
ASSUME LikeAssumption ==
    \A p, q \in Path :
        /\ Matches(p, q) => Len(q) > Len(p)
        /\ p # Root /\ IsStrictPrefix(p, q) =>
              \A to \in Path \ {Root} : Respelt(q, p, to) = Moved(q, p, to)

\* No name of a path contains _, % or \.
Plain == \A p, q \in Path : p # Root => (Matches(p, q) <=> IsStrictPrefix(p, q))

VARIABLES
    row,      \* Path -> what workspace_files has for it
    call,     \* Shell -> the operation under way, or Return
    todo,     \* Shell -> its statements still to be executed
    failed,   \* Shell -> whether its operation threw
    before    \* history: the rows when the operation of a lone shell began

vars == <<row, call, todo, failed, before>>

Calls == {Call(op, at, to, chunk, recursive) :
              op \in Ops, at \in Place, to \in Place,
              chunk \in Chunk, recursive \in BOOLEAN}

\* Fields an operation has no use for have one value. What moves or is copied
\* stays within Path: a bound of the model.
Used(c) ==
    /\ c.op \notin {"mv", "cp"} => c.to = c.at
    /\ c.op \in {"mv", "cp"} => Len(c.to) <= Len(c.at)
    /\ c.op = "mv" => \A q \in Path : Matches(c.at, q) => Respelt(q, c.at, c.to) \in Path
    /\ c.op \notin {"write", "append"} => c.chunk = CHOOSE k \in Chunk : TRUE
    /\ c.op \in {"write", "append", "mv"} => ~c.recursive

Requests == {c \in Calls : Used(c)}
NoRows   == [p \in Path |-> Absent]
Nothing  == Call("none", Root, Root, CHOOSE k \in Chunk : TRUE, FALSE)

\* A statement, or the read-only checks of it and the statement they guard.
Stmt(do, at, to, node) == [do |-> do, at |-> at, to |-> to, node |-> node]

On(do, p)         == Stmt(do, p, p, Absent)
Put(do, p, node)  == Stmt(do, p, p, node)
FromTo(do, p, q)  == Stmt(do, p, q, Absent)

Verbs == {"call", "parent", "level", "copyDir", "list", "copyTo", "rewrite",
          "create", "createOrUpdate", "update", "deleteBelow", "deleteRow",
          "sweep", "rmdir", "deleteDir", "deleteFile", "rename", "renameBelow"}

TypeOK ==
    /\ row \in Tree /\ before \in Tree
    /\ \A s \in Shell :
          /\ call[s] \in Requests \cup {Nothing}
          /\ failed[s] \in BOOLEAN
          /\ \A i \in 1..Len(todo[s]) :
                /\ todo[s][i].do \in Verbs
                /\ todo[s][i].at \in Path /\ todo[s][i].to \in Path
                /\ todo[s][i].node \in Node

-----------------------------------------------------------------------------
(* The statements of the operations *)

AllPrefixes(do, p, n) == [i \in 1..n |-> On(do, SubSeq(p, 1, i))]

Parents(p) == AllPrefixes("parent", p, Len(p) - 1)       \* ensureParents
MkdirP(p)  == AllPrefixes("level", p, Len(p))            \* mkdir, recursive

WriteNew(p, text) == Parents(p) \o <<Put("create", p, File(text))>>

WriteSteps(p, text) ==
    IF Is(row, p, "none") THEN WriteNew(p, text)
    ELSE <<Put("update", p, File(text))>>

\* New content goes through writeFile, which looks for the file once more.
AppendForgetsNewText(c) ==
    IF Is(row, c.at, "none") THEN <<Put("rewrite", c.at, row[c.at])>>
    ELSE <<Put("update", c.at, File(row[c.at].text))>>

AppendSteps(c) ==
    IF Is(row, c.at, "none") THEN <<Put("rewrite", c.at, File({c.chunk}))>>
    ELSE <<Put("update", c.at, File(row[c.at].text \cup {c.chunk}))>>

DeleteTreeTopDown(p) == <<On("deleteRow", p), On("deleteBelow", p)>>
DeleteTree(p)        == <<On("deleteBelow", p), On("deleteRow", p)>>

RmSteps(c) ==
    IF Is(row, c.at, "file") THEN <<On("deleteFile", c.at)>>
    ELSE IF c.recursive THEN DeleteTree(c.at) \o <<On("sweep", c.at)>>
    ELSE <<On("rmdir", c.at)>>

MvFileOnly(c) ==
    Parents(c.to) \o <<On("deleteRow", c.to), FromTo("rename", c.at, c.to)>>

MvByDeleteAndInsert(c) ==
    Parents(c.to) \o <<On("deleteRow", c.to), On("deleteRow", c.at),
                      Put("create", c.to, row[c.at])>>

MvSteps(c) ==
    Parents(c.to) \o <<On("deleteRow", c.to), FromTo("rename", c.at, c.to)>>
    \o IF Is(row, c.at, "dir") THEN <<FromTo("renameBelow", c.at, c.to)>> ELSE <<>>

CpSteps(c) ==
    IF Is(row, c.at, "dir") THEN <<FromTo("copyDir", c.at, c.to)>>
    ELSE Parents(c.to) \o <<Put("copyTo", c.to, row[c.at])>>

\* What an operation does after its first SELECT, unless that makes it throw.
Steps(c) ==
    CASE c.op = "write"  -> WriteSteps(c.at, {c.chunk})
      [] c.op = "append" -> AppendSteps(c)
      [] c.op = "mkdir"  -> IF c.recursive THEN MkdirP(c.at)
                            ELSE <<Put("create", c.at, Dir)>>
      [] c.op = "rm"     -> RmSteps(c)
      [] c.op = "mv"     -> MvSteps(c)
      [] c.op = "cp"     -> CpSteps(c)

\* copyDirRecursive once the children of the directory are listed
CopyChildren(s) ==
    LET One(q) == LET r == Moved(q, s.at, s.to) IN
            IF Is(row, q, "dir") THEN FromTo("copyDir", q, r)
            ELSE Put("createOrUpdate", r, row[q])
        kids == SetToSeq(Children(row, s.at))
    IN  [i \in 1..Len(kids) |-> One(kids[i])]

-----------------------------------------------------------------------------
(* Calls and statements *)

Do(s, do) == todo[s] # <<>> /\ Head(todo[s]).do = do

Goes(s, steps) ==
    /\ todo' = [todo EXCEPT ![s] = steps]
    /\ UNCHANGED <<call, failed, before>>

Continues(s, steps) == Goes(s, steps \o Tail(todo[s]))

Throws(s) ==
    /\ todo' = [todo EXCEPT ![s] = <<>>]
    /\ failed' = [failed EXCEPT ![s] = TRUE]
    /\ UNCHANGED <<row, call, before>>

Set(p, node) == row' = [row EXCEPT ![p] = node]

Begin(s, c) ==
    /\ call[s] = Nothing
    /\ OnlyProper => Proper(c, row)
    /\ call' = [call EXCEPT ![s] = c]
    /\ todo' = [todo EXCEPT ![s] = <<On("call", c.at)>>]
    /\ before' = IF Shell = {s} THEN row ELSE NoRows
    /\ UNCHANGED <<row, failed>>

Return(s) ==
    /\ call[s] # Nothing /\ todo[s] = <<>>
    /\ call' = [call EXCEPT ![s] = Nothing]
    /\ failed' = [failed EXCEPT ![s] = FALSE]
    /\ before' = NoRows
    /\ UNCHANGED <<row, todo>>

\* The first getFile, and the errors it leads to. mkdir looks at the parent.
Refused(c) ==
    \/ c.op \in {"write", "append"} /\ Is(row, c.at, "dir")
    \/ c.op = "mkdir" /\ ~c.recursive /\ ~Is(row, Parent(c.at), "dir")
    \/ c.op \in {"rm", "mv", "cp"} /\ Is(row, c.at, "none")
    \/ c.op = "cp" /\ Is(row, c.at, "dir") /\ ~c.recursive

FirstSelect(s) ==
    /\ Do(s, "call")
    /\ IF Refused(call[s]) THEN Throws(s)
       ELSE Goes(s, Steps(call[s])) /\ UNCHANGED row

\* getFile and, if there is no row, createFile, whose error is ignored.
EnsureParent(s) ==
    /\ Do(s, "parent")
    /\ LET p == Head(todo[s]).at IN
          IF Is(row, p, "none") THEN Set(p, Dir) ELSE UNCHANGED row
    /\ Continues(s, <<>>)

\* one round of the loop of mkdir -p
Level(s) ==
    /\ Do(s, "level")
    /\ LET p == Head(todo[s]).at IN
          IF Is(row, p, "file") THEN Throws(s)
          ELSE /\ IF Is(row, p, "none") THEN Set(p, Dir) ELSE UNCHANGED row
               /\ Continues(s, <<>>)

\* appendFile's call of writeFile, and the getFile of that
Rewrite(s) ==
    /\ Do(s, "rewrite")
    /\ LET st == Head(todo[s]) IN
          IF Is(row, st.at, "dir") THEN Throws(s)
          ELSE Continues(s, WriteSteps(st.at, st.node.text)) /\ UNCHANGED row

CreateReplaces(s) ==
    /\ Do(s, "create")
    /\ Set(Head(todo[s]).at, Head(todo[s]).node) /\ Continues(s, <<>>)

\* createFile: its SELECT or the primary key refuses a path that is taken.
Create(s) ==
    /\ Do(s, "create")
    /\ LET st == Head(todo[s]) IN
          IF Is(row, st.at, "none") THEN Set(st.at, st.node) /\ Continues(s, <<>>)
          ELSE Throws(s)

\* The UPDATE of content alone: no row, no effect; a directory stays one.
UpdateContent(p, node) ==
    IF Is(row, p, "file") THEN Set(p, node) ELSE UNCHANGED row

Update(s) ==
    /\ Do(s, "update")
    /\ UpdateContent(Head(todo[s]).at, Head(todo[s]).node)
    /\ Continues(s, <<>>)

\* cp of a file: the getFile of the destination decides between two statements.
CopyTo(s) ==
    /\ Do(s, "copyTo")
    /\ LET st == Head(todo[s]) IN
          Continues(s, <<Put(IF Is(row, st.at, "none") THEN "create" ELSE "update",
                             st.at, st.node)>>)
    /\ UNCHANGED row

\* copyDirRecursive: mkdir -p of the destination, then the children.
CopyDir(s) ==
    /\ Do(s, "copyDir")
    /\ LET st == Head(todo[s]) IN
          Continues(s, MkdirP(st.to) \o <<FromTo("list", st.at, st.to)>>)
    /\ UNCHANGED row

List(s) ==
    /\ Do(s, "list")
    /\ Continues(s, CopyChildren(Head(todo[s])))
    /\ UNCHANGED row

\* createFile, and updateFileContent in its catch
CreateOrUpdate(s) ==
    /\ Do(s, "createOrUpdate")
    /\ LET st == Head(todo[s]) IN
          IF Is(row, st.at, "none")
          THEN Set(st.at, st.node) /\ Continues(s, <<>>)
          ELSE Continues(s, <<Put("update", st.at, st.node)>>) /\ UNCHANGED row

LikeAtAnyLevel(p, q) ==
    p # Root /\ \E i \in 1..Len(q) - 1 : q[i] = Last(p)

\* path LIKE p || '/%', the names of p unescaped. (For / that is '//%'.)
LikeBelow(p, q) == p # Root /\ Matches(p, q)

DeleteBelow(s) ==
    /\ Do(s, "deleteBelow")
    /\ LET p == Head(todo[s]).at IN
          row' = [q \in Path |-> IF LikeBelow(p, q) THEN Absent ELSE row[q]]
    /\ Continues(s, <<>>)

DeleteRow(s) ==
    /\ Do(s, "deleteRow")
    /\ Set(Head(todo[s]).at, Absent)
    /\ Continues(s, <<>>)

\* deleteDirectory looks for children and deletes in a second statement. rmdir
\* throws what that throws, rm -r runs it after deleteTree and ignores it.
Rmdir(s) ==
    /\ Do(s, "rmdir")
    /\ LET p == Head(todo[s]).at IN
          IF Children(row, p) # {} THEN Throws(s)
          ELSE Continues(s, <<On("deleteDir", p)>>) /\ UNCHANGED row

Sweep(s) ==
    /\ Do(s, "sweep")
    /\ LET p == Head(todo[s]).at IN
          Continues(s, IF Children(row, p) # {} THEN <<>> ELSE <<On("deleteDir", p)>>)
    /\ UNCHANGED row

DeleteDir(s) ==
    /\ Do(s, "deleteDir")
    /\ LET p == Head(todo[s]).at IN
          \/ Is(row, p, "dir") /\ Set(p, Absent) /\ Continues(s, <<>>)
          \/ ~Is(row, p, "dir") /\ call[s].recursive
                /\ Continues(s, <<>>) /\ UNCHANGED row
          \/ ~Is(row, p, "dir") /\ ~call[s].recursive /\ Throws(s)

DeleteFile(s) ==
    /\ Do(s, "deleteFile")
    /\ LET p == Head(todo[s]).at IN
          IF Is(row, p, "file") THEN Set(p, Absent) /\ Continues(s, <<>>)
          ELSE Throws(s)

\* The UPDATE of path: refused by the primary key if the new path is taken.
Rename(s) ==
    /\ Do(s, "rename")
    /\ LET st == Head(todo[s]) IN
          IF Is(row, st.at, "none") THEN Continues(s, <<>>) /\ UNCHANGED row
          ELSE IF ~Is(row, st.to, "none") THEN Throws(s)
          ELSE /\ row' = [row EXCEPT ![st.to] = row[st.at], ![st.at] = Absent]
               /\ Continues(s, <<>>)

\* renameTree. The primary key refuses two rows with one path, and one row after
\* the other: whether a path that another matching row is about to leave can be
\* taken depends on the order in which the server updates them.
RenameBelow(s) ==
    /\ Do(s, "renameBelow")
    /\ LET st == Head(todo[s])
           moving == {q \in Path : LikeBelow(st.at, q) /\ ~Is(row, q, "none")}
           goal(q) == Respelt(q, st.at, st.to)
           shared(q) == \E r \in moving : r # q /\ goal(r) = goal(q)
           taken(q) == goal(q) # q /\ ~Is(row, goal(q), "none")
           mayFail == \E q \in moving : shared(q) \/ taken(q)
           mustFail == \E q \in moving : shared(q) \/ (taken(q) /\ goal(q) \notin moving)
       IN \/ mayFail /\ Throws(s)
          \/ /\ ~mustFail
             /\ row' = [p \in Path |->
                    IF \E q \in moving : goal(q) = p
                    THEN row[CHOOSE q \in moving : goal(q) = p]
                    ELSE IF p \in moving THEN Absent ELSE row[p]]
             /\ Continues(s, <<>>)

Statement(s) ==
    \/ FirstSelect(s) \/ EnsureParent(s) \/ Level(s) \/ Rewrite(s) \/ Create(s)
    \/ Update(s) \/ CopyTo(s) \/ CopyDir(s) \/ List(s) \/ CreateOrUpdate(s)
    \/ DeleteBelow(s) \/ DeleteRow(s) \/ Rmdir(s) \/ Sweep(s) \/ DeleteDir(s)
    \/ DeleteFile(s) \/ Rename(s) \/ RenameBelow(s)

-----------------------------------------------------------------------------
(* Statements that fail: they change no row, and the code goes on all the same, *)
(* goes on as if there were no such row, or throws.                            *)

\* ensureParents, mkdir -p and the second half of rm -r have empty catches.
Ignored(c, st) == \/ st.do \in {"parent", "level", "sweep"}
                  \/ st.do = "deleteDir" /\ c.recursive

\* A look-up, or an attempt to create, the failure of which means "no such row",
\* or "it is there already".
Misread(c, st) == \/ st.do \in {"rewrite", "copyTo", "createOrUpdate"}
                  \/ st.do = "call" /\ c.op \in {"write", "append"}

\* Steps of an operation without a statement
Silent(c, st) == st.do = "copyDir" \/ (st.do = "call" /\ c.op = "mkdir" /\ c.recursive)

AfterMisreading(c, st) ==
    CASE st.do = "call" /\ c.op = "write"  -> WriteNew(c.at, {c.chunk})
      [] st.do = "call" /\ c.op = "append" -> <<Put("rewrite", c.at, File({c.chunk}))>>
      [] st.do = "rewrite"                 -> WriteNew(st.at, st.node.text)
      [] st.do = "copyTo"                  -> <<Put("create", st.at, st.node)>>
      [] st.do = "createOrUpdate"          -> <<Put("update", st.at, st.node)>>

StatementFails(s) ==
    /\ Unreliable /\ todo[s] # <<>> /\ ~Silent(call[s], Head(todo[s]))
    /\ LET c  == call[s]
           st == Head(todo[s])
       IN \/ Ignored(c, st) /\ Continues(s, <<>>) /\ UNCHANGED row
          \/ Misread(c, st) /\ Continues(s, AfterMisreading(c, st)) /\ UNCHANGED row
          \/ ~Ignored(c, st) /\ ~Misread(c, st) /\ Throws(s)

\* The seeded root and any tree syncFromFs has made of a real home.
Init ==
    /\ row \in {t \in Tree : Shaped(t)}
    /\ call = [s \in Shell |-> Nothing]
    /\ todo = [s \in Shell |-> <<>>]
    /\ failed = [s \in Shell |-> FALSE]
    /\ before = NoRows

Next ==
    \E s \in Shell :
        (\E c \in Requests : Begin(s, c)) \/ Statement(s) \/ StatementFails(s) \/ Return(s)

Spec == Init /\ [][Next]_vars

-----------------------------------------------------------------------------
(* Properties *)

Finished(s) == call[s] # Nothing /\ todo[s] = <<>>

\* If no statement fails and names are plain, a shell that has the workspace to
\* itself gets, for every operation, the tree and the outcome that the operation
\* has as one indivisible step.
ResultAsSpecified ==
    \A s \in Shell : Finished(s) =>
        /\ row = Result(call[s], before)
        /\ failed[s] = Fails(call[s], before)

\* If no statement fails and names are plain: wherever a shell dies in the middle
\* of an operation, mv excepted, the rows are still a tree: no entry without its
\* directory (rm -r deletes the root of the tree last, the writes create from the
\* top).
ShapedUnlessMoving == (\A s \in Shell : call[s].op # "mv") => Shaped(row)

\* Wherever a shell dies in the middle of mv, and whichever of its statements
\* fails, every file it was moving to another path is there with its content,
\* under the old path or the new one. (A file moved onto itself is lost:
\* renameFile deletes what is at the destination first.)
MoveSparesSource ==
    \A s \in Shell : call[s].op = "mv" /\ call[s].to # call[s].at =>
        \A q \in Within(call[s].at) : Is(before, q, "file") =>
            \/ row[q] = before[q]
            \/ row[Moved(q, call[s].at, call[s].to)] = before[q]

\* Places an operation may change: its paths and all below them, and, as rm -r
\* and mv take the name for a LIKE pattern, what that matches and, for mv, where
\* a match ends up.
Covers(c, p) ==
    \/ p \in Within(Target(c))
    \/ c.op = "mv" /\ p \in Within(c.at)
    \/ c.op \in {"rm", "mv"} /\ Matches(c.at, p)
    \/ c.op = "mv" /\ \E q \in Path : Matches(c.at, q) /\ p = Respelt(q, c.at, c.to)

\* "Delete a directory and all its descendants", "Rename a directory tree":
\* whatever other shells do at the same time, and whatever fails, a row changes
\* only in a place an operation under way covers, or appears as a missing
\* directory above its path.
OthersUntouched ==
    [][\A p \in Path : row'[p] # row[p] =>
          \E s \in Shell :
             \/ Covers(call[s], p)
             \/ p \in Above(Target(call[s])) /\ row[p] = Absent /\ row'[p] = Dir]_vars

\* What exists is replaced by nothing but an update of a file's content: of two
\* shells that create one path at the same time, one fails (mkdir as a lock).
\* (A row that a mv moves away may make room for another that it moves.)
CreatesAreExclusive ==
    [][\A p \in Path :
          row[p] # Absent /\ row'[p] # Absent /\ row'[p] # row[p] =>
              \E s \in Shell : /\ todo'[s] # todo[s]
                               /\ \/ Do(s, "update") /\ Is(row, p, "file") /\ Is(row', p, "file")
                                  \/ Do(s, "renameBelow") /\ Matches(call[s].at, p)]_vars

=============================================================================
