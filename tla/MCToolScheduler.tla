-------------------------- MODULE MCToolScheduler ---------------------------
(***************************************************************************)
(* The scheduler on a small project tree: the root, a directory and a file *)
(* in it, spelled as tools spell them.  And the conflict test it relies on *)
(* against its reference meaning, for every pair of accesses over short    *)
(* paths.                                                                  *)
(***************************************************************************)
EXTENDS ToolScheduler

MCName == {"src", "SRC", "a.ts"}
MCFold == [n \in MCName |-> IF n = "SRC" THEN "src" ELSE n]

File(op, path, tree) ==
    [kind |-> "file", operation |-> op, path |-> path, recursive |-> tree]

\* none(): a resolved task; all(): a shell command; a file read, the same file
\* written under another spelling, and a search of the tree it is in.
MCAccessLists == {
    {},
    {AllAccess},
    {File("read", <<"", "src", "a.ts">>, FALSE)},
    {File("write", <<"", "SRC", "", "a.ts">>, FALSE)},
    {File("search", <<"", "src", "">>, TRUE)} }

-----------------------------------------------------------------------------
\* Absolute paths as written: one or two names under the root, in each case,
\* with or without a doubled or trailing separator.
Segments == {"src", "SRC", "b", ""}
Paths == {<<"", s>> : s \in Segments} \cup {<<"", s, t>> : s, t \in Segments}

\* The files under the root down to one level below the paths that are named.
Files ==
    LET Names == {"src", "b"}
    IN  {<<"">>} \cup {<<"", s>> : s \in Names}
                 \cup {<<"", s, t>> : s, t \in Names}
                 \cup {<<"", s, t, u>> : s, t, u \in Names}

Folded(s) == IF s = "SRC" THEN "src" ELSE s
Access == INSTANCE ToolAccess WITH
            Name <- Segments \ {""}, Fold <- [s \in Segments \ {""} |-> Folded(s)]

\* What an access reaches: its path, and what lies under it when recursive.
Reach(access) ==
    LET named == SelectSeq(access.path, LAMBDA s : s # "")
        root == <<"">> \o [i \in DOMAIN named |-> Folded(named[i])]
    IN  {f \in Files : f = root \/ (access.recursive /\ IsStrictPrefix(root, f))}

\* Two file accesses are taken to conflict exactly when one of them writes and
\* both reach a common file, however the case and the separators of their paths
\* are written (fileAccessesOverlap).  It is about the test alone: one look at
\* it, before any task is added, is enough.
ConflictIsSharedFile ==
    accesses = <<>> =>
        \A left, right \in Access!FileAccess(Paths) :
            Access!conflict({left}, {right}) <=>
                /\ {left.operation, right.operation} \cap {"write", "readwrite"} # {}
                /\ Reach(left) \cap Reach(right) # {}

=============================================================================
