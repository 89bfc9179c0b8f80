----------------------------- MODULE ToolAccess -----------------------------
(***************************************************************************)
(* The resource accesses a tool call declares before it runs, and the      *)
(* question the scheduler asks of them: may these two calls overlap?       *)
(* (packages/agent-core/src/loop/tool-access.ts)                           *)
(*                                                                         *)
(* A raw path is the sequence of its segments as written, split at either  *)
(* separator: an empty segment is what a leading, doubled or trailing      *)
(* separator leaves.  Fold is what toLowerCase does to a segment.  The     *)
(* empty string is never given as a path and is not distinguished from "/".*)
(***************************************************************************)
EXTENDS Sequences, SequencesExt, Selection

CONSTANTS
    Name,   \* the segments paths are written with, the empty one excluded
    Fold    \* [Name -> Name], the case folding of a segment

ASSUME FoldAssumption ==
    /\ "" \notin Name
    /\ Fold \in [Name -> Name]
    /\ \A n \in Name : Fold[Fold[n]] = Fold[n]

RawPath == Seq(Name \cup {""})

Operations == {"read", "write", "readwrite", "search"}

\* The two kinds of access of the source's union type.
FileAccess(paths) ==
    [kind : {"file"}, operation : Operations, path : paths, recursive : BOOLEAN]
AllAccess == [kind |-> "all"]

-----------------------------------------------------------------------------
\* Separators collapse, a trailing one goes, a leading one stays (as the ""
\* that makes the path absolute), and every segment is folded.
normalizePath(p) ==
    LET named == Keeping(p, {i \in DOMAIN p : p[i] # ""})
        folded == [i \in DOMAIN named |-> Fold[named[i]]]
    IN  IF p # <<>> /\ Head(p) = "" THEN <<"">> \o folded ELSE folded

fileOperationWrites(op) == op \in {"write", "readwrite"}

fileOperationsConflict(left, right) ==
    fileOperationWrites(left) \/ fileOperationWrites(right)

\* Mutant: only the left access may be a tree.
fileAccessesOverlap_LeftOnly(left, right) ==
    LET leftPath == normalizePath(left.path)
        rightPath == normalizePath(right.path)
    IN  leftPath = rightPath \/ (left.recursive /\ IsStrictPrefix(leftPath, rightPath))

\* startsWith(prefix + "/") on normal forms is a strict prefix of segments.
fileAccessesOverlap(left, right) ==
    LET leftPath == normalizePath(left.path)
        rightPath == normalizePath(right.path)
    IN  \/ leftPath = rightPath
        \/ left.recursive /\ IsStrictPrefix(leftPath, rightPath)
        \/ right.recursive /\ IsStrictPrefix(rightPath, leftPath)

resourceAccessesConflict(left, right) ==
    \/ left.kind = "all"
    \/ right.kind = "all"
    \/ /\ fileOperationsConflict(left.operation, right.operation)
       /\ fileAccessesOverlap(left, right)

\* ToolAccesses.conflict: a call declares a list of accesses, here a set.
conflict(lefts, rights) ==
    \E left \in lefts, right \in rights : resourceAccessesConflict(left, right)

=============================================================================
