----------------------------- MODULE DiffMapping ----------------------------
(***************************************************************************)
(* integrations/diff_mapping.py: which lines of a changed file can carry   *)
(* an inline comment.  A patch is the sequence of its lines; a line is a   *)
(* hunk header with the two starting numbers, or has its marker: "+", "-", *)
(* " ", or another one for the remark about a missing final newline.  What *)
(* a line says after its marker plays no part, as long as str.splitlines   *)
(* and GitHub agree where it ends: no line holds a form feed or another of *)
(* the separators that Python counts as line ends and a diff does not.     *)
(***************************************************************************)
EXTENDS Integers, FiniteSets, Sequences, SequencesExt

CONSTANT NoPatch   \* ChangedFile.patch is None: binary, or too large to render

\* The lines of a patch.
Header(old, new) == [mark |-> "@@", old |-> old, new |-> new]
Line(mark) == [mark |-> mark, old |-> 0, new |-> 0]
IsHeader(l) == l.mark = "@@"
PatchLines == [mark : {"@@", "+", "-", " ", "\\"}, old : Nat, new : Nat]

ASSUME NoPatchIsNone == NoPatch \notin Seq(PatchLines)

\* Mutation of StepLine: a removed line counts in the new file as well.
StepLineRemovedCounts(walk, l) ==
    LET right == l.mark \in {"+", " "}
        left  == l.mark \in {"-", " "}
    IN  IF IsHeader(l)
        THEN [walk EXCEPT !.old = l.old, !.new = l.new, !.inHunk = TRUE]
        ELSE IF ~walk.inHunk THEN walk
        ELSE [walk EXCEPT
                !.right = IF right THEN @ \cup {walk.new} ELSE @,
                !.left  = IF left THEN @ \cup {walk.old} ELSE @,
                !.new   = IF right \/ left THEN @ + 1 ELSE @,
                !.old   = IF left THEN @ + 1 ELSE @]

\* One pass of the loop of _parse_patch.
StepLine(walk, l) ==
    LET right == l.mark \in {"+", " "}
        left  == l.mark \in {"-", " "}
    IN  IF IsHeader(l)
        THEN [walk EXCEPT !.old = l.old, !.new = l.new, !.inHunk = TRUE]
        ELSE IF ~walk.inHunk THEN walk
        ELSE [walk EXCEPT
                !.right = IF right THEN @ \cup {walk.new} ELSE @,
                !.left  = IF left THEN @ \cup {walk.old} ELSE @,
                !.new   = IF right THEN @ + 1 ELSE @,
                !.old   = IF left THEN @ + 1 ELSE @]

\* _parse_patch: the loop over the lines, and the two sets it returns.
ParsePatch(patch) ==
    LET walk[n \in 0..Len(patch)] ==
            IF n = 0
            THEN [old |-> 0, new |-> 0, inHunk |-> FALSE, right |-> {}, left |-> {}]
            ELSE StepLine(walk[n - 1], patch[n])
    IN  [right |-> walk[Len(patch)].right, left |-> walk[Len(patch)].left]

FileIndex(patch) ==
    IF patch = NoPatch THEN [right |-> {}, left |-> {}] ELSE ParsePatch(patch)

\* build_diff_index: a file listed twice has the index of its last entry.
DiffIndex(files) ==
    [name \in {files[i].name : i \in DOMAIN files} |->
        FileIndex(files[CHOOSE i \in DOMAIN files :
                            /\ files[i].name = name
                            /\ \A k \in DOMAIN files : files[k].name = name => k <= i].patch)]

\* Mutation of Anchor: comments are made on the new side only.
AnchorNewSideOnly(index, x) ==
    IF x.path \in DOMAIN index /\ x.line \in index[x.path].right
    THEN {[path |-> x.path, line |-> x.line, side |-> "RIGHT"]}
    ELSE {}

\* map_finding_to_anchor: the anchor as a set of at most one.  The new side is
\* looked up first; the empty set sends the finding to the summary.
Anchor(index, x) ==
    LET at(side) == {[path |-> x.path, line |-> x.line, side |-> side]}
    IN  IF x.path \notin DOMAIN index THEN {}
        ELSE IF x.line \in index[x.path].right THEN at("RIGHT")
        ELSE IF x.line \in index[x.path].left THEN at("LEFT")
        ELSE {}

-----------------------------------------------------------------------------
\* What GitHub accepts, stated without running counters: line n of a patch
\* has, on the side of the marks given, the number its hunk starts at plus the
\* lines of that side between the header and it.
HunkOf(patch, n) ==
    CHOOSE h \in 1..n : /\ IsHeader(patch[h])
                        /\ \A k \in (h + 1)..n : ~IsHeader(patch[k])

NumberOf(patch, n, marks, start) ==
    start + Cardinality({k \in (HunkOf(patch, n) + 1)..(n - 1) : patch[k].mark \in marks})

Commentable(patch) ==
    IF patch = NoPatch THEN {}
    ELSE LET shown(marks) == {n \in 1..Len(patch) :
                                /\ patch[n].mark \in marks
                                /\ \E h \in 1..n : IsHeader(patch[h])}
             new(n) == NumberOf(patch, n, {"+", " "}, patch[HunkOf(patch, n)].new)
             old(n) == NumberOf(patch, n, {"-", " "}, patch[HunkOf(patch, n)].old)
         IN  {[line |-> new(n), side |-> "RIGHT"] : n \in shown({"+", " "})}
             \cup {[line |-> old(n), side |-> "LEFT"] : n \in shown({"-", " "})}
=============================================================================
