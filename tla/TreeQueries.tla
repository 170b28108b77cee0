---------------------------- MODULE TreeQueries ----------------------------
(***************************************************************************)
(* Lines to nodes and back: analyze_migration looks for the definition     *)
(* around a changed line (fossil-indexer/src/migration.rs), and            *)
(* get_symbol_source cuts the lines of a symbol out of its file            *)
(* (fossil-server/src/tools.rs).                                           *)
(***************************************************************************)
EXTENDS LanguageParsers

NoNode == 0

\* saturating_sub
Minus(a, b) == IF a > b THEN a - b ELSE 0

StructuralKinds ==
    {"function_item", "function_declaration", "class_declaration",
     "method_definition", "impl_item", "lexical_declaration",
     "variable_declaration", "interface_declaration", "type_alias_declaration"}

\* Mutant: the node itself is looked at before its children.
FoundAtMutant(t, i, below) ==
    IF t[i].kind \in StructuralKinds THEN i
    ELSE IF below # {} THEN Min(below) ELSE NoNode

\* Of the children that have found something the first answers, else the node.
FoundAt(t, i, below) ==
    IF below # {} THEN Min(below)
    ELSE IF t[i].kind \in StructuralKinds THEN i ELSE NoNode

\* find_encompassing_node, from the node up what it finds below.
FindEncompassingNode(t, line) ==
    LET row == Minus(line, 1)
        find[i \in DOMAIN t] ==
            IF row \notin Rows(t, i) THEN NoNode
            ELSE FoundAt(t, i, {find[k] : k \in Children(t, i)} \ {NoNode})
    IN  find[1]

\* Mutant: the last of the nodes found.
SnippetMutant(t, lines) ==
    LET found == {FindEncompassingNode(t, l) : l \in lines} \ {NoNode}
    IN  IF found = {} THEN NoNode ELSE FindEncompassingNode(t, Max(lines))

\* The text shown for one side of a change: the node of the first of its lines
\* that has one.  git prints the lines of a file in ascending order.
Snippet(t, lines) ==
    LET hits == {l \in lines : FindEncompassingNode(t, l) # NoNode}
    IN  IF hits = {} THEN NoNode ELSE FindEncompassingNode(t, Min(hits))

\* extract_structural_diff: nothing, or a pattern of which a side may be empty.
StructuralDiff(before, after, removed, added) ==
    {p \in {<<Snippet(before, removed), Snippet(after, added)>>} : p # <<NoNode, NoNode>>}

\* Mutant: the lines are counted from the wrong end of the skipped part.
SliceMutant(count, start, end) ==
    LET skip == Minus(start, 1)
    IN  {r \in 0 .. count - 1 : r >= skip /\ r < skip + Minus(end, start)}

\* The rows of a file of `count` lines that get_symbol_source returns.
Slice(count, start, end) ==
    LET skip == Minus(start, 1)
    IN  {r \in 0 .. count - 1 : r >= skip /\ r < skip + Minus(end, skip)}

----------------------------------------------------------------------------
(* Properties.                                                             *)

LineCount == nodes[1].last + 1

\* What is found for a line is the definition around it: it contains the line,
\* no definition below it does, and it is missed only when there is none.
FoundIsInnermost ==
    \A line \in 1 .. LineCount :
        LET n == FindEncompassingNode(nodes, line)
            around == {i \in DOMAIN nodes : /\ nodes[i].kind \in StructuralKinds
                                            /\ line - 1 \in Rows(nodes, i)}
        IN  IF around = {} THEN n = NoNode
            ELSE /\ n \in around
                 /\ \A i \in around : n \in Lineage(nodes, i) => i = n

\* A change yields a pattern exactly when it touches a definition on either side,
\* and each side of it shows what stands around the first line of its own that does:
\* also when lines are only removed, or only added, and the other side shows nothing.
DiffShowsFirstDefinition ==
    LET around(line) == {i \in DOMAIN nodes : /\ nodes[i].kind \in StructuralKinds
                                              /\ line - 1 \in Rows(nodes, i)}
        touched == {line \in 1 .. LineCount : around(line) # {}}
        shows(n, side) == IF touched \cap side = {} THEN n = NoNode
                          ELSE n \in around(Min(touched \cap side))
    IN  \A removed \in SUBSET (1 .. LineCount) :
            LET added == (1 .. LineCount) \ removed
                diff == StructuralDiff(nodes, nodes, removed, added)
            IN  /\ diff = {} <=> touched = {}
                /\ \A p \in diff : shows(p[1], removed) /\ shows(p[2], added)

\* get_symbol_source, asked for the lines a symbol is stored with, returns the rows
\* of its node, all of them and no other.
SymbolSourceIsItsRows ==
    \A s \in Symbols :
        Slice(LineCount, s.line_start, s.line_end) = Rows(nodes, s.node)
=============================================================================
