----------------------------- MODULE SyntaxTree -----------------------------
(***************************************************************************)
(* The syntax trees that tree-sitter hands to fossil-indexer: every tree   *)
(* the grammars of the three languages allow, up to a size.  A tree is the *)
(* sequence of its nodes in the order of a depth-first walk, so a node's   *)
(* number is smaller than those of its descendants.  It grows by one node  *)
(* at a time, below the last node or one of its ancestors.                 *)
(*                                                                         *)
(* Abstracted: a name is known by the node it names, text by its rows;     *)
(* `readable` says whether the code finds the name of a definition (its    *)
(* field "name") or of a callee (an identifier or the last part of a path).*)
(***************************************************************************)
EXTENDS Naturals, Sequences, FiniteSetsExt

CONSTANTS
    Lang,       \* languages: "rust", "python", "typescript"
    Root,       \* the root kind of each language
    Grammar,    \* per language: <<parent kind, child kind>>
    Nameless,   \* the kinds whose name may be missing
    MaxNodes,   \* bound on the size of a tree
    MaxRow      \* bound on its rows, counted from 0

ASSUME TreeAssumption ==
    /\ Lang \subseteq {"rust", "python", "typescript"}
    /\ Lang \subseteq DOMAIN Root \cap DOMAIN Grammar
    /\ MaxNodes \in Nat \ {0} /\ MaxRow \in Nat

VARIABLES
    lang,       \* the language of the file
    nodes       \* its tree

treeVars == <<lang, nodes>>

Kinds == UNION {{Root[l]} \cup {e[2] : e \in Grammar[l]} : l \in Lang}

\* Rows count from 0, lines from 1.
Node == [kind : Kinds, parent : 0 .. MaxNodes, readable : BOOLEAN,
         first : 0 .. MaxRow, last : 0 .. MaxRow]

RootNode(l) == [kind |-> Root[l], parent |-> 0, readable |-> TRUE, first |-> 0, last |-> 0]

Children(t, i) == {k \in DOMAIN t : t[k].parent = i}
Rows(t, i) == t[i].first .. t[i].last

\* The node itself, its parent, and so on up to the root.
Lineage(t, i) ==
    LET up[k \in DOMAIN t] == {k} \cup (IF k = 1 THEN {} ELSE up[t[k].parent])
    IN  up[i]

TreeTypeOK ==
    /\ lang \in Lang
    /\ nodes \in Seq(Node) /\ Len(nodes) \in 1 .. MaxNodes
    /\ \A i \in DOMAIN nodes : nodes[i].parent < i /\ (nodes[i].parent = 0 <=> i = 1)
    /\ \A i \in DOMAIN nodes, k \in DOMAIN nodes :
          i \in Lineage(nodes, k) => Rows(nodes, k) \subseteq Rows(nodes, i)

InitTree ==
    /\ lang \in Lang
    /\ nodes = <<RootNode(lang)>>

\* Mutant: the nodes above do not grow with it.
AddNodeMutant(k, p, readable, row) ==
    /\ Len(nodes) < MaxNodes
    /\ <<nodes[p].kind, k>> \in Grammar[lang]
    /\ row \in {nodes[Len(nodes)].last, nodes[Len(nodes)].last + 1}
    /\ nodes' = Append(nodes, [kind |-> k, parent |-> p, readable |-> readable,
                               first |-> row, last |-> row])
    /\ UNCHANGED lang

\* The new node starts on the row where the text has come to or on the next one.
AddNode(k, p, readable, row) ==
    /\ Len(nodes) < MaxNodes
    /\ <<nodes[p].kind, k>> \in Grammar[lang]
    /\ k \in Nameless \/ readable
    /\ row \in {nodes[1].last, nodes[1].last + 1}
    /\ LET node == [kind |-> k, parent |-> p, readable |-> readable,
                    first |-> row, last |-> row]
           lineage == Lineage(nodes, p)
           above == [i \in DOMAIN nodes |->
                        IF i \in lineage THEN [nodes[i] EXCEPT !.last = row]
                                         ELSE nodes[i]]
       IN  nodes' = Append(above, node)
    /\ UNCHANGED lang

GrowTree ==
    \E p \in Lineage(nodes, Len(nodes)), k \in {e[2] : e \in Grammar[lang]} :
        \E readable \in BOOLEAN, row \in 0 .. MaxRow : AddNode(k, p, readable, row)
=============================================================================
