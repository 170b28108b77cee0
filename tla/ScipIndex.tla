----------------------------- MODULE ScipIndex -----------------------------
(***************************************************************************)
(* parse_scip_index (fossil-indexer/src/scip.rs) on one document of an     *)
(* index.scip: documents do not influence each other.  The indexer that    *)
(* wrote the file is external; it appends the occurrences one by one.      *)
(*                                                                         *)
(* Abstracted: a symbol string is a model value of which only matters      *)
(* whether it ends with a dot, as those of functions and fields do.        *)
(***************************************************************************)
EXTENDS Naturals, Sequences, FiniteSets

CONSTANTS
    ScipSymbol,     \* the symbol strings of the document
    Dotted,         \* those that end with a dot
    MaxLine,        \* bound on the lines, counted from 0
    MaxOccurrences  \* bound on the occurrences

ASSUME ScipAssumption ==
    /\ Dotted \subseteq ScipSymbol
    /\ MaxLine \in Nat /\ MaxOccurrences \in Nat

VARIABLES
    occurrences,    \* of the document, in the order of the file
    shown           \* the symbols whose SymbolInformation has a display_name

scipVars == <<occurrences, shown>>

\* <<start line, start char, end char>>, or with an end line before the last.
ScipRange(l, m) == IF l = m THEN <<l, 0, 0>> ELSE <<l, 0, m, 0>>
Ranges == {<<>>} \cup {ScipRange(l, m) : l \in 0 .. MaxLine, m \in 0 .. MaxLine}
Occurrence == [symbol : ScipSymbol, definition : BOOLEAN, range : Ranges]

ScipTypeOK ==
    /\ occurrences \in Seq(Occurrence) /\ Len(occurrences) <= MaxOccurrences
    /\ shown \subseteq ScipSymbol

InitScip == occurrences = <<>> /\ shown \in SUBSET ScipSymbol

AppendOccurrence ==
    /\ Len(occurrences) < MaxOccurrences
    /\ \E symbol \in ScipSymbol, definition \in BOOLEAN, range \in Ranges :
          /\ Len(range) = 4 => range[1] < range[3]
          /\ occurrences' = Append(occurrences, [symbol |-> symbol,
                                definition |-> definition, range |-> range])
    /\ UNCHANGED shown

----------------------------------------------------------------------------
(* The parser.                                                             *)

LineStart(occ) == (IF occ.range = <<>> THEN 0 ELSE occ.range[1]) + 1
LineEnd(occ) == IF Len(occ.range) = 4 THEN occ.range[3] + 1 ELSE LineStart(occ)

Definitions == {i \in DOMAIN occurrences : occurrences[i].definition}
References == DOMAIN occurrences \ Definitions

\* What stands after the last dot: nothing, where the string ends with one.  A
\* "()." to be cut off is thus never left.
LastPart(symbol) == IF symbol \in Dotted THEN <<>> ELSE <<symbol>>

\* The name of a symbol; those of the two ends of an edge are their last parts.
ScipName(symbol) == IF symbol \in shown THEN <<"display_name", symbol>> ELSE LastPart(symbol)

ScipSymbols ==
    {[name |-> ScipName(occurrences[i].symbol), line_start |-> LineStart(occurrences[i]),
      line_end |-> LineEnd(occurrences[i])] : i \in Definitions}

\* Mutant: a definition is looked for on its first line only.
ContainsMutant(def, line) == line = LineStart(def)

\* The second loop computes the lines of a definition anew.
Contains(def, line) ==
    CASE def.range = <<>>    -> line = 1
      [] Len(def.range) = 4  -> def.range[1] + 1 <= line /\ line <= def.range[3] + 1
      [] OTHER               -> line = def.range[1] + 1

\* The loop over def_occurrences goes on: of those that contain the line the last.
EnclosingDef(line) ==
    LET around == {i \in Definitions : Contains(occurrences[i], line)}
    IN  {i \in around : \A k \in around : k <= i}

ScipEdges ==
    UNION {{[caller |-> LastPart(occurrences[d].symbol),
             callee |-> LastPart(occurrences[i].symbol),
             line |-> LineStart(occurrences[i])] :
                d \in EnclosingDef(LineStart(occurrences[i]))} : i \in References}

----------------------------------------------------------------------------
(* Properties.                                                             *)

\* Rows and edges agree, although they come from two loops: an edge stands on a line
\* of a stored symbol with the name of its caller, or with a display_name, and no
\* reference on a line of a stored symbol is without an edge.  Which of several
\* symbols around the line it is depends on their order in the file.
ScipEdgesStandInSymbols ==
    LET spans(s, line) == s.line_start <= line /\ line <= s.line_end
    IN  /\ \A e \in ScipEdges : \E s \in ScipSymbols :
              /\ spans(s, e.line)
              /\ s.name = e.caller \/ \E symbol \in shown : s.name = ScipName(symbol)
        /\ \A i \in References :
              LET line == LineStart(occurrences[i])
              IN  (\E s \in ScipSymbols : spans(s, line)) =>
                     \E e \in ScipEdges :
                        e.line = line /\ e.callee = LastPart(occurrences[i].symbol)
=============================================================================
