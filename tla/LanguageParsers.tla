-------------------------- MODULE LanguageParsers --------------------------
(***************************************************************************)
(* The parsers of fossil-indexer/src/languages: one walk over the tree for *)
(* symbols and one for call edges.  A recursive walk is a function on the  *)
(* nodes: what it brings to a node follows from what it brought to the     *)
(* node's parent.                                                          *)
(***************************************************************************)
EXTENDS SyntaxTree

NoSymbol == "none"      \* the walk passes a node that is no symbol
NoCaller == 0           \* the walk is inside no function

----------------------------------------------------------------------------
(* Rust.                                                                   *)

\* Of a function the walk enters the body only.
RustEnters(parent, child) == parent = "function_item" => child = "block"

\* impl_item hands its type to all that stands in it, the trait's own to nobody.
RustClasses == {"impl_item"}

RustSymbolKind(i, inside) ==
    CASE nodes[i].kind = "function_item" -> IF inside THEN "Method" ELSE "Function"
      [] nodes[i].kind = "struct_item" -> "Struct"
      [] nodes[i].kind = "enum_item" -> "Enum"
      [] nodes[i].kind = "trait_item" -> "Trait"
      [] OTHER -> NoSymbol

RustCallers == {"function_item"}
RustCalls == {"call_expression"}

----------------------------------------------------------------------------
(* Python.                                                                 *)

PythonEnters(parent, child) ==
    /\ parent \in {"function_definition", "class_definition"} => child = "block"
    /\ parent = "decorated_definition" =>
          child \in {"function_definition", "class_definition"}

PythonClasses == {"class_definition"}

PythonSymbolKind(i, inside) ==
    CASE nodes[i].kind = "function_definition" -> IF inside THEN "Method" ELSE "Function"
      [] nodes[i].kind = "class_definition" -> "Class"
      [] OTHER -> NoSymbol

PythonCallers == {"function_definition"}
PythonCalls == {"call"}

----------------------------------------------------------------------------
(* TypeScript and JavaScript.                                              *)

\* Of a method and of an interface the walk enters nothing.
TypeScriptEnters(parent, child) ==
    /\ parent = "function_declaration" => child = "statement_block"
    /\ parent \in {"class_declaration", "class"} => child = "class_body"
    /\ parent \notin {"method_definition", "interface_declaration"}

TypeScriptClasses == {"class_declaration", "class"}

\* `const f = () => ..`: the declarator is the symbol, found from its declaration.
IsArrowFunction(i) ==
    /\ nodes[i].kind = "variable_declarator"
    /\ nodes[nodes[i].parent].kind \in {"lexical_declaration", "variable_declaration"}
    /\ \E k \in Children(nodes, i) : nodes[k].kind = "arrow_function"

TypeScriptSymbolKind(i, inside) ==
    CASE nodes[i].kind = "function_declaration" -> IF inside THEN "Method" ELSE "Function"
      [] nodes[i].kind = "method_definition" -> "Method"
      [] nodes[i].kind \in {"class_declaration", "class"} -> "Class"
      [] nodes[i].kind = "interface_declaration" -> "Interface"
      [] IsArrowFunction(i) -> "Function"
      [] OTHER -> NoSymbol

TypeScriptCallers == {"function_declaration", "method_definition"}
TypeScriptCalls == {"call_expression"}

\* In each of the three grammars a function has a name.
ASSUME NamelessAssumption ==
    Nameless \cap (RustCallers \cup PythonCallers \cup TypeScriptCallers) = {}

----------------------------------------------------------------------------
(* The parser of the file's language.                                      *)

\* Mutant: a decorator is walked through for classes only.
EntersMutant(parent, child) ==
    CASE lang = "rust" -> RustEnters(parent, child)
      [] lang = "python" -> /\ PythonEnters(parent, child)
                            /\ parent = "decorated_definition" => child = "class_definition"
      [] lang = "typescript" -> TypeScriptEnters(parent, child)

Enters(parent, child) ==
    CASE lang = "rust" -> RustEnters(parent, child)
      [] lang = "python" -> PythonEnters(parent, child)
      [] lang = "typescript" -> TypeScriptEnters(parent, child)

Classes ==
    CASE lang = "rust" -> RustClasses
      [] lang = "python" -> PythonClasses
      [] lang = "typescript" -> TypeScriptClasses

SymbolKind(i, inside) ==
    CASE lang = "rust" -> RustSymbolKind(i, inside)
      [] lang = "python" -> PythonSymbolKind(i, inside)
      [] lang = "typescript" -> TypeScriptSymbolKind(i, inside)

Callers ==
    CASE lang = "rust" -> RustCallers
      [] lang = "python" -> PythonCallers
      [] lang = "typescript" -> TypeScriptCallers

Calls ==
    CASE lang = "rust" -> RustCalls
      [] lang = "python" -> PythonCalls
      [] lang = "typescript" -> TypeScriptCalls

\* The walk for symbols: which nodes it reaches, and whether inside a class.
SymbolWalk ==
    LET at[i \in DOMAIN nodes] ==
            IF i = 1 THEN [reached |-> TRUE, inside |-> FALSE]
            ELSE LET p == nodes[i].parent
                 IN  [reached |-> at[p].reached /\ Enters(nodes[p].kind, nodes[i].kind),
                      inside |-> at[p].inside \/ nodes[p].kind \in Classes]
    IN  at

Symbols ==
    LET walk == SymbolWalk
    IN  {[node |-> i, kind |-> SymbolKind(i, walk[i].inside),
          line_start |-> nodes[i].first + 1, line_end |-> nodes[i].last + 1] :
            i \in {k \in DOMAIN nodes :
                      /\ walk[k].reached /\ nodes[k].readable
                      /\ SymbolKind(k, walk[k].inside) # NoSymbol}}

\* Mutant: current_fn.or(fn_name), the outermost function wins.
CallerOfMutant(own, inherited) == IF inherited # NoCaller THEN inherited ELSE own

\* fn_name.or(current_fn)
CallerOf(own, inherited) == IF own # NoCaller THEN own ELSE inherited

\* The walk for calls goes everywhere.
CallerWalk ==
    LET at[i \in DOMAIN nodes] ==
            LET own == IF nodes[i].kind \in Callers /\ nodes[i].readable THEN i ELSE NoCaller
            IN  CallerOf(own, IF i = 1 THEN NoCaller ELSE at[nodes[i].parent])
    IN  at

CallEdges ==
    LET walk == CallerWalk
    IN  {[call |-> i, caller |-> walk[i], line |-> nodes[i].first + 1] :
            i \in {k \in DOMAIN nodes :
                      /\ nodes[k].kind \in Calls /\ nodes[k].readable
                      /\ walk[k] # NoCaller}}

----------------------------------------------------------------------------
(* Properties.                                                             *)

\* A call edge runs from the innermost function its call stands in, and every call
\* with a name that stands in a function has one, whatever is nested in what:
\* closures, classes in functions, functions in methods.
CallerIsInnermost ==
    \A i \in DOMAIN nodes :
        LET around == {k \in Lineage(nodes, i) : nodes[k].kind \in Callers}
            mine == {e.caller : e \in {e \in CallEdges : e.call = i}}
        IN  mine = IF nodes[i].kind \in Calls /\ nodes[i].readable /\ around # {}
                   THEN {Max(around)} ELSE {}

\* Where symbols are looked for: of a function and of a class in the body only, of a
\* decorated definition not in its decorators, of a method and an interface nowhere.
SearchedParts == [
    rust |-> [function_item |-> {"block"}],
    python |-> [function_definition |-> {"block"}, class_definition |-> {"block"},
                decorated_definition |-> {"function_definition", "class_definition"}],
    typescript |-> [function_declaration |-> {"statement_block"},
                    class_declaration |-> {"class_body"}, class |-> {"class_body"},
                    method_definition |-> {}, interface_declaration |-> {}]]

IsUnsearched(k) ==
    LET parts == SearchedParts[lang]
        parent == nodes[nodes[k].parent].kind
    IN  k # 1 /\ parent \in DOMAIN parts /\ nodes[k].kind \notin parts[parent]

\* The two walks agree as far as they can: the caller of an edge has a symbol in the
\* file, to which the relations of a hit can be traced and whose lines hold the call,
\* except exactly for the functions that stand where no symbol is looked for: in a
\* TypeScript method, in a default parameter, in the `extends` of a class.
CallersAreSymbols ==
    \A e \in CallEdges :
        LET found == {s \in Symbols : s.node = e.caller}
            unsearched == {k \in Lineage(nodes, e.caller) : IsUnsearched(k)}
        IN  /\ found = {} <=> unsearched # {}
            /\ \A s \in found : s.line_start <= e.line /\ e.line <= s.line_end
=============================================================================
