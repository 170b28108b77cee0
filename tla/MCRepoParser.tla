---------------------------- MODULE MCRepoParser ----------------------------
(* RepoParser for TLC: the grammars, reduced to what the parsers tell      *)
(* apart.  Kinds all walks pass through are left out, so that a method of  *)
(* `export default { data() {..} }` stands directly below its program, and *)
(* a function of a default value, or of the length of an array type,       *)
(* directly below the parameters.                                          *)
EXTENDS RepoParser

CONSTANTS s1, s2

MCDotted == {s1}

MCRoot == [rust |-> "source_file", python |-> "module", typescript |-> "program"]

Below(parents, children) == parents \X children

MCGrammar == [
    rust |-> UNION {
        Below({"source_file"}, {"function_item", "impl_item", "struct_item"}),
        Below({"impl_item", "parameters"}, {"function_item"}),
        Below({"function_item"}, {"parameters", "block"}),
        Below({"block"}, {"function_item", "call_expression"})},
    python |-> UNION {
        Below({"module"}, {"function_definition", "class_definition",
                           "decorated_definition"}),
        Below({"function_definition", "class_definition"}, {"block"}),
        Below({"function_definition"}, {"parameters"}),
        Below({"parameters"}, {"call"}),
        Below({"block"}, {"function_definition", "call"}),
        Below({"decorated_definition"}, {"call", "function_definition", "class_definition"})},
    typescript |-> UNION {
        Below({"program"}, {"function_declaration", "class_declaration",
                            "lexical_declaration", "method_definition"}),
        Below({"statement_block"}, {"function_declaration", "lexical_declaration",
                                    "interface_declaration", "call_expression"}),
        Below({"function_declaration", "method_definition", "arrow_function"},
              {"statement_block"}),
        Below({"function_declaration"}, {"formal_parameters"}),
        Below({"formal_parameters"}, {"function_declaration"}),
        Below({"class_declaration", "class"}, {"class_body", "class_heritage"}),
        Below({"class_heritage"}, {"method_definition"}),
        Below({"class_body"}, {"method_definition"}),
        Below({"lexical_declaration"}, {"variable_declarator"}),
        Below({"variable_declarator"}, {"arrow_function", "class", "call_expression"})}]

MCNameless == {"class", "call_expression"}
=============================================================================
