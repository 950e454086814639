----------------------------- MODULE JvmGrammars ----------------------------
(***************************************************************************)
(* Java, Apex, Kotlin, Scala, Gosu and Dart with Semgrep's constructs.     *)
(***************************************************************************)
EXTENDS GrammarDSL

(* semgrep-java *)

JavaStatements ==
  [semgrep_ellipsis |-> L("..."),
   semgrep_named_ellipsis |-> named_ellipsis_regex,
   primary_expression |->
     extended(<<"semgrep_ellipsis", "semgrep_named_ellipsis", "typed_metavariable", "deep_ellipsis">>),
   toplevel_typed_metavariable_declaration |->
     prec("right 1", seq(<<L("("), S("_type"), S("identifier"), L(")"), L("="), S("expression"), optional(L(";"))>>)),
   typed_metavariable_declaration |->
     prec("right", seq(<<L("("), S("_type"), S("identifier"), L(")"), L("="), S("expression"), L(";")>>)),
   statement |-> extended(<<"semgrep_ellipsis", "semgrep_named_ellipsis", "typed_metavariable_declaration">>)]

JavaProgram ==
  [program |-> extended(<<"constructor_declaration", "enum_declaration", "static_initializer",
                          "annotation_type_declaration", "expression", "partials",
                          "toplevel_typed_metavariable_declaration",
                          "toplevel_explicit_constructor_invocation">>),
   enum_body_declarations |-> extended(<<"semgrep_ellipsis">>),
   toplevel_explicit_constructor_invocation |->
     seq(<<choice(<<seq(<<optional(S("type_arguments")), choice(symbols(<<"this", "super">>))>>),
                    seq(<<choice(<<S("primary_expression")>>), L("."), optional(S("type_arguments")),
                          S("super")>>)>>),
           S("argument_list"), optional(L(";"))>>),
   interface_body |->
     seq(<<L("{"),
           repeat(choice(symbols(<<"constant_declaration", "enum_declaration", "method_declaration",
                                   "class_declaration", "interface_declaration", "record_declaration",
                                   "annotation_type_declaration", "semgrep_ellipsis">>) \o <<L(";")>>)),
           L("}")>>),
   annotation_type_element_declaration |-> extended(<<"semgrep_ellipsis">>)]

JavaMembers ==
  [field_access |->
     seq(<<choice(symbols(<<"primary_expression", "super">>)), optional(seq(<<L("."), S("super")>>)), L("."),
           choice(symbols(<<"identifier", "_reserved_identifier", "this">>) \o <<L("...")>>)>>),
   element_value_pair |-> extended(<<"semgrep_ellipsis">>),
   formal_parameter |-> extended(<<"semgrep_ellipsis", "semgrep_named_ellipsis">>),
   _class_body_declaration |-> extended(<<"semgrep_ellipsis", "semgrep_named_ellipsis">>),
   partials |-> choice(symbols(<<"partial_method", "annotation", "finally_clause", "partial_try_statement">>)),
   semgrep_metavariable |-> token("metavariable", metavariable_regex),
   deep_ellipsis |-> deep("expression"),
   typed_metavariable |-> seq(<<L("("), S("_type"), S("identifier"), L(")")>>),
   type_parameter |-> extended(<<"semgrep_ellipsis", "semgrep_named_ellipsis">>),
   catch_formal_parameter |-> extended(<<"semgrep_ellipsis">>)]

JavaPartials ==
  [for_statement |->
     seq(<<L("for"), L("("),
           choice(<<seq(<<choice(<<S("local_variable_declaration"),
                                   seq(<<commaSep(S("expression")), L(";")>>)>>),
                          optional(S("expression")), L(";"), commaSep(S("expression"))>>),
                    S("semgrep_ellipsis")>>),
           L(")"), S("statement")>>),
   partial_method |-> seq(<<optional(S("modifiers")), S("_method_header")>>),
   partial_try_statement |-> seq(<<L("try"), S("block")>>)]

java ==
  Extension("java", "program", {"interface_body", "field_access", "for_statement"},
    {{"primary_expression", "formal_parameter"}, {"primary_expression", "statement"},
     {"_type", "formal_parameter", "receiver_parameter"}, {"annotated_type", "receiver_parameter"},
     {"primary_expression", "element_value_pair"}, {"type_parameter", "_unannotated_type"}},
    JavaProgram @@ JavaStatements @@ JavaMembers @@ JavaPartials)

-----------------------------------------------------------------------------
(* semgrep-sfapex/apex; ci, commaJoined are tree-sitter-sfapex's *)

ApexPatterns ==
  [parser_output |->
     choice(<<repeat(S("statement"))>>
            \o symbols(<<"constructor_declaration", "expression", "annotation", "method_declaration">>)
            \o <<prec("100", S("local_variable_declaration"))>>
            \o symbols(<<"_class_header", "_full_method_header", "partial_if", "partial_try",
                         "partial_catch", "partial_finally">>)),
   partial_if |-> seq(<<L("if"), S("parenthesized_expression")>>),
   partial_try |-> seq(<<L("try"), S("block")>>),
   partial_catch |-> S("catch_clause"),
   partial_finally |-> S("finally_clause")]

ApexTokens ==
  [semgrep_ellipsis |-> L("..."),
   semgrep_metavar_ellipsis |-> named_ellipsis_regex,
   semgrep_deep_expression |-> deep("expression"),
   semgrep_any_ellipsis |-> choice(symbols(<<"semgrep_ellipsis", "semgrep_metavar_ellipsis">>)),
   semgrep_metavar |-> metavariable_regex,
   _apex_identifier |-> Pattern("[\\p{L}_$][\\p{L}\\p{Nd}_$]*"),
   identifier |-> choice(symbols(<<"semgrep_metavar", "_apex_identifier">>))]

ApexEllipses ==
  LET ellipsis == <<"semgrep_ellipsis">>
      any      == <<"semgrep_ellipsis", "semgrep_metavar_ellipsis">>
  IN  [primary_expression |-> extended(<<"semgrep_deep_expression">>),
       statement |-> extended(ellipsis),
       formal_parameter |-> extended(any),
       argument_list |-> seq(<<L("("), commaSep(choice(symbols(any \o <<"expression">>))), L(")")>>),
       type_parameter |-> preferred(ellipsis),
       for_statement |->
         seq(<<L("for"), L("("),
               choice(<<S("semgrep_ellipsis"),
                        seq(<<choice(<<S("local_variable_declaration"),
                                       seq(<<commaSep(S("expression")), L(";")>>)>>),
                              optional(S("expression")), L(";"), commaSep(S("expression"))>>)>>),
               L(")"), S("statement")>>),
       catch_formal_parameter |-> preferred(ellipsis),
       _class_body_declaration |-> preferred(ellipsis),
       interface_body |->
         seq(<<L("{"),
               repeat(choice(symbols(<<"semgrep_ellipsis", "constant_declaration", "enum_declaration",
                                       "method_declaration", "class_declaration",
                                       "interface_declaration">>) \o <<L(";")>>)),
               L("}")>>),
       annotation_key_value |-> preferred(ellipsis),
       enum_constant |-> preferred(ellipsis),
       switch_rule |-> preferred(ellipsis)]

ApexHeaders ==
  [class_declaration |-> seq(symbols(<<"_class_header", "class_body">>)),
   _class_header |-> seq(<<optional(S("modifiers")), L("class"), S("identifier"), optional(S("type_parameters")),
                           optional(S("superclass")), optional(S("interfaces"))>>),
   _full_method_header |-> seq(<<optional(S("modifiers")), S("_method_header")>>)]

ApexSoql ==
  [_selectable_expression |-> preferred(<<"semgrep_ellipsis", "semgrep_metavar_ellipsis">>),
   storage_identifier |-> preferred(<<"semgrep_ellipsis", "semgrep_metavar_ellipsis">>),
   _condition_expression |-> preferred(<<"semgrep_metavar">>)]

apex ==
  Extension("apex", "parser_output",
    {"parser_output", "identifier", "argument_list", "for_statement", "interface_body", "class_declaration"},
    {{"primary_expression", "formal_parameter"}, {"primary_expression", "statement"},
     {"argument_list", "formal_parameter"}},
    ApexPatterns @@ ApexTokens @@ ApexEllipses @@ ApexHeaders @@ ApexSoql)

-----------------------------------------------------------------------------
(* semgrep-kotlin, semgrep-gosu, semgrep-dart *)

kotlin ==
  Extension("kotlin", "source_file", {}, {},
    [source_file |-> extended(<<"semgrep_expression">>),
     semgrep_expression |-> seq(<<L("__SEMGREP_EXPRESSION"), S("_expression")>>),
     semgrep_named_ellipsis |-> Pattern("\\$\\.\\.\\.[a-zA-Z_][a-zA-Z_0-9]*"),
     simple_identifier |-> choice(<<previous, L("constructor"), Pattern("\\$[a-zA-Z_][a-zA-Z_0-9]*")>>),
     typed_metavar |-> seq(<<L("("), S("simple_identifier"), L(":"), S("_type"), L(")")>>),
     _expression |-> extended(<<"ellipsis", "deep_ellipsis", "typed_metavar", "semgrep_named_ellipsis">>),
     navigation_suffix |-> choice(<<previous, seq(symbols(<<"_member_access_operator", "ellipsis">>))>>),
     _class_member_declaration |-> extended(<<"ellipsis">>),
     _function_value_parameter |-> extended(<<"ellipsis">>),
     class_parameter |-> extended(<<"ellipsis">>),
     deep_ellipsis |-> deep("_expression"),
     ellipsis |-> L("...")])

\* Mutant: seq for choice, an ellipsis has to follow every expression.
gosuFollowed ==
  Extension("gosu", "start", {}, {},
    [semgrep_ellipsis |-> L("..."),
     parameterDeclaration |-> extended(<<"semgrep_ellipsis">>),
     usesStatement |-> extended(<<"semgrep_ellipsis">>),
     declaration |-> spliced(<<"semgrep_ellipsis">>),
     _statement |-> spliced(<<"semgrep_ellipsis">>),
     _expression |-> seq(<<previous, S("semgrep_ellipsis")>>)])

gosu ==
  Extension("gosu", "start", {}, {},
    [semgrep_ellipsis |-> L("..."),
     parameterDeclaration |-> extended(<<"semgrep_ellipsis">>),
     usesStatement |-> extended(<<"semgrep_ellipsis">>),
     declaration |-> spliced(<<"semgrep_ellipsis">>),
     _statement |-> spliced(<<"semgrep_ellipsis">>),
     _expression |-> extended(<<"semgrep_ellipsis">>)])

dart ==
  Extension("dart", "program", {},
    {{"_expression", "formal_parameter"}, {"spread_element", "semgrep_ellipsis"},
     {"_expression", "expression_statement"}},
    [program |-> extended(<<"semgrep_expression">>),
     semgrep_ellipsis |-> prec("left 1", L("...")),
     semgrep_named_ellipsis |-> named_ellipsis_regex,
     deep_ellipsis |-> deep("_expression"),
     _top_level_definition |-> extended(<<"semgrep_ellipsis">>),
     semgrep_metavariable |-> metavariable_regex,
     semgrep_expression |-> seq(<<L("__SEMGREP_EXPRESSION"), S("_semgrep_pattern")>>),
     _semgrep_pattern |-> choice(symbols(<<"_expression", "_statement">>)),
     _expression |-> extended(<<"semgrep_ellipsis", "semgrep_named_ellipsis", "deep_ellipsis">>),
     expression_statement |-> extended(<<"semgrep_ellipsis">>),
     formal_parameter |-> preferred(<<"semgrep_ellipsis">>)])

-----------------------------------------------------------------------------
(* semgrep-scala *)

ScalaPatterns ==
  LET start(text) == token(text, prec("100", L(text)))
  IN  [semgrep_expression |-> seq(<<start("__SEMGREP_EXPRESSION"), S("expression")>>),
       semgrep_statement |-> seq(<<start("__SEMGREP_STATEMENT"), choice(symbols(<<"expression", "_definition">>))>>),
       semgrep_member_decl |->
         seq(<<start("__SEMGREP_MEMBER_DECL"),
               choice(symbols(<<"function_definition", "function_declaration", "val_definition",
                                "val_declaration", "var_definition", "var_declaration">>))>>),
       semgrep_metavariable |-> token("metavariable", prec("1", Pattern("\\$[A-Z][A-Za-z0-9_]*"))),
       semgrep_ellipsis |-> token("ellipsis", prec("1", L("..."))),
       semgrep_ellipsis_metavariable |->
         token("named_ellipsis", prec("1", Pattern("\\$\\.\\.\\.[A-Za-z_][A-Za-z0-9_]*"))),
       deep_expression |-> prec("10", deep("expression")),
       _top_level_definition |-> preferred(<<"semgrep_expression", "semgrep_statement", "semgrep_member_decl">>),
       _simple_expression |-> extended(<<"symbol_literal", "semgrep_metavariable", "deep_expression",
                                         "semgrep_ellipsis_metavariable", "semgrep_ellipsis">>),
       _pattern |-> extended(<<"semgrep_ellipsis">>),
       parameter |-> extended(<<"semgrep_ellipsis">>),
       class_parameter |-> extended(<<"semgrep_ellipsis">>),
       enumerator |-> choice(<<previous, prec("1", S("semgrep_ellipsis"))>>),
       semgrep_val_or_var_definition |->
         seq(<<S("semgrep_metavariable"), choice(symbols(<<"_pattern", "identifiers">>)),
               optional(seq(<<L(":"), S("_type")>>)), L("="), S("_indentable_expression")>>),
       _definition |-> extended(<<"semgrep_val_or_var_definition">>)]

ScalaFixes ==
  [_constructor_annotation |-> prec("right", seq(<<L("@"), S("_simple_type"), optional(S("arguments"))>>)),
   quote_expression |->
     prec("left 10", seq(<<L("'"), choice(<<seq(<<L("{"), optional(S("_block")), L("}")>>),
                                            seq(<<L("["), S("_type"), L("]")>>), S("identifier")>>)>>)),
   repeated_parameter_type |->
     prec("left 5", seq(<<choice(symbols(<<"_type", "lazy_parameter_type">>)), L("*")>>)),
   _class_constructor |->
     seq(<<S("_identifier"), optional(S("type_parameters")), optional(S("_constructor_annotation")),
           optional(S("access_modifier")),
           repeat(seq(<<optional(S("_automatic_semicolon")), S("class_parameters")>>))>>),
   symbol_literal |-> prec("-1", seq(<<L("'"), S("identifier")>>))]

scala ==
  Extension("scala", "start",
    {"_constructor_annotation", "quote_expression", "repeated_parameter_type", "_class_constructor"},
    {{"_simple_expression", "semgrep_val_or_var_definition"}}, ScalaPatterns @@ ScalaFixes)
=============================================================================
