-------------------------- MODULE CFamilyGrammars ---------------------------
(***************************************************************************)
(* C++, C#, Rust, Swift and Hack with Semgrep's constructs; C, Go and PHP, *)
(* which have none added.                                                  *)
(***************************************************************************)
EXTENDS GrammarDSL

c        == Unextended("c")
go       == Unextended("go")
php      == Unextended("php")
php_only == Unextended("php_only")

-----------------------------------------------------------------------------
(* semgrep-cpp *)

CppMetavariables ==
  [translation_unit |-> extended(<<"semgrep_expression">>),
   semgrep_expression |-> seq(<<L("__SEMGREP_EXPRESSION"), S("_expression")>>),
   semgrep_metavar |-> metavariable_regex,
   semgrep_typed_metavar |-> seq(symbols(<<"type_descriptor", "semgrep_metavar">>)),
   parenthesized_expression |->
     choice(<<previous, seq(<<L("("), S("semgrep_typed_metavar"), L(")")>>)>>),
   identifier |-> Pattern("\\$?(\\p{XID_Start}|_)\\p{XID_Continue}*")]

CppEllipses ==
  LET preferring(name) == choice(<<previous, prec("1", S(name))>>)
  IN  [_expression |-> extended(<<"semgrep_ellipsis", "deep_ellipsis", "semgrep_named_ellipsis">>),
       _block_item |-> preferring("semgrep_ellipsis"),
       _top_level_statement |-> preferring("semgrep_ellipsis"),
       _field_identifier |-> extended(<<"semgrep_ellipsis">>),
       _unary_left_fold |-> prec("1", previous),
       _binary_fold_operator |-> seq(<<S("_fold_operator"), L("..."), S("_fold_operator")>>),
       _fold_operator |-> prec("13", previous),
       semgrep_ellipsis |-> L("..."),
       deep_ellipsis |-> deep("_expression"),
       semgrep_named_ellipsis |-> named_ellipsis_regex]

cpp ==
  Extension("cpp", "translation_unit", {"identifier", "_binary_fold_operator"},
    {{"sizeof_expression", "semgrep_ellipsis"}, {"parameter_list", "semgrep_ellipsis"}},
    CppMetavariables @@ CppEllipses)

-----------------------------------------------------------------------------
(* semgrep-c-sharp, semgrep-c-sharp-pro *)

\* What both have, with the upstream's name of an expression.
CSharpConstructs(expression) ==
  LET statement(name) == seq(<<S(name), L(";")>>)
  IN  [compilation_unit |-> extended(<<"semgrep_expression">>),
       semgrep_expression |-> seq(<<L("__SEMGREP_EXPRESSION"), S(expression)>>),
       identifier |-> extended(<<"_semgrep_metavariable">>),
       _semgrep_metavariable |-> token("metavariable", metavariable_regex),
       semgrep_variadic_metavariable |-> named_ellipsis_regex,
       parameter |-> extended(<<"ellipsis">>),
       argument |-> extended(<<"semgrep_variadic_metavariable">>),
       enum_member_declaration |-> extended(<<"ellipsis">>),
       expression_statement |->
         choice(<<previous, prec("right 100", statement("ellipsis")), prec("right 100", S("ellipsis")),
                  statement("deep_ellipsis"), statement("member_access_ellipsis_expression"),
                  statement("_semgrep_metavariable"), statement("typed_metavariable")>>),
       member_access_ellipsis_expression |->
         prec("18", seq(<<choice(symbols(<<expression, "predefined_type", "_name">>)),
                          choice(<<L("."), L("->")>>), S("ellipsis")>>)),
       deep_ellipsis |-> deep(expression),
       ellipsis |-> L("...")]

expression_forms == spliced(<<"ellipsis", "deep_ellipsis", "member_access_ellipsis_expression", "typed_metavariable">>)
typed(type)      == seq(<<L("("), S(type), S("_semgrep_metavariable"), L(")")>>)

c_sharp ==
  Extension("c_sharp", "compilation_unit", {}, {{"_expression", "parameter"}},
    CSharpConstructs("_expression") @@
    [_declaration |-> spliced(<<"ellipsis">>),
     _type_declaration |-> spliced(<<"ellipsis">>),
     file_scoped_namespace_declaration |->
       seq(<<seq(<<repeat(S("global_statement")), repeat(S("_namespace_member_declaration"))>>), previous>>),
     _expression |-> expression_forms,
     typed_metavariable |-> prec("right 17", typed("_type"))])

c_sharp_pro ==
  Extension("c_sharp_pro", "compilation_unit", {}, {{"expression", "parameter"}},
    CSharpConstructs("expression") @@
    [declaration |-> spliced(<<"ellipsis">>),
     type_declaration |-> spliced(<<"ellipsis">>),
     expression |-> expression_forms,
     typed_metavariable |-> prec("17", prec("dynamic 1", typed("type")))])

-----------------------------------------------------------------------------
(* semgrep-rust, semgrep-swift *)

rust ==
  Extension("rust", "source_file", {"parenthesized_expression"},
    {{"_non_delim_token", "ellipsis"}, {"_token_pattern", "ellipsis"}},
    [source_file |-> extended(<<"semgrep_expression", "semgrep_statement">>),
     semgrep_expression |-> seq(<<L("__SEMGREP_EXPRESSION"), S("_expression")>>),
     semgrep_statement |-> seq(<<L("__SEMGREP_STATEMENT"), repeat1(S("_statement"))>>),
     semgrep_typed_metavar |-> seq(<<S("identifier"), L(":"), S("_type")>>),
     identifier |-> token("identifier", choice(<<previous, metavariable_regex, named_ellipsis_regex>>)),
     expression_statement |->
       choice(<<previous, prec("right 100", seq(<<S("ellipsis"), L(";")>>)), prec("right 100", S("ellipsis"))>>),
     _declaration_statement |-> extended(<<"ellipsis">>),
     field_declaration |-> extended(<<"ellipsis">>),
     _expression |-> spliced(<<"ellipsis", "deep_ellipsis", "member_access_ellipsis_expression">>),
     parenthesized_expression |->
       seq(<<L("("), choice(symbols(<<"_expression", "semgrep_typed_metavar">>)), L(")")>>),
     _non_special_token |-> extended(<<"ellipsis">>),
     member_access_ellipsis_expression |-> prec("13", seq(<<S("_expression"), L("."), S("ellipsis")>>)),
     deep_ellipsis |-> deep("_expression"),
     ellipsis |-> L("...")])

\* "...>" is an operator of Swift.
swift ==
  Extension("swift", "source_file", {},
    {{"_three_dot_operator", "semgrep_expression_ellipsis"},
     {"_three_dot_operator", "semgrep_expression_ellipsis", "semgrep_ellipsis"}},
    [semgrep_expression_ellipsis |-> prec("dynamic -1337", L("...")),
     semgrep_ellipsis |-> L("..."),
     semgrep_ellipsis_metavar |-> Pattern("\\$\\.\\.\\.[a-zA-Z_][a-zA-Z_0-9]*"),
     semgrep_deep_ellipsis |-> seq(<<L("<..."), S("_expression"), S("custom_operator")>>),
     _expression |-> extended(<<"semgrep_expression_ellipsis", "semgrep_ellipsis_metavar",
                                "semgrep_deep_ellipsis">>),
     _type |-> extended(<<"semgrep_ellipsis">>),
     _type_level_declaration |-> extended(<<"semgrep_ellipsis">>),
     type_parameter |-> extended(<<"semgrep_ellipsis">>),
     navigation_suffix |-> choice(<<previous, seq(symbols(<<"_dot", "semgrep_ellipsis">>))>>),
     parameter |-> extended(<<"semgrep_ellipsis", "semgrep_ellipsis_metavar">>)])

-----------------------------------------------------------------------------
(* semgrep-hack; fields and the opt, rep, rep1 helpers are expanded *)

HackPatterns ==
  [ellipsis |-> prec("-1", L("...")),
   deep_ellipsis |-> prec("-1", deep("_expression")),
   empty_statement |-> choice(<<previous, prec("-1", S("ellipsis"))>>),
   _expression |-> extended(<<"ellipsis", "deep_ellipsis">>),
   member_declarations |->
     seq(<<L("{"),
           repeat(choice(<<alias(S("_class_const_declaration"), "const_declaration")>>
                         \o symbols(<<"method_declaration", "property_declaration", "type_const_declaration",
                                      "trait_use_clause", "require_implements_clause",
                                      "require_extends_clause", "xhp_attribute_declaration",
                                      "xhp_children_declaration", "xhp_category_declaration",
                                      "ellipsis">>))),
           L("}")>>),
   parameter |-> extended(<<"ellipsis">>),
   semgrep_identifier |-> metavariable_regex,
   _semgrep_variadic_identifier |-> named_ellipsis_regex,
   _semgrep_extended_identifier |-> choice(symbols(<<"semgrep_identifier", "identifier">>)),
   qualified_identifier |-> extended(<<"semgrep_identifier">>),
   argument |-> extended(<<"_semgrep_variadic_identifier">>)]

HackDeclarations ==
  LET name      == S("_semgrep_extended_identifier")
      opt(x)    == optional(S(x))
      modifier  == opt("attribute_modifier")
      after(tok, x) == optional(seq(<<L(tok), x>>))
      body      == S("member_declarations")
  IN  [alias_declaration |->
         seq(<<modifier, choice(<<L("type"), L("newtype")>>), name, opt("type_parameters"),
               after("as", S("_type")), L("="), S("_type"), L(";")>>),
       _function_declaration_header |->
         seq(<<opt("async_modifier"), L("function"), name, opt("type_parameters"), S("parameters"),
               optional(seq(<<L(":"), modifier, S("_type")>>)), opt("where_clause")>>),
       trait_declaration |->
         seq(<<modifier, L("trait"), name, opt("type_parameters"), opt("implements_clause"),
               opt("where_clause"), body>>),
       interface_declaration |->
         seq(<<modifier, L("interface"), name, opt("type_parameters"), opt("extends_clause"),
               opt("where_clause"), body>>),
       class_declaration |->
         seq(<<modifier, opt("_class_modifier"), opt("_class_modifier"), opt("xhp_modifier"), L("class"),
               choice(<<name, S("_xhp_identifier")>>), opt("type_parameters"), opt("extends_clause"),
               opt("implements_clause"), opt("where_clause"), body>>)]

HackConstants ==
  LET name     == S("_semgrep_extended_identifier")
      declared == choice(<<name, alias(S("_keyword"), "identifier")>>)
      modifier == optional(S("attribute_modifier"))
      after(tok, x) == optional(seq(<<L(tok), x>>))
  IN  [_class_const_declarator |-> seq(<<declared, after("=", S("_expression"))>>),
       type_const_declaration |->
         seq(<<modifier, repeat(S("_member_modifier")), L("const"), L("type"), name,
               optional(S("type_parameters")), after("as", S("_type")), after("=", S("_type")), L(";")>>),
       const_declarator |-> seq(<<declared, seq(<<L("="), S("_expression")>>)>>),
       enum_declaration |->
         seq(<<modifier, L("enum"), name, L(":"), S("_type"), after("as", S("_type")), L("{"),
               repeat(S("enumerator")), L("}")>>),
       enumerator |-> seq(<<name, L("="), S("_expression"), L(";")>>)]

hack ==
  Extension("hack", "start",
    {"member_declarations"} \cup DOMAIN HackDeclarations \cup DOMAIN HackConstants,
    {}, HackPatterns @@ HackDeclarations @@ HackConstants)
=============================================================================
