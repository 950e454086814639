-------------------------- MODULE ContractGrammars --------------------------
(***************************************************************************)
(* Solidity, Circom, Cairo and the two dialects of Move with Semgrep's     *)
(* constructs.                                                             *)
(***************************************************************************)
EXTENDS GrammarDSL

\* The rules that are extended by the ellipsis alone.
with_ellipsis(names)    == [n \in names |-> extended(<<"ellipsis">>)]
spliced_ellipsis(names) == [n \in names |-> spliced(<<"ellipsis">>)]

statement_or_expression(ellipsis) ==
  choice(<<previous, prec("right 100", seq(<<S(ellipsis), L(";")>>)), prec("right 100", S(ellipsis))>>)
for_ellipsis(statement) ==
  choice(<<previous, seq(<<L("for"), L("("), S("ellipsis"), L(")"), S(statement)>>)>>)

-----------------------------------------------------------------------------
(* semgrep-solidity, semgrep-circom, semgrep-cairo *)

solidity ==
  Extension("solidity", "source_file", {"enum_body"}, {},
    [source_file |->
       choice(<<previous, repeat1(S("statement"))>>
              \o symbols(<<"expression", "constructor_definition", "modifier_definition">>)),
     _pragma_version_constraint |->
       choice(<<previous, seq(<<optional(S("solidity_version_comparison_operator")), S("identifier")>>)>>),
     expression |-> extended(<<"ellipsis", "deep_ellipsis", "member_ellipsis_expression">>),
     expression_statement |-> statement_or_expression("ellipsis"),
     member_ellipsis_expression |->
       prec("1", seq(<<choice(symbols(<<"expression", "identifier">>)), L("."), S("ellipsis")>>)),
     for_statement |-> for_ellipsis("statement"),
     enum_body |->
       seq(<<L("{"), trailing_commaSep(choice(<<alias(S("identifier"), "enum_value"), S("ellipsis")>>)),
             L("}")>>),
     deep_ellipsis |-> deep("expression"),
     ellipsis |-> L("...")]
    @@ with_ellipsis({"_contract_member", "struct_member", "parameter", "event_parameter",
                      "inheritance_specifier"}))

circom ==
  Extension("circom", "source_file", {}, {},
    [source_file |-> choice(<<previous, repeat1(S("_statement")), S("_expression")>>),
     circom_pragma_token |-> choice(<<previous, seq(symbols(<<"_circom", "identifier">>))>>),
     _expression |-> extended(<<"ellipsis", "deep_ellipsis">>),
     expression_statement |-> statement_or_expression("ellipsis"),
     parameter |-> extended(<<"ellipsis">>),
     for_statement |-> for_ellipsis("_statement"),
     ellipsis |-> L("..."),
     deep_ellipsis |-> deep("_expression")])

cairo ==
  [Extension("cairo", "source_file", {}, {},
     [source_file |-> extended(<<"semgrep_expression", "semgrep_statement">>),
      semgrep_expression |-> seq(<<L("__SEMGREP_EXPRESSION"), S("_expression")>>),
      semgrep_statement |-> seq(<<L("__SEMGREP_STATEMENT"), repeat1(S("_statement"))>>),
      semgrep_var |-> metavariable_regex,
      deep_ellipsis |-> deep("_expression"),
      ellipsis |-> L("..."),
      name |-> choice(<<alias(previous, "name"), S("semgrep_var")>>),
      selector_expression |-> choice(<<previous, seq(<<S("_expression"), L("."), S("ellipsis")>>)>>)]
     @@ [n \in {"_expression", "_simple_expression", "_statement"} |-> spliced(<<"ellipsis", "deep_ellipsis">>)]
     @@ spliced_ellipsis({"_declaration", "attribute_argument"})
     @@ with_ellipsis({"parameter_declaration", "member_declaration"}))
   EXCEPT !.inline = {"name"}]

-----------------------------------------------------------------------------
(* semgrep-move-on-sui; the backquotes around identifiers are left out *)

SuiConflicts ==
  {{"typed_metavariable", "module_access"}, {"module_body", "block"}, {"module_body", "_expression_term"},
   {"module_body"}, {"_expression_term"}, {"semgrep_statement", "_expression_term"},
   {"typed_metavariable", "annotation_expression"}}

SuiPrecedences ==
  {<<"block_item", "block", "module_body", "module_access">>, <<"_expression_term", "module_access">>,
   <<"_bind", "module_access">>, <<"block_identifier", "break_expression">>,
   <<"block_item", "_expression", "module_access">>, <<"annotation_item", "module_access">>,
   <<"module_access", "field_access_ellipsis_expr">>, <<"bind_unpack", "name_expression">>,
   <<"type_arguments", "_type", "module_access">>, <<"annotation_expression", "typed_metavariable">>,
   <<"_semgrep_metavar_ellipsis", "typed_metavariable">>}

SuiPatterns ==
  [ellipsis |-> L("..."),
   deep_ellipsis |-> deep("_expression"),
   typed_metavariable |-> seq(<<L("("), S("identifier"), L(":"), S("_type"), L(")")>>),
   _clean_identifier |-> Pattern("[a-zA-Z_][0-9a-zA-Z_]*"),
   _macro_identifier_dollar |-> Pattern("\\$[a-zA-Z][0-9a-zA-Z_]*"),
   _semgrep_metavar_ellipsis |-> named_ellipsis_regex,
   _semgrep_metavar_var |-> metavariable_regex,
   semgrep_expression |-> choice(symbols(<<"_expression", "let_statement">>)),
   semgrep_statement |->
     repeat1(choice(symbols(<<"block_item", "use_declaration", "friend_declaration", "constant",
                              "_function_item", "_struct_item", "_enum_item", "spec_block",
                              "module_body">>))),
   semgrep_partial |->
     seq(<<choice(symbols(<<"_function_signature", "_struct_signature", "_enum_signature">>))>>),
   source_file |-> extended(<<"semgrep_expression", "semgrep_statement", "semgrep_partial">>),
   _identifier_or_metavariable |->
     choice(<<choice(symbols(<<"_macro_identifier_dollar", "_semgrep_metavar_ellipsis",
                               "_semgrep_metavar_var">>) \o <<L("_")>>),
              seq(<<optional(L("phantom")), S("_clean_identifier")>>)>>)]

SuiAccess ==
  LET member == alias(prec("right", choice(symbols(<<"_semgrep_metavar_ellipsis", "_macro_identifier_dollar">>)
                                           \o <<prec("-1", S("identifier"))>>)), "identifier")
  IN  [module_access |->
         choice(<<member, seq(<<L("@"), S("identifier")>>), alias(S("_reserved_identifier"), "identifier"),
                  seq(<<S("_module_identifier"), L("::"), S("identifier")>>),
                  seq(<<S("module_identity"), L("::"), S("identifier")>>),
                  seq(<<S("module_identity"), L("::"), S("identifier"), L("::"), S("identifier")>>),
                  S("ellipsis")>>)]

SuiEllipses ==
  LET unary(name) == prec("13", S(name))
  IN  with_ellipsis({"module_body", "_spec_block_memeber", "block_item", "field_annotation", "bind_field",
                     "annotation_item", "use_member"})
      @@ spliced_ellipsis({"_bind"})
      @@ [_expression_term |-> extended(<<"ellipsis", "deep_ellipsis", "typed_metavariable">>),
          _expression |-> extended(<<"ellipsis", "deep_ellipsis">>),
          _unary_expression |->
            choice(<<previous, unary("ellipsis"), unary("deep_ellipsis"), unary("field_access_ellipsis_expr")>>),
          _dot_or_index_chain |-> extended(<<"field_access_ellipsis_expr">>)]

SuiParameters ==
  LET name(as) == alias(S("_identifier_or_metavariable"), as)
  IN  with_ellipsis({"_type", "ability", "exp_field"})
      @@ [function_parameter |->
            choice(<<seq(<<optional(L("mut")), name("variable_identifier"), L(":"), S("_type")>>),
                     S("ellipsis")>>),
          type_parameter |->
            choice(<<seq(<<name("type_parameter_identifier"),
                           optional(seq(<<L(":"), S("ability"), repeat(seq(<<L("+"), S("ability")>>)),
                                          optional(L("+"))>>))>>),
                     S("ellipsis")>>),
          type_arguments |-> choice(<<previous, S("ellipsis"), seq(<<L("<"), S("ellipsis"), L(">")>>)>>),
          field_access_ellipsis_expr |->
            prec("left 14", seq(<<S("_dot_or_index_chain"), L("."), S("ellipsis")>>)),
          identifier |->
            Pattern("[a-zA-Z_][0-9a-zA-Z_]*|\\$\\.\\.\\.[A-Z_][A-Z_0-9]*]|\\$[A-Z_][A-Z_0-9]*")]

move_on_sui ==
  [Extension("move_on_sui", "source_file",
     {"_identifier_or_metavariable", "module_access", "function_parameter", "type_parameter", "identifier"},
     SuiConflicts, SuiPatterns @@ SuiAccess @@ SuiEllipses @@ SuiParameters)
   EXCEPT !.precedences = SuiPrecedences]

-----------------------------------------------------------------------------
(* semgrep-move-on-aptos *)

AptosPatterns ==
  [ellipsis |-> L("..."),
   deep_ellipsis |-> deep("_expr"),
   typed_metavariable |-> seq(<<L("("), S("identifier"), L(":"), S("type"), L(")")>>),
   semgrep_expression |-> choice(symbols(<<"_expr", "let_expr">>)),
   semgrep_statement |-> repeat1(choice(symbols(<<"_sequence_item", "declaration">>))),
   semgrep_partial |->
     seq(<<optional(S("attributes")), repeat(S("module_member_modifier")),
           choice(symbols(<<"_function_signature", "_struct_signature", "_enum_signature">>))>>),
   source_file |-> extended(<<"semgrep_expression", "semgrep_statement", "semgrep_partial">>)]
  @@ with_ellipsis({"declaration", "_script_use_decl", "_script_constant_decl", "_script_func_decl",
                    "_script_spec_block", "_address_member", "_spec_block_member", "_sequence_item",
                    "field_annot", "bind_field", "attribute", "_attribute_val", "_use_member"})
  @@ spliced_ellipsis({"_bind"})

AptosExpressions ==
  LET unary(name) == prec("13", S(name))
  IN  [term |-> spliced(<<"ellipsis", "deep_ellipsis">>),
       _expr |-> spliced(<<"ellipsis", "deep_ellipsis">>),
       _unary_expr |->
         choice(<<members, unary("ellipsis"), unary("deep_ellipsis"), unary("field_access_ellipsis_expr"),
                  S("typed_metavariable")>>),
       _dot_or_index_chain |-> spliced(<<"field_access_ellipsis_expr">>),
       for_loop_expr |-> for_ellipsis("block"),
       field_access_ellipsis_expr |->
         prec("left 14", seq(<<S("_dot_or_index_chain"), L("."), S("ellipsis")>>)),
       identifier |->
         token("identifier",
               choice(<<previous, alias(choice(<<metavariable_regex, named_ellipsis_regex>>), "meta_var")>>))]
      @@ with_ellipsis({"parameter", "ability", "type_param", "_variant", "match_arm"})
      @@ spliced_ellipsis({"type", "expr_field"})

move_on_aptos ==
  [Extension("move_on_aptos", "source_file", {},
     {{"typed_metavariable", "name_access_chain"}, {"term", "declaration"},
      {"_module_path", "spec_block_target"}},
     AptosPatterns @@ AptosExpressions)
   EXCEPT !.precedences =
     {<<"_sequence_item", "declaration">>,
      <<"_script_use_decl", "_script_constant_decl", "_script_func_decl", "_script_spec_block">>}]
=============================================================================
