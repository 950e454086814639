--------------------------- MODULE ScriptGrammars ---------------------------
(***************************************************************************)
(* TypeScript, TSX, JavaScript, Ruby, Python, Bash, PowerShell, R, Julia,  *)
(* Elixir, Lua and CFML with Semgrep's constructs.                         *)
(***************************************************************************)
EXTENDS GrammarDSL

(* semgrep-typescript/common *)

TypescriptConflicts ==
  LET dots == "semgrep_expression_ellipsis"
      line == "semgrep_ellipsis"
  IN  {{dots, "spread_element"}, {dots, "rest_pattern"}, {dots, "rest_type"},
       {dots, "rest_type", "spread_element", "rest_pattern"}, {dots, "spread_element", "rest_pattern"},
       {dots, line}, {"class_body", "public_field_definition"}, {"pair", "pair_pattern"},
       {"primary_expression", "method_definition", "method_signature"},
       {"primary_expression", "method_definition", "method_signature", "index_signature"},
       {"primary_expression", "index_signature"}, {"public_field_definition"},
       {"pattern", "_formal_parameter"}, {"spread_element", "rest_pattern", line},
       {"spread_element", "rest_pattern", line, dots}, {"statement", "pair", "pair_pattern"}}

TypescriptPatterns ==
  [program |-> extended(<<"switch_case", "semgrep_expression">>),
   semgrep_expression |-> seq(<<L("__SEMGREP_EXPRESSION"), S("semgrep_pattern")>>),
   deep_ellipsis |-> deep("expression"),
   statement |-> extended(<<"semgrep_ellipsis">>),
   assign_lambda |->
     seq(<<L("var"), choice(symbols(<<"identifier", "_destructuring_pattern">>)), L("="),
           optional(S("identifier")), S("_call_signature"), S("statement_block")>>),
   semgrep_pattern |->
     choice(<<S("expression"), seq(<<S("pair"), optional(S("_semicolon"))>>)>>
            \o symbols(<<"method_pattern", "function_declaration_pattern", "finally_clause",
                         "catch_clause", "assign_lambda">>)),
   method_pattern |->
     choice(<<seq(<<repeat1(S("decorator")), S("public_field_definition")>>),
              seq(<<repeat(S("decorator")),
                    choice(symbols(<<"abstract_method_signature", "index_signature", "method_signature">>)
                           \o <<seq(<<S("method_definition"), optional(S("_semicolon"))>>)>>)>>)>>),
   function_declaration_pattern |->
     prec("right declaration",
          seq(<<optional(L("async")), L("function"), choice(symbols(<<"identifier", "semgrep_ellipsis">>)),
                S("_call_signature"), S("statement_block"), optional(S("_automatic_semicolon"))>>)),
   _from_clause |-> seq(<<L("from"), choice(symbols(<<"string", "semgrep_metavariable">>))>>),
   for_statement |->
     seq(<<L("for"), L("("),
           choice(<<S("semgrep_ellipsis"),
                    seq(<<choice(<<choice(symbols(<<"lexical_declaration", "variable_declaration">>)),
                                   seq(<<S("_expressions"), L(";")>>), S("empty_statement")>>),
                          choice(<<seq(<<S("_expressions"), L(";")>>), S("empty_statement")>>),
                          optional(S("_expressions"))>>)>>),
           L(")"), S("statement")>>)]

TypescriptEllipses ==
  [semgrep_metavariable |-> metavariable_regex,
   _jsx_child |-> extended(<<"semgrep_ellipsis", "semgrep_metavariable">>),
   pair |-> extended(<<"semgrep_ellipsis">>),
   pair_pattern |-> extended(<<"semgrep_ellipsis">>),
   pattern |-> extended(<<"semgrep_ellipsis">>),
   semgrep_metavar_ellipsis |-> named_ellipsis_regex,
   semgrep_ellipsis |-> L("..."),
   _formal_parameter |-> choice(symbols(<<"semgrep_ellipsis", "required_parameter", "optional_parameter">>)),
   import_specifier |-> extended(<<"semgrep_ellipsis">>),
   _jsx_attribute |-> extended(<<"semgrep_ellipsis">>),
   _jsx_attribute_value |-> extended(<<"semgrep_metavariable">>)]

\* class_body and member_expression are copies of the upstream's.
TypescriptCopies ==
  LET member == <<"abstract_method_signature", "index_signature", "method_signature", "public_field_definition">>
  IN  [class_body |->
         seq(<<L("{"),
               repeat(choice(symbols(<<"semgrep_ellipsis", "decorator">>) \o
                 <<seq(<<S("method_definition"), optional(S("_semicolon"))>>),
                   seq(<<S("method_signature"),
                         choice(<<S("_function_signature_automatic_semicolon"), L(",")>>)>>),
                   seq(<<choice(symbols(member)), choice(<<S("_semicolon"), L(",")>>)>>)>>)),
               L("}")>>),
       member_expression |->
         prec("member",
              seq(<<choice(symbols(<<"expression", "primary_expression", "import">>)),
                    choice(<<L("."), S("optional_chain")>>),
                    choice(<<S("private_property_identifier"),
                             alias(S("identifier"), "property_identifier"), S("semgrep_ellipsis")>>)>>))]

TypescriptExpressions ==
  [semgrep_expression_ellipsis |-> prec("dynamic -1337", L("...")),
   primary_expression |-> extended(<<"semgrep_expression_ellipsis", "deep_ellipsis", "semgrep_metavar_ellipsis">>),
   comment |-> token("comment", choice(<<previous, seq(<<L("<!--"), Pattern(".*")>>),
                                         seq(<<L("-->"), Pattern(".*")>>)>>))]

typescript ==
  Extension("typescript", "program",
    {"_from_clause", "for_statement", "_formal_parameter", "class_body", "member_expression"},
    TypescriptConflicts,
    TypescriptPatterns @@ TypescriptEllipses @@ TypescriptCopies @@ TypescriptExpressions)

tsx == [typescript EXCEPT !.name = "tsx"]

javascript ==
  Extension("javascript", "start", {}, {}, [_jsx_child |-> choice(<<previous, L(">")>>)])

-----------------------------------------------------------------------------
(* semgrep-ruby *)

urgent(x) == prec("1000", x)

RubyTokens ==
  [identifier |->
     token("identifier",
       prec("-1", choice(<<previous, token("metavariable", urgent(metavariable_regex)),
                           token("named_ellipsis", urgent(named_ellipsis_regex)),
                           alias(token("ellipsis", urgent(L("..."))), "semgrep_ellipsis")>>))),
   semgrep_metavariable |-> token("metavariable", urgent(metavariable_regex)),
   deep_ellipsis |-> deep("_expression"),
   semgrep_ellipsis |-> L("..."),
   _primary |-> extended(<<"semgrep_ellipsis", "semgrep_ellipsis_followed_by_newline", "deep_ellipsis">>)]

RubyForms ==
  LET with(block) == seq(<<S("_arg"), L("..."), S(block)>>)
  IN  [forward_argument |-> prec("1", previous),
       constant |-> extended(<<"semgrep_metavariable">>),
       keyword_pattern |-> extended(<<"semgrep_ellipsis">>),
       pair |-> extended(<<"semgrep_ellipsis">>),
       command_argument_list |->
         choice(<<seq(<<alias(token("ellipsis_comma", urgent(seq(<<L("..."), L(",")>>))),
                              "semgrep_ellipsis_and_comma"), previous>>),
                  previous>>),
       command_call_with_block |-> choice(<<previous, with("do_block"), prec("dynamic 1", with("block"))>>),
       range |-> prec("-1", previous)]

ruby ==
  [Extension("ruby", "start", {},
     {{"keyword_pattern", "pair"}, {"_primary", "pair"}, {"_primary", "keyword_pattern"}},
     RubyTokens @@ RubyForms)
   EXCEPT !.externals = {"semgrep_ellipsis_followed_by_newline"}]

-----------------------------------------------------------------------------
(* semgrep-python, semgrep-bash, semgrep-powershell, semgrep-r *)

python ==
  Extension("python", "start", {"identifier", "attribute"}, {},
    [identifier |-> Pattern("\\$?[_\\p{XID_Start}][_\\p{XID_Continue}]*"),
     attribute |->
       prec("22", seq(<<S("primary_expression"), L("."), choice(<<S("identifier"), L("...")>>)>>))])

BashNames ==
  [_orig_simple_variable_name |-> alias(Pattern("\\w+"), "variable_name"),
   _simple_variable_name |-> preferred(<<"semgrep_metavariable">>),
   _primary_expression |-> preferred(<<"semgrep_deep_expression">>),
   semgrep_deep_expression |-> deep("_literal"),
   semgrep_named_ellipsis |-> named_ellipsis_regex,
   simple_expansion |->
     choice(<<seq(<<L("$"),
                    choice(symbols(<<"_orig_simple_variable_name", "_special_variable_name">>) \o
                      <<alias(L("!"), "special_variable_name"), alias(L("#"), "special_variable_name")>>)>>),
              S("semgrep_named_ellipsis")>>)]

BashForms ==
  [variable_assignment |->
     choice(<<seq(<<choice(symbols(<<"semgrep_metavar_eq", "semgrep_metavar_pluseq">>)),
                    choice(symbols(<<"_literal", "array", "_empty_value">>))>>),
              previous>>),
   _extended_word |-> choice(symbols(<<"semgrep_metavariable", "word">>)),
   function_definition |->
     seq(<<choice(<<seq(<<L("function"), S("_extended_word"), optional(seq(<<L("("), L(")")>>))>>),
                    seq(<<S("word"), L("("), L(")")>>)>>),
           choice(symbols(<<"compound_statement", "subshell", "test_command">>))>>),
   semgrep_metavariable |-> metavariable_regex,
   semgrep_metavar_eq |-> Pattern("\\$[A-Z_][A-Z_0-9]*="),
   semgrep_metavar_pluseq |-> Pattern("\\$[A-Z_][A-Z_0-9]*\\+=")]

bash ==
  Extension("bash", "start", {"simple_expansion", "function_definition"}, {}, BashNames @@ BashForms)

powershell ==
  Extension("powershell", "start", {}, {{"_statement", "_expression"}},
    [semgrep_ellipsis |-> L("..."),
     semgrep_deep_ellipsis |-> deep("_expression"),
     _statement |-> prec("right", extended(<<"semgrep_ellipsis">>)),
     _expression |-> extended(<<"semgrep_ellipsis", "semgrep_deep_ellipsis">>),
     _command_element |-> prec("right", extended(<<"semgrep_ellipsis">>)),
     argument_expression |-> extended(<<"semgrep_ellipsis">>)])

r ==
  Extension("r", "start", {}, {},
    [identifier |-> extended(<<"_semgrep_metavariable">>),
     _semgrep_metavariable |-> token("metavariable", metavariable_regex)])

-----------------------------------------------------------------------------
(* semgrep-julia, semgrep-elixir, semgrep-lua, semgrep-cfml *)

julia ==
  Extension("julia", "start", {"catch_clause"}, {},
    [semgrep_ellipsis |-> L("..."),
     catch_clause |->
       prec("1", seq(<<L("catch"),
                       optional(choice(<<S("identifier"), alias(S("semgrep_ellipsis"), "catch_ellipsis")>>)),
                       optional(S("_terminator")), optional(S("_block"))>>)),
     deep_expression |-> deep("_expression"),
     semgrep_extended_metavariable |-> Pattern("\\$[A-Z_][a-zA-Z_0-9]*"),
     identifier |-> prec("1", extended(<<"semgrep_extended_metavariable">>)),
     interpolation_expression |->
       choice(<<previous, alias(prec("999", S("semgrep_extended_metavariable")), "identifier")>>),
     _expression |-> extended(<<"semgrep_ellipsis", "deep_expression">>)])

elixir ==
  Extension("elixir", "start", {}, {},
    [identifier |-> extended(<<"_semgrep_metavariable">>),
     _keyword |-> spliced(<<"metavariable_keyword">>),
     metavariable_keyword |-> seq(<<S("_semgrep_metavariable"), Pattern(":\\s")>>),
     _atom |-> spliced(<<"metavariable_atom">>),
     metavariable_atom |-> seq(<<L(":"), S("_semgrep_metavariable")>>),
     _semgrep_metavariable |-> token("metavariable", metavariable_regex),
     pair |-> extended(<<"semgrep_ellipsis">>),
     semgrep_ellipsis |-> prec("-1", L("...")),
     _expression |-> spliced(<<"deep_ellipsis">>),
     deep_ellipsis |-> deep("_expression")])

lua == Extension("lua", "start", {"identifier"}, {}, [identifier |-> Pattern("\\$?[a-zA-Z_][a-zA-Z0-9_]*")])

CfmlConflicts ==
  LET dots == "semgrep_expression_ellipsis"
      line == "semgrep_ellipsis"
  IN  {{dots, "spread_element"}, {dots, "rest_pattern"}, {dots, "spread_element", "rest_pattern"},
       {dots, line}, {"spread_element", "rest_pattern", line}, {"spread_element", "rest_pattern", line, dots}}

CfmlRules ==
  [semgrep_ellipsis |-> L("..."),
   semgrep_expression_ellipsis |-> L("..."),
   deep_ellipsis |-> deep("expression"),
   statement |-> extended(<<"semgrep_ellipsis">>),
   expression |-> extended(<<"semgrep_expression_ellipsis", "deep_ellipsis">>),
   _formal_parameter |-> preferred(<<"semgrep_ellipsis">>)]

cfml ==
  Extension("cfml", "start", {}, CfmlConflicts, CfmlRules @@ [_node |-> extended(<<"semgrep_ellipsis">>)])

cfquery ==
  Extension("cfquery", "start", {}, CfmlConflicts, CfmlRules @@ [_node |-> extended(<<"semgrep_ellipsis">>)])

cfscript ==
  Extension("cfscript", "program", {}, CfmlConflicts \cup {{"expression", "expression_statement"}},
    CfmlRules @@
    [program |-> extended(<<"semgrep_expression">>),
     semgrep_expression |-> seq(<<L("__SEMGREP_EXPRESSION"), S("expression")>>)])
=============================================================================
