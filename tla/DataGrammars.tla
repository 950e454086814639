---------------------------- MODULE DataGrammars ----------------------------
(***************************************************************************)
(* HTML, HCL, Jsonnet, Dockerfile, PromQL, QL, FGA, OCaml and Haskell with *)
(* Semgrep's constructs, and the languages that have none added.           *)
(***************************************************************************)
EXTENDS GrammarDSL

clojure      == Unextended("clojure")
gomod        == Unextended("gomod")
make         == Unextended("make")
proto        == Unextended("proto")
requirements == Unextended("requirements")
soql         == Unextended("soql")
sosl         == Unextended("sosl")
sqlite       == Unextended("sqlite")
toml         == Unextended("toml")

-----------------------------------------------------------------------------
(* semgrep-html, semgrep-hcl, semgrep-jsonnet *)

html ==
  Extension("html", "document", {"document"}, {},
    [document |-> choice(<<repeat(S("_toplevel_node")), S("toplevel_attribute")>>),
     _toplevel_node |-> choice(symbols(<<"doctype", "element", "script_element", "style_element",
                                         "erroneous_end_tag", "xmldoctype">>)),
     toplevel_attribute |->
       seq(<<S("attribute_name"), L("="), choice(symbols(<<"attribute_value", "quoted_attribute_value">>))>>),
     xmldoctype |-> seq(<<L("<?xml"), repeat(S("attribute")), L("?>")>>),
     start_tag |-> preferred(<<"semgrep_start_tag">>),
     end_tag |-> preferred(<<"semgrep_end_tag">>),
     semgrep_start_tag |-> seq(<<L("<"), S("semgrep_metavariable"), repeat(S("attribute")), L(">")>>),
     semgrep_end_tag |-> seq(<<L("</"), S("semgrep_metavariable"), L(">")>>),
     semgrep_metavariable |-> token("metavariable", metavariable_regex)])

hcl ==
  Extension("hcl", "config_file", {"body"}, {{"_expr_term", "object_elem"}},
    [config_file |-> extended(<<"semgrep_expression">>),
     semgrep_expression |-> seq(<<L("__SEMGREP_EXPRESSION"), S("expression")>>),
     identifier |-> extended(<<"_semgrep_metavariable">>),
     _semgrep_metavariable |-> token("metavariable", metavariable_regex),
     body |-> repeat1(choice(symbols(<<"attribute", "block", "semgrep_ellipsis">>))),
     object_elem |-> extended(<<"semgrep_ellipsis">>),
     _expr_term |-> extended(<<"semgrep_ellipsis", "deep_ellipsis">>),
     semgrep_ellipsis |-> L("..."),
     deep_ellipsis |-> deep("expression")])

jsonnet ==
  Extension("jsonnet", "document", {}, {},
    [id |-> extended(<<"_semgrep_metavariable">>),
     _semgrep_metavariable |-> token("metavariable", metavariable_regex),
     expr |-> preferred(<<"semgrep_ellipsis", "deep_ellipsis">>),
     field |-> preferred(<<"semgrep_ellipsis">>),
     param |-> preferred(<<"semgrep_ellipsis">>),
     semgrep_ellipsis |-> L("..."),
     deep_ellipsis |-> deep("expr")])

-----------------------------------------------------------------------------
(* semgrep-dockerfile *)

quoted    == symbols(<<"double_quoted_string", "single_quoted_string">>)
anystring == choice(quoted \o <<S("unquoted_string")>>)
equals    == token("equals", L("="))

DockerfileCopies ==
  LET elements == seq(<<S("_array_element"), repeat(seq(<<L(","), S("_array_element")>>))>>)
  IN  [_instruction |-> preferred(<<"semgrep_ellipsis", "semgrep_metavariable">>),
       json_string_array |-> seq(<<L("["), optional(elements), L("]")>>),
       _array_element |-> choice(symbols(<<"json_string", "semgrep_ellipsis", "semgrep_metavariable">>)),
       arg_instruction |->
         seq(<<alias(Pattern("[aA][rR][gG]"), "ARG"),
               alias(choice(<<S("semgrep_metavariable"), Pattern("[a-zA-Z0-9_]+")>>), "unquoted_string"),
               optional(seq(<<equals, anystring>>))>>),
       label_pair |->
         choice(<<S("semgrep_ellipsis"),
                  seq(<<choice(<<S("semgrep_metavariable"), alias(Pattern("[-a-zA-Z0-9\\._]+"), "unquoted_string")>>
                               \o quoted),
                        equals, anystring>>)>>)]

DockerfileEllipses ==
  [env_pair |-> preferred(<<"semgrep_ellipsis">>),
   expose_port |-> preferred(<<"semgrep_ellipsis">>),
   healthcheck_instruction |->
     seq(<<alias(Pattern("[hH][eE][aA][lL][tT][hH][cC][hH][eE][cC][kK]"), "HEALTHCHECK"),
           choice(symbols(<<"semgrep_metavariable", "semgrep_ellipsis">>) \o
             <<L("NONE"),
               seq(<<repeat(choice(symbols(<<"semgrep_ellipsis", "param">>))), S("cmd_instruction")>>)>>)>>),
   shell_command |-> preferred(<<"semgrep_ellipsis">>),
   semgrep_metavariable |-> metavariable_regex,
   semgrep_ellipsis |-> L("...")]

dockerfile ==
  Extension("dockerfile", "start",
    {"json_string_array", "arg_instruction", "label_pair", "healthcheck_instruction"}, {},
    DockerfileCopies @@ DockerfileEllipses)

-----------------------------------------------------------------------------
(* semgrep-promql, semgrep-ql, semgrep-fga, semgrep-ocaml, semgrep-haskell *)

promql ==
  Extension("promql", "start", {"label_selectors", "grouping"},
    {{"metric_name", "string_literal", "float_literal"}},
    [_semgrep_metavariable |-> token("metavariable", metavariable_regex),
     semgrep_ellipsis |-> L("..."),
     _query_expression |-> preferred(<<"semgrep_ellipsis">>),
     label_selectors |->
       seq(<<L("{"), trailing_commaSep(choice(symbols(<<"semgrep_ellipsis", "label_matcher">>))), L("}")>>),
     grouping |->
       seq(<<choice(<<Pattern("[bB][yY]"), Pattern("[wW][iI][tT][hH][oO][uU][tT]")>>), L("("),
             trailing_commaSep(choice(symbols(<<"semgrep_ellipsis", "label_name">>))), L(")")>>)]
    @@ [n \in {"metric_name", "function_name", "label_name", "label_value", "string_literal", "float_literal",
               "_duration"} |-> preferred(<<"_semgrep_metavariable">>)])

ql ==
  LET ellipsis == S("semgrep_ellipsis")
  IN  Extension("ql", "ql", {}, {{"annotName", "aggId"}},
        [semgrep_ellipsis |-> L("..."),
         semgrep_ellipsis_metavar |-> Pattern("\\$\\.\\.\\.[a-zA-Z_][a-zA-Z_0-9]*"),
         semgrep_metavariable |-> token("metavariable", metavariable_regex),
         semgrep_deep_expression |-> deep("_exprOrTerm"),
         par_expr |->
           choice(<<seq(<<L("("), S("simpleId"), S("semgrep_metavariable"), L(")")>>), previous>>),
         _upper_id |-> prec("1", extended(<<"semgrep_metavariable">>)),
         annotName |-> extended(<<"semgrep_metavariable">>),
         predicateName |-> extended(<<"semgrep_metavariable">>),
         aggId |-> choice(<<S("semgrep_metavariable"), members>>),
         classMember |-> choice(<<ellipsis, members>>),
         moduleMember |-> choice(<<ellipsis, members>>),
         _call_arg |-> preferred(<<"semgrep_ellipsis">>),
         _primary |-> choice(<<prec("1", ellipsis), S("semgrep_ellipsis_metavar"),
                               S("semgrep_deep_expression"), members>>),
         varDecl |-> preferred(<<"semgrep_ellipsis">>),
         semgrep_expression |-> seq(<<L("__SEMGREP_EXPRESSION"), S("_exprOrTerm")>>),
         ql |-> preferred(<<"semgrep_expression">>)])

fga ==
  LET or_metavariable(name) == choice(symbols(<<name, "semgrep_metavariable">>))
      target == seq(<<choice(symbols(<<"identifier", "relation_ref", "all", "semgrep_metavariable">>)),
                      optional(S("conditional"))>>)
  IN  Extension("fga", "start",
        {"type_declaration", "definition", "_module_file", "relations", "param", "direct_relationship"},
        {{"relations"}},
        [semgrep_ellipsis |-> L("..."),
         semgrep_metavariable |-> metavariable_regex,
         type_declaration |->
           seq(<<optional(L("extend")), L("type"), or_metavariable("identifier"), L("\n"),
                 optional(S("relations"))>>),
         definition |-> seq(<<L("define"), or_metavariable("identifier"), L(":"), S("relation_def")>>),
         _module_file |->
           seq(<<choice(symbols(<<"model", "module">>)),
                 repeat(choice(symbols(<<"type_declaration", "condition_declaration", "semgrep_ellipsis">>)))>>),
         relations |->
           seq(<<L("relations"), repeat(choice(symbols(<<"definition", "semgrep_ellipsis">>)))>>),
         _expression |-> spliced(<<"semgrep_ellipsis", "semgrep_metavariable">>),
         param |-> seq(<<or_metavariable("identifier"), L(":"), or_metavariable("type_identifier")>>),
         direct_relationship |->
           seq(<<L("["),
                 choice(<<seq(<<target, optional(repeat(seq(<<L(","), target>>)))>>), S("semgrep_ellipsis")>>),
                 L("]")>>)])

ocaml ==
  Extension("ocaml", "compilation_unit", {},
    {{"_structure_item", "_signature_item"}, {"_structure_item_ext", "_signature_item_ext"},
     {"_structure", "_signature"}, {"include_module", "include_module_type"},
     {"parenthesized_module_type", "parenthesized_module_expression"}, {"functor_type", "functor"}},
    [compilation_unit |-> extended(<<"_signature">>)])

haskell ==
  Extension("haskell", "start", {}, {{"variable", "constructor"}},
    [semgrep_ellipsis |-> L("..."),
     semgrep_metavariable |-> token("metavariable", metavariable_regex),
     variable |-> extended(<<"semgrep_metavariable">>),
     constructor |-> extended(<<"semgrep_metavariable">>)])
=============================================================================
