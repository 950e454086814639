------------------------------ MODULE Simplify -------------------------------
(***************************************************************************)
(* From tree-sitter's grammar.json to the grammar that tree-sitter gets    *)
(* instead (Simplify_grammar, Missing_node) and from that to the regular   *)
(* expressions of the generated parser (CST_grammar_conv, Codegen_parse).  *)
(*                                                                         *)
(* A grammar is a record of its rules, the rules that are extras, that are *)
(* to be inlined and that an external scanner recognizes.  Its bodies have *)
(* the nodes of CSTGrammar and those below.  Names are those after their   *)
(* translation, which is one-to-one (ProtectIdent).                        *)
(***************************************************************************)
EXTENDS CSTGrammar

Literal(s)      == Node("Literal", s, <<>>, <<>>)
Pattern(s)      == Node("Pattern", s, <<>>, <<>>)
TokenOf(id, x)  == Node("TokenOf", id, <<x>>, <<>>)  \* token(x), token.immediate(x)
Prec(x)         == Node("Prec", "", <<x>>, <<>>)
Field(x)        == Node("Field", "", <<x>>, <<>>)
UserAlias(n, x) == Node("UserAlias", n, <<x>>, <<>>)
AnyOf(xs)       == Node("Choice", "", xs, <<>>)
Maybe(x)        == AnyOf(<<x, Blank>>)

AllSubnodes(rules) == UNION {ToSet(Subnodes(rules[n], {})) : n \in DOMAIN rules}

-----------------------------------------------------------------------------
(* Simplify_grammar *)

\* Each explicit use of an extra gets a name of its own, here the path to it.
RECURSIVE insert_aliases(_, _, _)
insert_aliases(extras, path, x) ==
  IF x.op = "Symbol" /\ x.name \in extras
  THEN Alias(x.name \o "_explicit" \o path, x)
  ELSE [x EXCEPT !.args = [i \in DOMAIN x.args |->
          insert_aliases(extras, path \o "_" \o ToString(i), x.args[i])]]

\* Mutant: no such rules.
DummiesNone(aliases) == <<>>

\* The rules that keep tree-sitter from renaming an extra that occurs only in
\* aliases.
Dummies(aliases) ==
  LET name(y) == "dummy_alias_" \o y.args[1].name
  IN  [d \in {name(y) : y \in aliases} |-> (CHOOSE y \in aliases : name(y) = d).args[1]]

Explicit(rules) == {y \in AllSubnodes(rules) : y.op = "Alias" /\ y.args[1].op = "Symbol"}

\* Mutant: the pass is left out.
alias_extrasNot(g) == g

alias_extras(g) ==
  LET rules   == [n \in DOMAIN g.rules |-> insert_aliases(g.extras, "_" \o n, g.rules[n])]
      aliases == Explicit(rules)
  IN  [g EXCEPT !.rules = rules @@ [n \in {y.name : y \in aliases} |-> Blank]
                                @@ Dummies(aliases)]

Unnamed(x) == x.op \in {"Pattern", "TokenOf"}

\* add_rule: one name for each distinct body.
NameOf(x) == "anon_" \o x.name

RECURSIVE extract(_)
extract(x) ==
  IF Unnamed(x) THEN Alias(NameOf(x), x)
  ELSE [x EXCEPT !.args = [i \in DOMAIN x.args |-> extract(x.args[i])]]

\* Mutant: the pass is left out.
work_around_missing_nodesNot(g) == g

\* A token at the root of a rule has the name of the rule, unless something
\* comes between, a precedence for instance.
work_around_missing_nodes(g) ==
  LET rules == [n \in DOMAIN g.rules |->
                  IF Unnamed(g.rules[n]) THEN g.rules[n] ELSE extract(g.rules[n])]
      new   == {y \in AllSubnodes(rules) : y.op = "Alias" /\ Unnamed(y.args[1])}
  IN  [g EXCEPT !.rules = rules @@ [n \in {y.name : y \in new} |->
                                      (CHOOSE y \in new : y.name = n).args[1]]]

\* Rules to inline are copied to where they are used, aliases of the grammar's
\* own are dropped.
RECURSIVE inline(_, _)
inline(g, x) ==
  CASE x.op = "Symbol" /\ x.name \in g.inline -> inline(g, g.rules[x.name])
    [] x.op = "UserAlias" -> inline(g, x.args[1])
    [] OTHER -> [x EXCEPT !.args = [i \in DOMAIN x.args |-> inline(g, x.args[i])]]

apply_inline(g) ==
  [g EXCEPT !.rules = [n \in DOMAIN g.rules |-> inline(g, g.rules[n])], !.inline = {}]

simplify_grammar(g) == apply_inline(work_around_missing_nodes(alias_extras(g)))

-----------------------------------------------------------------------------
(* CST_grammar_conv *)

RECURSIVE strip(_)
strip(x) == IF x.op \in {"Prec", "Field"} THEN strip(x.args[1])
            ELSE [x EXCEPT !.args = [i \in DOMAIN x.args |-> strip(x.args[i])]]

IsTokenBody(x) == x.op \in {"Literal", "Pattern", "TokenOf"}

deduplicate(xs) ==
  FoldLeft(LAMBDA seen, x : IF Contains(seen, x) THEN seen ELSE Append(seen, x), <<>>, xs)

\* translate and normalize, of a body without precedences and fields.
RECURSIVE convert(_)
convert(x) ==
  LET args == [i \in DOMAIN x.args |-> convert(x.args[i])]
  IN  CASE x.op = "Literal" -> Constant(x.name)
        [] Unnamed(x) -> Blank
        [] x.op = "Choice" /\ Len(args) = 2 /\ x.args[2] = Blank -> Optional(args[1])
        [] x.op = "Choice" -> ChoiceOf(deduplicate(args))
        [] x.op = "Seq" -> Sequence(FlattenSeq([i \in DOMAIN args |->
                             IF args[i].op = "Seq" THEN args[i].args ELSE <<args[i]>>]))
        [] OTHER -> [x EXCEPT !.args = args]

convert_rule(name, x) == IF IsTokenBody(x) THEN Token(name) ELSE convert(x)

of_tree_sitter(g) ==
  LET rules == [n \in DOMAIN g.rules |-> convert_rule(n, strip(g.rules[n]))]
               @@ [n \in g.externals |-> Token(n)]
  IN  prevent_cyclic_type_abbreviations(rules, tsort_rules(rules))

-----------------------------------------------------------------------------
(* Codegen_parse *)

\* The rules that the generated parser knows, with what their children match.
children_regexps(g) ==
  LET rules == of_tree_sitter(g)
      used  == detect_used({g.entrypoint} \cup g.extras,
                           g.rules @@ [n \in g.externals |-> Blank])
  IN  [n \in DOMAIN rules \cap used |-> rules[n]]

\* fmt_regexp and Backtrack_matcher: where a match of x that starts after the
\* first i of the tokens may end.
RECURSIVE Ends(_, _, _)
RECURSIVE EndsSeq(_, _, _)
RECURSIVE EndsRepeat(_, _, _)

EndsSeq(xs, tokens, from) ==
  IF xs = <<>> THEN from
  ELSE EndsSeq(Tail(xs), tokens, UNION {Ends(Head(xs), tokens, i) : i \in from})

EndsRepeat(x, tokens, from) ==
  LET more == from \cup UNION {Ends(x, tokens, i) : i \in from}
  IN  IF more = from THEN from ELSE EndsRepeat(x, tokens, more)

Ends(x, tokens, i) ==
  LET one(kind) == IF i < Len(tokens) /\ tokens[i + 1] = <<kind, x.name>> THEN {i + 1} ELSE {}
  IN  CASE x.op \in {"Symbol", "Alias"} -> one("name")
        [] x.op \in {"Constant", "Token"} -> one("literal")
        [] x.op = "Blank" -> {i}
        [] x.op = "Repeat" -> EndsRepeat(x.args[1], tokens, {i})
        [] x.op = "Repeat1" -> EndsRepeat(x.args[1], tokens, Ends(x.args[1], tokens, i))
        [] x.op = "Optional" -> {i} \cup Ends(x.args[1], tokens, i)
        [] x.op = "Choice" -> UNION {Ends(x.args[k], tokens, i) : k \in DOMAIN x.args}
        [] x.op = "Seq" -> EndsSeq(x.args, tokens, {i})

match_tree(x, tokens) == Len(tokens) \in Ends(x, tokens, 0)
=============================================================================
