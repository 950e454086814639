----------------------------- MODULE MCTranslate -----------------------------
(***************************************************************************)
(* Grammars for TLC, after those under core/test: extras used explicitly   *)
(* (implicit-extra), extras with a structure (extras), patterns and tokens *)
(* in anonymous places (anon-pat, token, prec), inlined rules, recursion,  *)
(* external tokens, a literal that is a rule and occurs in another.        *)
(***************************************************************************)
EXTENDS Translate

G(rules, extras, inlined, externals) ==
  [entrypoint |-> "program", rules |-> rules, extras |-> extras, inline |-> inlined, externals |-> externals]

\* The rules of a grammar, as lists of names and of bodies.
Rules(names, bodies) == [n \in ToSet(names) |-> bodies[CHOOSE i \in DOMAIN names : names[i] = n]]

L(s) == Literal(s)
S(n) == Symbol(n)
Num  == TokenOf("num", Pattern("[0-9]+"))

ImplicitExtra ==
  G(Rules(<<"program", "foo", "comma", "semi">>,
          <<Sequence(<<S("foo"), Repeat(Sequence(<<AnyOf(<<S("comma"), S("semi")>>), S("foo")>>))>>),
            L("foo"), L(","), L(";")>>),
    {"comma"}, {}, {})

\* The extra is used in two places, inside an alias and a field.
AliasedExtra ==
  G(Rules(<<"program", "list", "nl", "num">>,
          <<Sequence(<<S("list"), UserAlias("end", S("nl"))>>),
            Sequence(<<S("num"), Field(Maybe(S("nl"))), S("num")>>), Pattern("\\n"), Num>>),
    {"nl"}, {}, {})

ComplexExtra ==
  G(Rules(<<"program", "number", "comment", "complex">>,
          <<Repeat(S("number")), Num, Pattern("#.*"), Sequence(<<L("("), S("number"), L("A"), L(")")>>)>>),
    {"comment", "complex"}, {}, {})

Anonymous ==
  G(Rules(<<"program", "number", "word">>,
          <<Sequence(<<Num, Repeat1(AnyOf(<<Pattern("[a-z]"), S("number"), L("+")>>)), Maybe(S("word"))>>),
            Prec(Num), Pattern("[a-z]+")>>),
    {}, {}, {})

Inlined ==
  G(Rules(<<"program", "statement", "block", "x">>,
          <<Sequence(<<S("statement"), Maybe(S("block"))>>),
            AnyOf(<<L("a"), Sequence(<<L("b"), S("x")>>), UserAlias("y", L("a"))>>),
            Prec(Sequence(<<L("{"), Repeat(S("statement")), L("}")>>)), Pattern("x")>>),
    {"x"}, {"statement"}, {})

Recursive ==
  G(Rules(<<"program", "expr", "new">>,
          <<S("expr"), AnyOf(<<Prec(Num), Sequence(<<L("-"), S("expr")>>), S("new")>>),
            Sequence(<<L("["), Field(S("expr")), L("]"), Maybe(S("new"))>>)>>),
    {}, {}, {})

External ==
  G(Rules(<<"program", "if", "word">>,
          <<Sequence(<<S("if"), AnyOf(<<S("indent"), Sequence(<<L("if"), S("word")>>)>>), Maybe(S("heredoc"))>>),
            L("if"), Pattern("[a-z]+")>>),
    {"heredoc"}, {}, {"indent", "heredoc"})

MCGrammars == {ImplicitExtra, AliasedExtra, ComplexExtra, Anonymous, Inlined, Recursive, External}

\* The rule of an extra has the text of a keyword as its name.
Keyword ==
  G(Rules(<<"program", "comment", "name">>,
          <<Sequence(<<L("comment"), S("name")>>), Pattern("#.*"), Pattern("[a-z]+")>>),
    {"comment"}, {}, {})

KeywordGrammars == {Keyword}
=============================================================================
