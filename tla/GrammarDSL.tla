----------------------------- MODULE GrammarDSL -----------------------------
(***************************************************************************)
(* The functions of tree-sitter's dsl.js that the grammars of              *)
(* lang/semgrep-grammars are written with, and grammar(base, extension).   *)
(*                                                                         *)
(* Of the base grammar, which belongs to another project, an extension     *)
(* sees the names of the rules and, through previous, their bodies.  A     *)
(* field is its content: the typed tree does not tell them apart.          *)
(***************************************************************************)
EXTENDS Simplify

S(name)         == Symbol(name)
L(text)         == Literal(text)
choice(xs)      == AnyOf(xs)
seq(xs)         == Sequence(xs)
optional(x)     == Maybe(x)
repeat(x)       == Repeat(x)
repeat1(x)      == Repeat1(x)
prec(how, x)    == Node("Prec", how, <<x>>, <<>>)      \* prec, prec.left, ...
token(id, x)    == TokenOf(id, x)
alias(x, name)  == UserAlias(name, x)
symbols(names)  == [i \in DOMAIN names |-> S(names[i])]

commaSep1(x) == seq(<<x, repeat(seq(<<L(","), x>>))>>)
commaSep(x)  == optional(commaSep1(x))
trailing_commaSep(x) == optional(seq(commaSep1(x).args \o <<optional(L(","))>>))

\* Stand for the body of the base rule, and for ...previous.members.
previous == Node("Previous", "", <<>>, <<>>)
members  == Node("Members", "", <<>>, <<>>)

\* The ways in which most rules are extended.
extended(names) == choice(<<previous>> \o symbols(names))
preferred(names) == choice(symbols(names) \o <<previous>>)
spliced(names)  == choice(<<members>> \o symbols(names))

metavariable_regex   == Pattern("\\$[A-Z_][A-Z_0-9]*")
named_ellipsis_regex == Pattern("\\$\\.\\.\\.[A-Z_][A-Z_0-9]*")
deep(expression)     == seq(<<L("<..."), S(expression), L("...>")>>)

\* The second argument of grammar(), with the base grammar's start rule, called
\* "start" where the extension does not name it.  Rules in restates have the name
\* of a base rule and leave out its body.
Extension(name, entry, restates, conflicts, rules) ==
  [name |-> name, entry |-> entry, restates |-> restates, conflicts |-> conflicts,
   precedences |-> {}, externals |-> {}, inline |-> {}, rules |-> rules]

Unextended(name) == Extension(name, "start", {}, {}, <<>>)

-----------------------------------------------------------------------------
(* grammar(base, extension) *)

RECURSIVE NodesOf(_)
NodesOf(x) == {x} \cup UNION {NodesOf(x.args[i]) : i \in DOMAIN x.args}

Occurs(x, ops) == \E y \in NodesOf(x) : y.op \in ops
SymbolsOf(x)   == {y.name : y \in {z \in NodesOf(x) : z.op = "Symbol"}}

\* The names that $ is asked for.
Asked(g) ==
  UNION {SymbolsOf(g.rules[n]) : n \in DOMAIN g.rules}
  \cup UNION g.conflicts \cup UNION {ToSet(p) : p \in g.precedences}

\* The extension with what it asks of the base grammar, in all and by rule, and
\* the rules of the base grammar that it was written for.
loaded(g) ==
  LET having(ops) == {n \in DOMAIN g.rules : Occurs(g.rules[n], ops)}
      extending   == having({"Previous", "Members"})
      asked       == Asked(g)
  IN  [asked |-> asked, refers |-> [n \in DOMAIN g.rules |-> SymbolsOf(g.rules[n])],
       tokens |-> having({"TokenOf"}), extended |-> extending, spliced |-> having({"Members"}),
       known |-> {g.entry} \cup g.restates \cup extending \cup (asked \ (DOMAIN g.rules \cup g.externals))]
      @@ g

HasMembers(x) == x.op \in {"Choice", "Seq"}

\* A token is made of literals and patterns.
IsToken(x) == \A y \in NodesOf(x) : y.op = "TokenOf" => ~Occurs(y, {"Symbol"})

\* The body of a rule of the extension, given that of the base rule.
RECURSIVE evaluate(_, _)
evaluate(x, base) ==
  IF x.op = "Previous" THEN base
  ELSE LET args == [i \in DOMAIN x.args |-> evaluate(x.args[i], base)]
       IN  [x EXCEPT !.args = IF members \in ToSet(args)
              THEN FlattenSeq([i \in DOMAIN args |-> IF args[i] = members THEN base.args ELSE <<args[i]>>])
              ELSE args]

grammar_rules(g, base) ==
  [n \in DOMAIN g.rules \cup DOMAIN base |->
     IF n \notin DOMAIN g.rules THEN base[n]
     ELSE evaluate(g.rules[n], IF n \in DOMAIN base THEN base[n] ELSE Blank)]

\* Mutant: previous of a missing rule is taken for an empty rule.
throwsLate(g, base) ==
  LET rules == grammar_rules(g, base)
  IN  \/ ~(g.asked \subseteq DOMAIN rules \cup g.externals)
      \/ \E n \in g.spliced : n \notin DOMAIN base \/ ~HasMembers(base[n])
      \/ \E n \in g.tokens : ~IsToken(rules[n])

\* tree-sitter generate fails: $.name of an unknown rule, previous of one,
\* ...previous.members of a body without members, a rule in a token.
throws(g, base) ==
  LET rules == grammar_rules(g, base)
  IN  \/ ~(g.asked \subseteq DOMAIN rules \cup g.externals)
      \/ ~(g.extended \subseteq DOMAIN base)
      \/ \E n \in g.spliced : ~HasMembers(base[n])
      \/ \E n \in g.tokens : ~IsToken(rules[n])
=============================================================================
