---------------------------- MODULE GrammarUpdate ---------------------------
(***************************************************************************)
(* An upstream grammar changes and Semgrep's extension of it does not: the *)
(* extension is evaluated again, and its rules go through the generator to *)
(* a parser (Translate).  Upstream's grammars are external: a behavior     *)
(* follows one rule of one language, the changes upstream makes to it, and *)
(* what is parsed as that rule, where the other rules are tokens.          *)
(***************************************************************************)
EXTENDS Translate, SemgrepGrammars

CONSTANT MaxUpdates   (* how often upstream changes the rule *)

ASSUME GrammarUpdateAssumption == MaxUpdates \in Nat

VARIABLES
  language,
  rule,
  upstream,   (* the body that the rule has upstream, Gone without the rule *)
  moved,      (* bodies upstream moved to a rule of their own               *)
  updates,
  evaluated   (* of the extension: "no", "failed" or "done"                 *)

source == <<language, rule, upstream, moved, updates>>

Gone == Node("Gone", "", <<>>, <<>>)

extension   == grammar_js[language]
AllRules(g) == g.known \cup DOMAIN g.rules

\* What upstream had when the extension was written: a token where the extension
\* puts it into one, alternatives elsewhere.
Original(g, n) ==
  IF n \in DOMAIN g.rules /\ g.rules[n].op = "TokenOf" THEN Pattern("upstream")
  ELSE choice(<<L("first"), L("second")>>)

\* The base grammar; nothing else refers to the rules that upstream splits off.
Splits == [n \in {"_split" \o ToString(i) : i \in DOMAIN moved} |->
             moved[CHOOSE i \in DOMAIN moved : n = "_split" \o ToString(i)]]
Kept(g)   == IF upstream = Gone THEN g.known \ {rule} ELSE g.known
BaseOf(g) == [n \in Kept(g) |-> IF n = rule THEN upstream ELSE Original(g, n)] @@ Splits
base      == BaseOf(extension)

NoGrammar == [entrypoint |-> "", rules |-> <<>>, extras |-> {}, inline |-> {}, externals |-> {}]

UpdateInit ==
  /\ language \in Languages
  /\ rule \in AllRules(extension)
  /\ upstream = IF rule \in extension.known THEN Original(extension, rule) ELSE Gone
  /\ moved = <<>> /\ updates = 0
  /\ evaluated = "no"
  /\ grammar = NoGrammar /\ generated = [simple |-> NoGrammar, regexps |-> <<>>]
  /\ tree = NoTree /\ edits = 0 /\ damaged = FALSE /\ result = NoResult

-----------------------------------------------------------------------------
(* Upstream *)

Update(body, splits) ==
  /\ evaluated = "no" /\ updates < MaxUpdates
  /\ upstream # Gone
  /\ upstream' = body
  /\ moved' = splits
  /\ updates' = updates + 1
  /\ UNCHANGED <<language, rule, evaluated, vars>>

add_alternative ==
  LET new == Pattern("new" \o ToString(updates))
  IN  Update(choice(IF upstream.op = "Choice" THEN Append(upstream.args, new) ELSE <<upstream, new>>), moved)
make_sequence   == Update(seq(<<Pattern("start" \o ToString(updates)), upstream>>), moved)
add_precedence  == Update(prec("1", upstream), moved)
split_rule      == Update(S("_split" \o ToString(Len(moved) + 1)), Append(moved, upstream))
rename_or_drop  == Update(Gone, moved)

-----------------------------------------------------------------------------
(* The extended grammar, and a parser for the rule *)

\* The rule and what it refers to.
Slice(g, rules) ==
  LET refs  == SymbolsOf(rules[rule]) \ {rule}
      own(n) == n \in DOMAIN g.rules /\ IsTokenBody(strip(rules[n]))
  IN  [entrypoint |-> rule,
       rules |-> [n \in {rule} \cup (refs \ g.externals) |->
                    IF n = rule \/ own(n) THEN rules[n] ELSE Pattern(n)],
       extras |-> {}, inline |-> g.inline \ {rule}, externals |-> refs \cap g.externals]

evaluate_grammar ==
  /\ evaluated = "no"
  /\ IF throws(extension, base)
     THEN evaluated' = "failed" /\ UNCHANGED grammar
     ELSE /\ evaluated' = "done"
          /\ IF rule \in DOMAIN extension.rules THEN grammar' = Slice(extension, grammar_rules(extension, base))
             ELSE UNCHANGED grammar
  /\ UNCHANGED <<source, generated, tree, edits, damaged, result>>

generate_parser ==
  /\ grammar # NoGrammar
  /\ generate
  /\ UNCHANGED <<source, evaluated>>

parse_and_translate ==
  /\ parse \/ translate
  /\ UNCHANGED <<source, evaluated>>

UpdateNext ==
  \/ add_alternative \/ make_sequence \/ add_precedence \/ split_rule \/ rename_or_drop
  \/ evaluate_grammar \/ generate_parser \/ parse_and_translate

UpdateSpec == UpdateInit /\ [][UpdateNext]_<<source, evaluated, vars>>

-----------------------------------------------------------------------------
(* Properties *)

\* What a body derives, up to rules and tokens.
RECURSIVE Yields(_)
Yields(x) ==
  CASE x.op \in {"Symbol", "Literal", "Pattern"} -> {<<x>>}
    [] x.op = "Blank" -> {<<>>}
    [] x.op = "Choice" -> UNION {Yields(x.args[i]) : i \in DOMAIN x.args}
    [] x.op = "Seq" -> FoldLeft(LAMBDA forms, y : Concat(forms, Yields(y)), {<<>>}, x.args)
    [] x.op = "Repeat" -> {<<>>} \cup Yields(x.args[1])
    [] OTHER -> Yields(x.args[1])

\* ...previous.members of a sequence are taken for alternatives.
Scattered == rule \in extension.spliced /\ upstream.op = "Seq"

\* Whatever upstream does to a rule that an extension adds to, either the
\* extension is refused or every form that upstream gives the rule is a form of
\* the extended rule, so that target programs are parsed as upstream parses
\* them.  The exception: a rule that became a sequence under ...previous.members.
UpstreamParsed ==
  evaluated = "done" /\ upstream # Gone /\ rule \notin extension.restates =>
    (Yields(upstream) \subseteq Yields(grammar_rules(extension, base)[rule])) # Scattered

\* The rules reached from the start when upstream has the rules in known: a rule
\* with a body from upstream may lead to any of them.
Reached(g, known) ==
  LET next == [n \in AllRules(g) \cup g.externals |->
                 (IF n \in DOMAIN g.rules THEN g.refers[n] ELSE {})
                 \cup (IF n \in g.extended \/ n \notin DOMAIN g.rules THEN known ELSE {})]
  IN  Reach(next, IF g.entry \in known THEN {g.entry} ELSE known)

Constructs == [l \in Languages |-> LET g == grammar_js[l] IN Reached(g, g.known) \ g.known]

\* When upstream renames or drops a rule, the extension is refused, or every
\* construct of Semgrep that patterns could use before can still be used.  The
\* exception: a rule that the extension restates, whose restatement is then a
\* rule that nothing leads to.
ConstructsKept ==
  evaluated = "done" /\ upstream = Gone /\ rule \notin extension.restates =>
    Constructs[language] \subseteq Reached(extension, Kept(extension))
=============================================================================
