------------------------------ MODULE Translate ------------------------------
(***************************************************************************)
(* From a source program to the typed tree: tree-sitter parses it with the *)
(* simplified grammar (external), and the generated parser (Codegen_parse, *)
(* Run) matches the tree it gives with the converted grammar.  The two     *)
(* come from one grammar by different ways and meet only here.             *)
(*                                                                         *)
(* tree is what tree-sitter derives, with the tokens it hides: first a     *)
(* derivation, then with extras between its nodes, errors and missing      *)
(* tokens.  The ghost field extra marks what was put in as an extra.       *)
(***************************************************************************)
EXTENDS Simplify

CONSTANTS
  Grammars,    (* the grammars to try                                      *)
  MaxDepth,    (* how deep rules are nested in a derivation                *)
  MaxRepeat,   (* how often a repetition is taken                          *)
  MaxEdits     (* how many extras, errors and missing tokens there are     *)

ASSUME TranslateAssumption == {MaxDepth, MaxRepeat, MaxEdits} \subseteq Nat

VARIABLES
  grammar,   (* as written                                                 *)
  generated, (* what tree-sitter and the parser are generated from         *)
  tree,
  edits,     (* how many edits were made                                   *)
  damaged,   (* whether one of them was not an extra                       *)
  result     (* of parse_input_tree                                        *)

vars == <<grammar, generated, tree, edits, damaged, result>>

TreeNode(kind, type, kids) ==
  [kind |-> kind, type |-> type, kids |-> kids, missing |-> FALSE, extra |-> FALSE]

Hidden   == TreeNode("hidden", "", <<>>)  \* a token without a node
Error(k) == TreeNode("error", "ERROR", k)

NoTree   == Hidden
NoResult == [root |-> "none", kept |-> 0, extras |-> <<>>, errors |-> <<>>]

Init ==
  /\ grammar \in Grammars
  /\ generated = [simple |-> grammar, regexps |-> <<>>]
  /\ tree = NoTree /\ edits = 0 /\ damaged = FALSE
  /\ result = NoResult

generate ==
  /\ generated.regexps = <<>>
  /\ LET simple == simplify_grammar(grammar)
     IN  generated' = [simple |-> simple, regexps |-> children_regexps(simple)]
  /\ UNCHANGED <<grammar, tree, edits, damaged, result>>

-----------------------------------------------------------------------------
(* tree-sitter *)

\* A rule that occurs in aliases only has one of them as its name everywhere.
default_name(g, n) ==
  LET nodes == AllSubnodes(g.rules)
      alias == {y.name : y \in {z \in nodes : z.op = "Alias" /\ z.args[1] = Symbol(n)}}
      plain == \/ \E r \in DOMAIN g.rules : g.rules[r] = Symbol(n)
               \/ \E y \in nodes : y.op # "Alias" /\ Symbol(n) \in ToSet(y.args)
  IN  IF plain \/ alias = {} THEN n ELSE CHOOSE a \in alias : TRUE

\* A literal that occurs in a body is a node under the rules it is the whole
\* body of.
token_kids(g, x) ==
  IF x.op = "Literal" /\ \E n \in DOMAIN g.rules : x \in ToSet(Tail(Subnodes(g.rules[n], {})))
  THEN <<TreeNode("literal", x.name, <<>>)>> ELSE <<>>

Concat(S, T) == {s \o t : s \in S, t \in T}

RECURSIVE Forests(_, _, _)
RECURSIVE Times(_, _, _, _)

\* The nodes of rule n, of type t.
RuleNodes(g, t, n, d) ==
  LET body == IF n \in g.externals THEN Pattern(n) ELSE strip(g.rules[n])
  IN  IF IsTokenBody(body) THEN {TreeNode("name", t, token_kids(g, body))}
      ELSE IF d = 0 THEN {}
      ELSE {TreeNode("name", t, k) : k \in Forests(g, body, d - 1)}

Times(g, x, k, d) ==
  IF k = 0 THEN {<<>>} ELSE Concat(Times(g, x, k - 1, d), Forests(g, x, d))

\* What body x derives, with at most d rules nested.
Forests(g, x, d) ==
  CASE x.op = "Symbol" -> {<<y>> : y \in RuleNodes(g, default_name(g, x.name), x.name, d)}
    [] x.op = "Alias" /\ x.args[1].op = "Symbol" ->
         {<<y>> : y \in RuleNodes(g, x.name, x.args[1].name, d)}
    [] x.op = "Alias" -> {<<TreeNode("name", x.name, <<>>)>>}
    [] x.op = "Literal" -> {<<TreeNode("literal", x.name, <<>>)>>}
    [] Unnamed(x) -> {<<Hidden>>}
    [] x.op = "Blank" -> {<<>>}
    [] x.op = "Repeat" -> UNION {Times(g, x.args[1], k, d) : k \in 0..MaxRepeat}
    [] x.op = "Repeat1" -> UNION {Times(g, x.args[1], k, d) : k \in 1..MaxRepeat}
    [] x.op = "Choice" -> UNION {Forests(g, x.args[k], d) : k \in DOMAIN x.args}
    [] x.op = "Seq" -> FoldLeft(LAMBDA S, y : Concat(S, Forests(g, y, d)), {<<>>}, x.args)
    [] x.op \in {"Prec", "Field"} -> Forests(g, x.args[1], d)

Extras(g) ==
  UNION {{[y EXCEPT !.extra = TRUE] : y \in RuleNodes(g, default_name(g, e), e, 1)} : e \in g.extras}

parse ==
  /\ generated.regexps # <<>> /\ tree = NoTree
  /\ LET g == generated.simple
     IN  tree' \in RuleNodes(g, g.entrypoint, g.entrypoint, MaxDepth)
  /\ UNCHANGED <<grammar, generated, edits, damaged, result>>

\* The trees that differ from y by one more of the nodes in new: at the ends of
\* the root and of errors, and between the children of others.
RECURSIVE Insertions(_, _, _)
Insertions(y, is_root, new) ==
  LET n   == Len(y.kids)
      gap == IF is_root \/ y.kind = "error" THEN 0..n ELSE 1..(n - 1)
  IN  {[y EXCEPT !.kids = SubSeq(y.kids, 1, i) \o <<z>> \o SubSeq(y.kids, i + 1, n)] : i \in gap, z \in new}
      \cup UNION {{[y EXCEPT !.kids[i] = z] : z \in Insertions(y.kids[i], FALSE, new)} : i \in 1..n}

RECURSIVE Omissions(_)
Omissions(y) ==
  IF y.kids = <<>>
  THEN IF y.kind = "error" \/ y.type = grammar.entrypoint THEN {} ELSE {[y EXCEPT !.missing = TRUE]}
  ELSE UNION {{[y EXCEPT !.kids[i] = z] : z \in Omissions(y.kids[i])} : i \in DOMAIN y.kids}

Edit(trees, damages) ==
  /\ tree # NoTree /\ result = NoResult /\ edits < MaxEdits
  /\ tree' \in trees
  /\ edits' = edits + 1
  /\ damaged' = (damaged \/ damages)
  /\ UNCHANGED <<grammar, generated, result>>

add_extra == Edit(Insertions(tree, TRUE, Extras(generated.simple)), FALSE)

\* What could not be parsed: a token, a part that was parsed, or everything.
add_error ==
  LET skipped == {<<>>, <<TreeNode("literal", "?", <<>>)>>} \cup {<<y>> : y \in ToSet(tree.kids)}
  IN  Edit(Insertions(tree, TRUE, {Error(k) : k \in skipped}) \cup {Error(tree.kids)}, TRUE)

make_missing == Edit(Omissions(tree) \ {tree}, TRUE)

-----------------------------------------------------------------------------
(* Run *)

\* Tree_sitter_output.of_ts_node: tokens without a node are not seen.
RECURSIVE of_ts_node(_)
of_ts_node(y) ==
  LET seen == SelectSeq(y.kids, LAMBDA z : z.kind # "hidden")
  IN  [y EXCEPT !.kids = [i \in DOMAIN seen |-> of_ts_node(seen[i])]]

is_extra(y) == y.type \in grammar.extras

keep_node(y) == y.kind # "error" /\ ~is_extra(y)

RECURSIVE remove_extras(_)
remove_extras(y) ==
  LET kept == SelectSeq(y.kids, keep_node)
  IN  [y EXCEPT !.kids = [i \in DOMAIN kept |-> remove_extras(kept[i])]]

\* How many tokens a node stands for: only the root can be without any.
RECURSIVE Tokens(_)
Tokens(y) ==
  IF y.kids = <<>> THEN IF y.kind = "name" /\ y.type = grammar.entrypoint THEN 0 ELSE 1
  ELSE FoldLeft(LAMBDA n, z : n + Tokens(z), 0, y.kids)

\* match_node: an exception, an error, a leaf with its text, or what matched
\* the children; and how many tokens of the program are in it.
Matched(out, kept) == [out |-> out, kept |-> kept]

RECURSIVE match_node(_)
match_node(y) ==
  LET regexps == generated.regexps
      kids    == [i \in DOMAIN y.kids |-> match_node(y.kids[i])]
      token(i) == <<IF kids[i].out = "error" THEN "error" ELSE y.kids[i].kind, y.kids[i].type>>
      tokens  == [i \in DOMAIN kids |-> token(i)]
  IN  CASE y.kind = "error" -> Matched("error", 0)
        [] y.kind = "literal" -> Matched("leaf", 1)
        [] y.kind = "name" /\ y.type \notin DOMAIN regexps -> Matched("exception", 0)
        [] y.kind = "name" /\ y.type \in DOMAIN regexps ->
             IF regexps[y.type].op = "Token" THEN Matched("leaf", Tokens(y))
             ELSE IF \E i \in DOMAIN kids : kids[i].out = "exception" THEN Matched("exception", 0)
             ELSE IF ~match_tree(regexps[y.type], tokens) THEN Matched("error", 0)
             ELSE Matched("children", FoldLeft(LAMBDA n, m : n + m.kept, 0, kids))

\* translate_tree, with the function for the rule called name: it takes apart
\* what it expects to be a leaf, or to be matched children.
translate_tree(y, name) ==
  LET m == match_node(y)
  IN  IF m.out \in {"error", "exception"} THEN m
      ELSE IF (m.out = "leaf") # (generated.regexps[name].op = "Token") THEN Matched("exception", 0)
      ELSE Matched("some", m.kept)

\* Mutant: an extra is taken without looking into it.
scan_nodes_for_extrasOnce(y, path) == is_extra(y)

scan_nodes_for_extras(y, path) == FALSE

\* The extras in the order of their beginnings, each translated on its own;
\* the paths to those that could be.
RECURSIVE scan_node_for_extras(_, _)
scan_node_for_extras(y, path) ==
  LET m    == translate_tree(remove_extras(y), y.type)
      here == IF is_extra(y) /\ m.out # "error" THEN <<[path |-> path, out |-> m.out]>> ELSE <<>>
  IN  here \o IF scan_nodes_for_extras(y, path) THEN <<>>
              ELSE FlattenSeq([i \in DOMAIN y.kids |-> scan_node_for_extras(y.kids[i], Append(path, i))])

RECURSIVE extract_error_nodes(_, _)
extract_error_nodes(y, path) ==
  IF y.kind = "error" \/ y.missing THEN <<path>>
  ELSE FlattenSeq([i \in DOMAIN y.kids |-> extract_error_nodes(y.kids[i], Append(path, i))])

\* Mutant: errors are looked for after the filters are applied.
parse_input_treePure ==
  LET root == of_ts_node(tree)
      pure == remove_extras(root)
      m    == translate_tree(pure, grammar.entrypoint)
  IN  [root |-> m.out, kept |-> m.kept, extras |-> scan_node_for_extras(root, <<>>),
       errors |-> extract_error_nodes(pure, <<>>)]

\* extract_errors, then translate.
parse_input_tree ==
  LET root == of_ts_node(tree)
      m    == translate_tree(remove_extras(root), grammar.entrypoint)
  IN  [root |-> m.out, kept |-> m.kept, extras |-> scan_node_for_extras(root, <<>>),
       errors |-> extract_error_nodes(root, <<>>)]

translate ==
  /\ tree # NoTree /\ result = NoResult
  /\ result' = parse_input_tree
  /\ UNCHANGED <<grammar, generated, tree, edits, damaged>>

Next == generate \/ parse \/ add_extra \/ add_error \/ make_missing \/ translate

Spec == Init /\ [][Next]_vars

-----------------------------------------------------------------------------
(* Properties *)

translated == result # NoResult

\* "The resulting CST is [None] if parsing failed completely, otherwise some
\* tree is returned even if some parsing errors occurred": whatever extras and
\* errors are in the tree, it is translated, unless its root is an error.
Translated == translated => (result.root = "error" <=> tree.kind = "error")

\* No "assert false" and no internal error is ever reached, in the tree or in
\* an extra, with or without errors in the program.
NoException ==
  translated =>
    /\ result.root # "exception"
    /\ \A i \in DOMAIN result.extras : result.extras[i].out = "some"

RECURSIVE PutIn(_, _)
PutIn(y, path) ==
  (IF y.extra THEN <<path>> ELSE <<>>)
  \o FlattenSeq([i \in DOMAIN y.kids |-> PutIn(y.kids[i], Append(path, i))])

\* The extras reported are those that were between the nodes of the program,
\* in order, one inside another and inside errors included, and none that the
\* grammar asked for.
ExtrasRight ==
  translated =>
    [i \in DOMAIN result.extras |-> result.extras[i].path] = PutIn(of_ts_node(tree), <<>>)

\* The list of errors is empty exactly for the programs that tree-sitter could
\* parse, also when the error is in an extra.
ErrorsReported == translated => (result.errors = <<>> <=> ~damaged)

RECURSIVE WithoutPutIn(_)
WithoutPutIn(y) ==
  LET own == SelectSeq(y.kids, LAMBDA z : ~z.extra)
  IN  [y EXCEPT !.kids = [i \in DOMAIN own |-> WithoutPutIn(own[i])]]

RECURSIVE Count(_, _)
Count(y, types) ==
  FoldLeft(LAMBDA n, z : n + Count(z, types), IF y.type \in types THEN 1 ELSE 0, y.kids)

\* Every token of a program without errors is in its tree, patterns and token()
\* constructs in anonymous places too, except those of extras used explicitly,
\* whose rules are blank.
Lossless ==
  translated /\ ~damaged =>
    LET blank == {n \in DOMAIN generated.regexps : generated.regexps[n] = Blank}
    IN  result.kept + Count(tree, blank) = Tokens(WithoutPutIn(tree))
=============================================================================
