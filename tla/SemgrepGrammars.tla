--------------------------- MODULE SemgrepGrammars --------------------------
(***************************************************************************)
(* The languages of lang/semgrep-grammars, by name.                        *)
(***************************************************************************)
EXTENDS JvmGrammars, CFamilyGrammars, ScriptGrammars, ContractGrammars, DataGrammars

Extensions ==
  {java, apex, kotlin, gosu, dart, scala, c, cpp, go, php, php_only, c_sharp, c_sharp_pro, rust, swift, hack,
   typescript, tsx, javascript, ruby, python, bash, powershell, r, julia, elixir, lua, cfml, cfquery, cfscript,
   solidity, circom, cairo, move_on_sui, move_on_aptos, html, hcl, jsonnet, dockerfile, promql, ql, fga, ocaml,
   haskell, clojure, gomod, make, proto, requirements, soql, sosl, sqlite, toml}

by_name(grammars) ==
  [l \in {g.name : g \in grammars} |-> loaded(CHOOSE g \in grammars : g.name = l)]

grammar_js == by_name(Extensions)
Languages  == DOMAIN grammar_js
=============================================================================
