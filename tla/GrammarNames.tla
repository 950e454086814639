---------------------------- MODULE GrammarNames ----------------------------
(***************************************************************************)
(* The names of the rules of a grammar on their way to OCaml identifiers:  *)
(* the simplifier makes names of its own (Fresh, for explicit extras and   *)
(* unnamed tokens) and translates all of them to visible tree-sitter names *)
(* (S, a translation without reserved words), and the code generator reads *)
(* the result back and translates it to OCaml identifiers (ProtectIdent).  *)
(* The two passes of the simplifier that make names have a scope each, the *)
(* second one given the names of the first: one scope stands for both.     *)
(***************************************************************************)
EXTENDS Fresh, ProtectIdent

CONSTANT Visible(_)  (* lower case without leading underscores             *)

VARIABLES sForward, sBackward, sCall

sVars == <<sForward, sBackward, sCall>>
allVars == <<scopeVars, sVars, mapVars>>

S == INSTANCE ProtectIdent WITH
       forward <- sForward, backward <- sBackward, call <- sCall,
       Preferred <- Visible, Reserved <- {}

Init == create_scope /\ S!MapInit /\ MapInit

Simplified == sCall = <<>> /\ names # {} /\ names \subseteq DOMAIN sForward

\* alias_extras and work_around_missing_nodes.
MakeNames == ScopeNext /\ sForward = S!create /\ sCall = <<>> /\ UNCHANGED <<sVars, mapVars>>

\* make_name_translator of the simplifier, once the names are made: any name,
\* as often as it occurs in the grammar.
Simplify ==
  /\ Len(issued) >= Len(given) /\ duplicates = {}
  /\ forward = create /\ call = <<>>
  /\ S!Try \/ \E name \in names : S!Call(name)
  /\ UNCHANGED <<scopeVars, mapVars>>

\* translate_ident of the code generator, in another process.
Codegen ==
  /\ Simplified
  /\ Try \/ \E name \in names : Call(sForward[name])
  /\ UNCHANGED <<scopeVars, sVars>>

Next == MakeNames \/ Simplify \/ Codegen

Spec == Init /\ [][Next]_allVars

\* add_translation is a function that is run to its end.
FairSpec == Spec /\ WF_allVars(Simplify /\ S!Try) /\ WF_allVars(Codegen /\ Try)

-----------------------------------------------------------------------------
(* Properties *)

\* Two rules of a grammar never share an OCaml type, and no rule gets a type
\* that the language or the generated code has already.
OneTypePerRule ==
  \A a, b \in names \cap DOMAIN sForward :
    {sForward[a], sForward[b]} \subseteq DOMAIN forward =>
      /\ forward[sForward[a]] = forward[sForward[b]] => a = b
      /\ forward[sForward[a]] \notin Reserved

\* Every call of add_translation returns, with no more sources that prefer
\* one destination than there are good suffixes.
Answers == (call # <<>> ~> call = <<>>) /\ (sCall # <<>> ~> sCall = <<>>)
=============================================================================
