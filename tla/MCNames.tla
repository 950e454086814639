------------------------------ MODULE MCNames -------------------------------
(***************************************************************************)
(* Names for TLC: sequences of characters, of which only the underscore    *)
(* matters.                                                                *)
(***************************************************************************)
EXTENDS GrammarNames, TLC

MCCat(p, n) == CASE n = 0 -> p [] n = 1 -> Append(p, "_") [] OTHER -> Append(p, ToString(n))

\* remove_leading_underscores
RECURSIVE MCVisible(_)
MCVisible(s) ==
  IF s = <<>> THEN <<"x">> ELSE IF s[1] # "_" THEN s ELSE MCVisible(Tail(s))

Itself(s) == s

MCGiven == { << <<"c">>, <<"_", "c">>, <<"c", "_">> >>,
             << <<"c">>, <<"_", "c">>, <<"c">> >>,
             << <<"c">>, <<"c">>, <<"c", "_">> >> }
MCPrefix == { <<"c">>, <<"_", "_", "c">>, <<"c", "_">> }

Named == {MCCat(p, n) : p \in MCPrefix \cup UNION {{g[i] : i \in DOMAIN g} : g \in MCGiven}, n \in 0..MaxNames}
MCSrc   == Named \cup {MCCat(MCVisible(s), n) : s \in Named, n \in 0..NumGood}

MCReserved == { <<"c">>, <<"c", "_", "_">> }
=============================================================================
