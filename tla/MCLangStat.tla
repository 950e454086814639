----------------------------- MODULE MCLangStat -----------------------------
(***************************************************************************)
(* lang-stat on one project with any one short file, and on two projects   *)
(* or two files of a few kinds.  Fragments are short, so that lines of     *)
(* five characters are already shortened.                                  *)
(***************************************************************************)
EXTENDS LangStat

CONSTANTS MaxLength   \* of a text of which all regions are tried

Texts == UNION {[1 .. n -> {"x", LF}] : n \in 0 .. MaxLength}

Long == {<<"x", "x", "x", "x", "x", "x", LF>>,
         <<"x", LF, "x", "x", "x", "x", "x">>,
         <<LF, LF, "x", "x", LF, LF, LF>>}

Node(text, a, b, class) ==
  [start_pos |-> PointAt(text, a), end_pos |-> PointAt(text, b), class |-> class]

Nodes(text) ==
  {Node(text, r[1], r[2], "c") : r \in {q \in (0 .. Len(text)) \X (0 .. Len(text)) : q[1] <= q[2]}}

ParsedFile(text, errors, program) == [text |-> text, errors |-> errors, program |-> program]

OneError ==
  UNION {{ParsedFile(t, <<n>>, TRUE) : n \in Nodes(t)} : t \in Texts \cup Long}

Two   == <<"x", LF, "x", LF>>
Clean == ParsedFile(Two, <<>>, TRUE)
Lost  == ParsedFile(<<"x">>, <<Node(<<"x">>, 0, 1, NoClass)>>, FALSE)

SomeFiles ==
  {Clean, Lost, ParsedFile(<<>>, <<>>, FALSE),
   ParsedFile(Two, <<Node(Two, 0, 1, "c"), Node(Two, 1, 3, "d")>>, TRUE),
   ParsedFile(Two, <<Node(Two, 2, 2, "c")>>, TRUE)}

MCLeftovers == {[total_line_count |-> 7, error_line_count |-> 3, error_count |-> 2]}

MCProjectLists ==
  {<<>>}
    \cup {<< <<x>> >> : x \in OneError}
    \cup {<< <<x, y>> >> : x, y \in SomeFiles}
    \cup {<< <<x>>, <<y>> >> : x, y \in SomeFiles}
=============================================================================
