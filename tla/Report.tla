------------------------------- MODULE Report -------------------------------
(***************************************************************************)
(* What a generated parser reports of an error: the region of the source,  *)
(* a snippet with the region highlighted, and the counts of bad lines      *)
(* (Src_file, Snippet, Tree_sitter_error, Parsing_result).                 *)
(*                                                                         *)
(* A character is its position in the source, so that what a string shows  *)
(* is known exactly; AddedLF is the newline that is put after a last line  *)
(* that has none.                                                          *)
(***************************************************************************)
EXTENDS Integers, Sequences, FiniteSets, SequencesExt

CONSTANTS normal_max_length, highlight_max_length, lines_before, lines_after

ASSUME ReportAssumption ==
  /\ {normal_max_length, highlight_max_length} \subseteq Nat \ {0, 1}
  /\ {lines_before, lines_after} \subseteq Nat

LF      == "\n"
AddedLF == 0
Blank   == -1   \* a space that is not in the source
Dots    == -2

Larger(a, b)  == IF a > b THEN a ELSE b
Smaller(a, b) == IF a < b THEN a ELSE b

-----------------------------------------------------------------------------
(* Src_file.  A source has its text and its lines.  Rows and columns start *)
(* at 0.                                                                   *)

\* The newlines among the first characters of text, for each number of them.
line_ends(text) ==
  LET ends[o \in 0 .. Len(text)] ==
        IF o = 0 THEN <<>>
        ELSE IF text[o] = LF THEN Append(ends[o - 1], o) ELSE ends[o - 1]
  IN  ends

\* The characters that follow the first a, up to b.
chars(a, b) == [i \in 1 .. b - a |-> a + i]

split_after_newline(text) ==
  LET lf    == line_ends(text)[Len(text)]
      first == <<0>> \o lf
      last  == Append(lf, Len(text))
  IN  [k \in DOMAIN first |-> chars(first[k], last[k])]

load_string(text) == [text |-> text, lines |-> split_after_newline(text)]

safe_get_row(src, row) ==
  IF row >= 0 /\ row < Len(src.lines) THEN src.lines[row + 1] ELSE <<>>

safe_substring(s, start, end) == SubSeq(s, Larger(0, start) + 1, Smaller(Len(s), end))

get_region(src, start, end) ==
  IF start.row = end.row
  THEN safe_substring(safe_get_row(src, start.row), start.column, end.column)
  ELSE IF start.row > end.row THEN <<>>
  ELSE LET first  == safe_get_row(src, start.row)
           middle == [k \in 1 .. end.row - start.row - 1 |-> safe_get_row(src, start.row + k)]
       IN  safe_substring(first, start.column, Len(first))
             \o FlattenSeq(middle)
             \o safe_substring(safe_get_row(src, end.row), 0, end.column)

is_LF(src, c) == c = AddedLF \/ (c > 0 /\ src.text[c] = LF)

-----------------------------------------------------------------------------
(* Snippet *)

Normal(s)    == [kind |-> "Normal", s |-> s]
Highlight(s) == [kind |-> "Highlight", s |-> s]
Ellipsis     == [kind |-> "Ellipsis", s |-> <<>>]

safe_sub(s, orig_start, orig_len) ==
  LET start == Smaller(Len(s), Larger(0, orig_start))
      end   == Smaller(Len(s), Larger(0, orig_start + orig_len))
  IN  SubSeq(s, start + 1, end)

before(s, pos) == safe_sub(s, 0, pos)
after(s, pos)  == safe_sub(s, pos, Len(s) - pos)

max_length(frag) ==
  IF frag.kind = "Normal" THEN normal_max_length ELSE highlight_max_length

shorten_fragment(frag) ==
  LET half == max_length(frag) \div 2
  IN  IF frag.kind = "Ellipsis" \/ Len(frag.s) <= max_length(frag)
      THEN <<frag>>
      ELSE <<[frag EXCEPT !.s = before(frag.s, half)], Ellipsis,
             [frag EXCEPT !.s = safe_sub(frag.s, Len(frag.s) - half, half)]>>

shorten_snippet_line(line) ==
  FlattenSeq([k \in DOMAIN line |-> shorten_fragment(line[k])])

add_missing_newline(src, line) ==
  IF line = <<>> \/ ~is_LF(src, line[Len(line)]) THEN Append(line, AddedLF) ELSE line

\* mutant: a region that is empty highlights nothing
extract_lineEmpty(line, row, start, end) ==
  IF row < start.row \/ row > end.row THEN <<Normal(line)>>
  ELSE IF start.row = end.row
  THEN <<Normal(before(line, start.column)),
         Highlight(after(before(line, end.column), start.column)),
         Normal(after(line, end.column))>>
  ELSE IF row = start.row
  THEN <<Normal(before(line, start.column)), Highlight(after(line, start.column))>>
  ELSE IF row = end.row
  THEN <<Highlight(before(line, end.column)), Normal(after(line, end.column))>>
  ELSE <<Highlight(line)>>

\* One line of a snippet: at least one character of the start is highlighted.
extract_line(line, row, start, end) ==
  LET end_column == Larger(start.column + 1, end.column)
  IN  IF row < start.row \/ row > end.row THEN <<Normal(line)>>
      ELSE IF start.row = end.row
      THEN <<Normal(before(line, start.column)),
             Highlight(after(before(line, end_column), start.column)),
             Normal(after(line, end_column))>>
      ELSE IF row = start.row
      THEN <<Normal(before(line, start.column)), Highlight(after(line, start.column))>>
      ELSE IF row = end.row
      THEN <<Highlight(before(line, end.column)), Normal(after(line, end.column))>>
      ELSE <<Highlight(line)>>

first_row(start)    == Larger(start.row - lines_before, 0)
last_row(src, end)  == Smaller(end.row + 1 + lines_after, Len(src.lines)) - 1

extract(src, start, end) ==
  [k \in 1 .. last_row(src, end) - first_row(start) + 1 |->
     LET row  == first_row(start) + k - 1
         line == add_missing_newline(src, safe_get_row(src, row))
     IN  shorten_snippet_line(extract_line(line, row, start, end))]

\* A highlighted newline by itself is shown as a blank.
lone_LF(src, frag) ==
  frag.kind = "Highlight" /\ Len(frag.s) = 1 /\ is_LF(src, frag.s[1])

format_line(src, line) ==
  FlattenSeq([k \in DOMAIN line |->
    CASE line[k].kind = "Ellipsis" -> <<Dots>>
      [] lone_LF(src, line[k])     -> <<Blank>> \o line[k].s
      [] OTHER                     -> line[k].s])

replace(src, s, char) == [i \in DOMAIN s |-> IF is_LF(src, s[i]) THEN LF ELSE char]

\* For style Text; a line with nothing to highlight is not underlined.
format_underline(src, line) ==
  IF \A k \in DOMAIN line : line[k].kind # "Highlight" THEN <<>>
  ELSE FlattenSeq([k \in DOMAIN line |->
         CASE line[k].kind = "Ellipsis" -> <<" ">>
           [] lone_LF(src, line[k])     -> <<"^", LF>>
           [] line[k].kind = "Normal"   -> replace(src, line[k].s, " ")
           [] OTHER                     -> replace(src, line[k].s, "^")])

-----------------------------------------------------------------------------
(* Tree_sitter_error and Parsing_result.  A node has its points and what   *)
(* error_class_of_node tells of it, NoClass for a root.                    *)

NoClass == "none"

create_error(src, node) ==
  [start_pos   |-> node.start_pos,
   end_pos     |-> node.end_pos,
   substring   |-> get_region(src, node.start_pos, node.end_pos),
   snippet     |-> extract(src, node.start_pos, node.end_pos),
   error_class |-> node.class]

Rows(err) == err.start_pos.row .. err.end_pos.row

count_error_lines(errors) == Cardinality(UNION {Rows(errors[k]) : k \in DOMAIN errors})

create_stat(src, errors) ==
  [total_line_count |-> Len(src.lines),
   error_line_count |-> count_error_lines(errors),
   error_count      |-> Len(errors)]
=============================================================================
