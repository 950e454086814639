------------------------------ MODULE LangStat ------------------------------
(***************************************************************************)
(* The statistics of a language: lang-stat runs the generated parser       *)
(* (Main.run) on the files of several projects, reads what it left in the  *)
(* project's stat.txt, and adds up; aggregate-parse-errors clusters the    *)
(* errors that all runs appended to one log.                               *)
(*                                                                         *)
(* lang-stat calls handle_project on the left of ||, so that set -e is off *)
(* in all of it: no failure in there stops anything.                       *)
(***************************************************************************)
EXTENDS Report

CONSTANTS
  ProjectLists,  (* each a sequence of projects, which are sequences of files *)
  Leftovers      (* what an earlier run may have left in a stat.txt           *)

Point == [row : Nat, column : Nat]

File == [text    : Seq(STRING),
         errors  : Seq([start_pos : Point, end_pos : Point, class : STRING]),
         program : BOOLEAN]

\* tree-sitter's point for the place after the first o characters.
PointAt(text, o) ==
  LET lf == line_ends(text)[o]
  IN  [row |-> Len(lf), column |-> IF lf = <<>> THEN o ELSE o - Last(lf)]

\* The points of a node are places in the text.
ASSUME ProjectsAssumption ==
  /\ ProjectLists \subseteq Seq(Seq(File))
  /\ \A list \in ProjectLists : \A k \in DOMAIN list : \A j \in DOMAIN list[k] :
       LET file == list[k][j]
       IN  \A n \in DOMAIN file.errors : \E a, b \in 0 .. Len(file.text) :
             /\ a <= b
             /\ file.errors[n].start_pos = PointAt(file.text, a)
             /\ file.errors[n].end_pos = PointAt(file.text, b)
  /\ Leftovers \subseteq [total_line_count : Nat, error_line_count : Nat, error_count : Nat]

ExternalError == 11   \* Main.Exit
InternalError == 12
AnyError      == 1
Killed        == 137  \* by a signal, or out of memory

VARIABLES
  projects,
  p, f,           (* the project and the file that are processed           *)
  pc,
  inputs,         (* the files found in the clone                          *)
  res,            (* of parsing the file                                   *)
  status,         (* exit status of the parser                             *)
  stat_txt,       (* in the workspace of each project                      *)
  json_log,       (* parse-error.json                                      *)
  count,          (* of the project                                        *)
  global_count,
  failed_inputs,
  csv,
  summary,
  died            (* ghost: the files on which the parser ended early      *)

vars == <<projects, p, f, pc, inputs, res, status, stat_txt, json_log, count,
          global_count, failed_inputs, csv, summary, died>>

NoCount == [errors |-> 0, lines |-> 0, error_lines |-> 0, ext |-> 0, int |-> 0, other |-> 0]
NoStat  == [total_line_count |-> 0, error_line_count |-> 0, error_count |-> 0]
NoTree  == [src |-> load_string(<<>>), errors |-> <<>>, program |-> FALSE]

Init ==
  /\ projects \in ProjectLists
  /\ p = 1 /\ f = 0 /\ pc = (IF projects = <<>> THEN "summary" ELSE "project")
  /\ inputs = <<>> /\ res = NoTree /\ status = 0
  /\ \E left \in Leftovers \cup {NoStat} : stat_txt = [k \in DOMAIN projects |-> left]
  /\ json_log = <<>>
  /\ count = NoCount /\ global_count = [lines |-> 0, error_lines |-> 0]
  /\ failed_inputs = {} /\ csv = <<>> /\ summary = <<>> /\ died = {}

-----------------------------------------------------------------------------
(* The parser.  What tree-sitter and the matcher make of the file is part  *)
(* of it here: the nodes of its errors and whether there is a tree.        *)

parse_input_tree(file) ==
  LET src == load_string(file.text)
  IN  [src     |-> src,
       errors  |-> [k \in DOMAIN file.errors |-> create_error(src, file.errors[k])],
       program |-> file.program]

\* mutant: the errors do not make the parse fail once there is a tree
exit_codeTree(r) == IF r.program THEN 0 ELSE ExternalError

exit_code(r) == IF r.program /\ r.errors = <<>> THEN 0 ELSE ExternalError

\* An empty stat.txt reads as zeros in shell arithmetic, so does none.
export_stat ==
  /\ pc = "parser"
  /\ stat_txt' = [stat_txt EXCEPT ![p] = create_stat(res.src, res.errors)]
  /\ pc' = "log"
  /\ UNCHANGED <<projects, p, f, inputs, res, status, json_log, count, global_count,
                 failed_inputs, csv, summary, died>>

to_json_error(err) ==
  [class |-> err.error_class, lines |-> err.end_pos.row - err.start_pos.row + 1]

\* mutant: the log is opened as stat.txt is, without Open_append
log_json_errorsTruncated ==
  /\ pc = "log"
  /\ json_log' = [k \in DOMAIN res.errors |-> to_json_error(res.errors[k])]
  /\ status' = exit_code(res)
  /\ pc' = "exit"
  /\ UNCHANGED <<projects, p, f, inputs, res, stat_txt, count, global_count,
                 failed_inputs, csv, summary, died>>

log_json_errors ==
  /\ pc = "log"
  /\ json_log' = json_log \o [k \in DOMAIN res.errors |-> to_json_error(res.errors[k])]
  /\ status' = exit_code(res)
  /\ pc' = "exit"
  /\ UNCHANGED <<projects, p, f, inputs, res, stat_txt, count, global_count,
                 failed_inputs, csv, summary, died>>

\* An exception of the matcher or of a dump before anything is written, or a
\* failure to write, after some errors; or the system ends the process.
safe_run(s) ==
  /\ pc \in {"parser", "log"}
  /\ status' = s
  /\ pc' = "exit"
  /\ IF pc = "parser"
     THEN died' = died \cup {<<p, f>>} /\ UNCHANGED json_log
     ELSE /\ \E n \in 0 .. Len(res.errors) :
               json_log' = json_log \o [k \in 1 .. n |-> to_json_error(res.errors[k])]
          /\ UNCHANGED died
  /\ UNCHANGED <<projects, p, f, inputs, res, stat_txt, count, global_count,
                 failed_inputs, csv, summary>>

-----------------------------------------------------------------------------
(* lang-stat *)

wc_l(text) == Cardinality({i \in DOMAIN text : text[i] = LF})

\* A project that cannot be cloned, or has another URL, is one without files.
handle_project(cloned) ==
  /\ pc = "project"
  /\ inputs' = IF cloned THEN projects[p] ELSE <<>>
  /\ count' = NoCount
  /\ f' = 0 /\ pc' = "next"
  /\ UNCHANGED <<projects, p, res, status, stat_txt, json_log, global_count,
                 failed_inputs, csv, summary, died>>

start_parse ==
  /\ pc = "next" /\ f < Len(inputs)
  /\ f' = f + 1
  /\ res' = parse_input_tree(inputs[f + 1])
  /\ count' = [count EXCEPT !.lines = @ + wc_l(inputs[f + 1].text)]
  /\ pc' = "parser"
  /\ UNCHANGED <<projects, p, inputs, status, stat_txt, json_log, global_count,
                 failed_inputs, csv, summary, died>>

classify(c) ==
  [c EXCEPT !.ext   = IF status = ExternalError THEN @ + 1 ELSE @,
            !.int   = IF status = InternalError THEN @ + 1 ELSE @,
            !.other = IF status \notin {0, ExternalError, InternalError} THEN @ + 1 ELSE @]

\* The numbers of stat.txt are read whoever wrote it.
parse ==
  /\ pc = "exit"
  /\ count' = [classify(count) EXCEPT
                 !.errors      = IF status = 0 THEN @ ELSE @ + stat_txt[p].error_count,
                 !.error_lines = IF status = 0 THEN @ ELSE @ + stat_txt[p].error_line_count]
  /\ failed_inputs' = IF status = 0 THEN failed_inputs ELSE failed_inputs \cup {<<p, f>>}
  /\ res' = NoTree
  /\ pc' = "next"
  /\ UNCHANGED <<projects, p, f, inputs, status, stat_txt, json_log, global_count,
                 csv, summary, died>>

end_project ==
  /\ pc = "next" /\ f = Len(inputs)
  /\ csv' = Append(csv, [files |-> f, count |-> count])
  /\ global_count' = [lines       |-> global_count.lines + count.lines,
                      error_lines |-> global_count.error_lines + count.error_lines]
  /\ p' = p + 1
  /\ pc' = IF p = Len(projects) THEN "summary" ELSE "project"
  /\ UNCHANGED <<projects, f, inputs, res, status, stat_txt, json_log, count,
                 failed_inputs, summary, died>>

-----------------------------------------------------------------------------
(* The end: set -e is on again, and awk fails on a division by zero.       *)

parse_json_error_log(log) ==
  LET of(c) == {k \in DOMAIN log : log[k].class = c}
      lines == [k \in DOMAIN log |-> log[k].lines]
  IN  [c \in {log[k].class : k \in DOMAIN log} \ {NoClass} |->
         [num_errors |-> Cardinality(of(c)),
          num_lines  |-> SumFunctionOnSet(lines, of(c))]]

\* Without a project there is no log to read, and main ends there.
aggregate_errors ==
  /\ pc = "summary" /\ projects # <<>>
  /\ summary' = [clusters |-> parse_json_error_log(json_log),
                 coverage |-> IF global_count.lines = 0 THEN <<>>
                              ELSE <<global_count.lines - global_count.error_lines,
                                     global_count.lines>>]
  /\ pc' = "done"
  /\ UNCHANGED <<projects, p, f, inputs, res, status, stat_txt, json_log, count,
                 global_count, failed_inputs, csv, died>>

Next ==
  \/ \E cloned \in BOOLEAN : handle_project(cloned)
  \/ start_parse \/ export_stat \/ log_json_errors
  \/ \E s \in {AnyError, InternalError, Killed} : safe_run(s)
  \/ parse \/ end_project \/ aggregate_errors

Spec == Init /\ [][Next]_vars

-----------------------------------------------------------------------------
(* Properties *)

LastRow(src) == Len(src.lines) - 1

\* The characters of a region by their positions in the text.
Offset(src, pos) == CHOOSE o \in 0 .. Len(src.text) : PointAt(src.text, o) = pos

Region(src, err) == Offset(src, err.start_pos) + 1 .. Offset(src, err.end_pos)

\* What has to be highlighted: the region, or if it is empty what is there.
Target(src, err) ==
  IF Region(src, err) # {} THEN Region(src, err)
  ELSE LET o == Offset(src, err.start_pos) + 1
       IN  IF o <= Len(src.text) THEN {o} ELSE {AddedLF}

Characters(line, kind) ==
  UNION {{line[k].s[i] : i \in DOMAIN line[k].s} : k \in {j \in DOMAIN line : line[j].kind = kind}}

Complete(line) == \A k \in DOMAIN line : line[k].kind # "Ellipsis"

\* One line of the snippet shows the line of the source, or the two ends of
\* it, highlights exactly what it shows of the target, and has a caret under
\* all of that and under nothing else.
LineRight(src, err, row, line) ==
  LET whole == add_missing_newline(src, safe_get_row(src, row))
      here  == {whole[i] : i \in DOMAIN whole}
      hl    == Characters(line, "Highlight")
      text  == FlattenSeq([k \in DOMAIN line |-> line[k].s])
      above == format_line(src, line)
      under == format_underline(src, line)
  IN  /\ Complete(line) => text = whole
      /\ text[1] = whole[1] /\ text[Len(text)] = whole[Len(whole)]
      /\ hl = Target(src, err) \cap (hl \cup Characters(line, "Normal"))
      /\ (Target(src, err) \cap here # {}) => hl # {}
      /\ \A k \in DOMAIN line : Len(line[k].s) <= max_length(line[k])
      /\ under # <<>> =>
           /\ Len(under) = Len(above)
           /\ \A i \in DOMAIN under :
                /\ (under[i] = "^") <=> (~is_LF(src, above[i]) /\ above[i] \in hl \cup {Blank})
                /\ (under[i] = LF) <=> is_LF(src, above[i])

\* What is reported of an error is the text between its two points, and its
\* lines with those around them, with exactly that text highlighted, however
\* the points lie to the ends of lines, of the snippet and of the file.
ErrorsLocated ==
  \A k \in DOMAIN res.errors :
    LET err == res.errors[k]
        src == res.src
        top == first_row(err.start_pos)
    IN  /\ err.substring = chars(Offset(src, err.start_pos), Offset(src, err.end_pos))
        /\ top + Len(err.snippet) - 1 \in
             err.end_pos.row .. Smaller(err.end_pos.row + lines_after, LastRow(src))
        /\ \A j \in DOMAIN err.snippet : LineRight(src, err, top + j - 1, err.snippet[j])

Failed(k) == {j \in DOMAIN projects[k] : <<k, j>> \in failed_inputs}

Bad(file) == ~file.program \/ file.errors # <<>>

BadLines(file) ==
  {r \in 0 .. Len(file.text) :
     \E k \in DOMAIN file.errors : r \in file.errors[k].start_pos.row .. file.errors[k].end_pos.row}

Errors(k)     == [j \in DOMAIN projects[k] |-> Len(projects[k][j].errors)]
ErrorLines(k) == [j \in DOMAIN projects[k] |-> Cardinality(BadLines(projects[k][j]))]

\* A row of stat.csv counts every failed file in one of its three columns of
\* errors; the files that failed are those without a tree or with an error,
\* and those on which the parser was ended; and as long as the parser always
\* lived to write stat.txt, the row has all errors and all bad lines of the
\* failed files and of no others.
RowsAddUp ==
  \A k \in DOMAIN csv :
    LET files == 1 .. csv[k].files
        bad   == {j \in files : Bad(projects[k][j])}
        row   == csv[k].count
    IN  /\ row.ext + row.int + row.other = Cardinality(Failed(k))
        /\ bad \subseteq Failed(k)
        /\ (\A j \in files : <<k, j>> \notin died) =>
             /\ row.errors = SumFunctionOnSet(Errors(k), bad)
             /\ row.error_lines = SumFunctionOnSet(ErrorLines(k), bad)

\* The errors of the files that the rows count: <<<<project, file>>, number>>.
Reported == UNION {UNION {{<<<<k, j>>, n>> : n \in DOMAIN projects[k][j].errors} : j \in 1 .. csv[k].files} : k \in DOMAIN csv}

ErrorNode(e) == projects[e[1][1]][e[1][2]].errors[e[2]]

\* Errors get into the clusters of aggregate-parse-errors over one log that all
\* parsers append to, and into the rows of stat.csv over a stat.txt for each
\* project.  No cluster has an error of a file that no row counts, or one twice;
\* and if no row has an internal or another error, the clusters have every error
\* with a class of the files of all projects, and its lines.
ClustersAddUp ==
  pc = "done" =>
    LET clusters == summary.clusters
        of(c)    == {e \in Reported : ErrorNode(e).class = c}
        lines    == [e \in Reported |-> ErrorNode(e).end_pos.row - ErrorNode(e).start_pos.row + 1]
    IN  /\ \A c \in DOMAIN clusters : c # NoClass /\ clusters[c].num_errors \in 1 .. Cardinality(of(c))
        /\ (\A k \in DOMAIN csv : csv[k].count.int = 0 /\ csv[k].count.other = 0) =>
             \A e \in Reported : LET c == ErrorNode(e).class
                                IN  c # NoClass =>
                                      /\ c \in DOMAIN clusters
                                      /\ clusters[c].num_errors = Cardinality(of(c))
                                      /\ clusters[c].num_lines = SumFunctionOnSet(lines, of(c))
=============================================================================
