-------------------------- MODULE BacktrackMatcher --------------------------
(***************************************************************************)
(* The backtracking matcher of the OCaml runtime                           *)
(* (core/src/run/lib/Backtrack_matcher.ml), which assigns the children of  *)
(* a tree-sitter node to the regular expression of its grammar rule.       *)
(*                                                                         *)
(* The code is written in continuation-passing style: `cont` says what     *)
(* remains to be matched, and the OCaml call stack remembers the           *)
(* alternatives to try when a call returns None.  Here both are data: a    *)
(* continuation is the stack `kont` of the closures it is built from, the  *)
(* pending `None -> ...` branches are the stack `choices`, and `call` is   *)
(* the function about to run.  A list of remaining tokens is a suffix of   *)
(* `input`, represented by `pos`, the number of tokens already consumed;   *)
(* physical equality of two suffixes of one list is equality of `pos`.     *)
(* `path` is kept in reading order, the reverse of the code's list, so     *)
(* the final List.rev of match_ has nothing left to do.                    *)
(***************************************************************************)
EXTENDS Naturals, Sequences

CONSTANTS
  Kind,       (* the token kinds                                           *)
  Exp,        (* a set of expressions, closed under subexpression          *)
  RootExp,    (* the expressions match_tree may be called with             *)
  Input       (* the token lists it may be called with                     *)

Ops == {"Token", "Repeat", "Repeat1", "Opt", "Alt", "Seq", "Nothing"}

\* An expression is a record: its constructor, the kind it expects (of use
\* to Token only) and its subexpressions.
ASSUME ExpAssumption ==
  /\ \A e \in Exp :
        /\ e.op \in Ops
        /\ e.kind \in Kind
        /\ e.args \in Seq(Exp)
        /\ e.op \in {"Repeat", "Repeat1", "Opt"} => Len(e.args) = 1
  /\ RootExp \subseteq Exp
  /\ Input \subseteq Seq(Kind)

VARIABLES
  input,      (* the kinds of the tokens of the list being matched         *)
  root,       (* the expression it is matched against                      *)
  call,       (* the function about to run and its arguments               *)
  path,       (* tokens and punctuation read so far                        *)
  pos,        (* the number of tokens of input consumed so far             *)
  kont,       (* the continuation: its last element runs first             *)
  choices     (* the alternatives still open: the last is tried first      *)

vars == <<input, root, call, path, pos, kont, choices>>

-----------------------------------------------------------------------------
(* Paths *)

Enter == {"Enter_repeat", "Enter_repeat1", "Enter_opt", "Enter_alt", "Enter_seq"}
Leave == {"Leave_repeat", "Leave_repeat1", "Leave_opt", "Leave_alt", "Leave_seq"}

\* `n` is the position of a token in the input, or the case of an Enter_alt.
PathElt == [elt : {"Token", "Nothing"} \cup Enter \cup Leave, n : Nat]

Token(n)     == [elt |-> "Token", n |-> n]
Punct(p)     == [elt |-> p, n |-> 0]
EnterAlt(i)  == [elt |-> "Enter_alt", n |-> i]

-----------------------------------------------------------------------------
(* Calls, continuations and choice points *)

Fns == {"match_exp", "match_repeat", "match_repeat1", "match_opt",
        "match_case", "match_seq"}

\* The matching function f applied to e; i is the case of match_case and the
\* first element of the list of match_seq.
Call(f, e, i) == [fn |-> f, exp |-> e, i |-> i]

\* "cont" applies the continuation, "fail" returns None to the caller and
\* "some" and "none" are the two results of match_.
Control == {"cont", "fail", "some", "none"}
Go(f)   == Call(f, root, 0)

\* The closures continuations are made of.  A Leave_x frame emits its
\* punctuation; after_exp holds the repeated expression and tokens0; and
\* match_seq holds the sequence and the index of the expression to read next.
Frame == [frame : Leave \cup {"after_exp", "match_seq"}, exp : Exp, n : Nat]
Push(s, f, e, n) == Append(s, [frame |-> f, exp |-> e, n |-> n])
Top(s) == s[Len(s)]
Pop(s) == SubSeq(s, 1, Len(s) - 1)

\* What is run when the call made under the choice point returns None.
Choice == [alt  : {"after_repeat", "after_opt", "next_case"},
           exp  : Exp,
           i    : Nat,
           path : Seq(PathElt),
           pos  : Nat,
           kont : Seq(Frame)]
Or(alt, e, i) == [alt |-> alt, exp |-> e, i |-> i,
                  path |-> path, pos |-> pos, kont |-> kont]

-----------------------------------------------------------------------------
Init ==
  /\ root \in RootExp
  /\ input \in Input
  /\ call = Call("match_exp", root, 0)
  /\ path = <<>>
  /\ pos = 0
  /\ kont = <<>>
  /\ choices = <<>>

Calling(f)    == call.fn = f
Matching(op)  == Calling("match_exp") /\ call.exp.op = op

-----------------------------------------------------------------------------
(* The matching functions *)

\* match_exp on a Token whose kind is that of the next token.
MatchToken ==
  /\ Matching("Token")
  /\ pos < Len(input)
  /\ input[pos + 1] = call.exp.kind
  /\ path' = Append(path, Token(pos + 1))
  /\ pos' = pos + 1
  /\ call' = Go("cont")
  /\ UNCHANGED <<input, root, kont, choices>>

MismatchToken ==
  /\ Matching("Token")
  /\ \/ pos = Len(input)
     \/ pos < Len(input) /\ input[pos + 1] # call.exp.kind
  /\ call' = Go("fail")
  /\ UNCHANGED <<input, root, path, pos, kont, choices>>

MatchNothing ==
  /\ Matching("Nothing")
  /\ path' = Append(path, Punct("Nothing"))
  /\ call' = Go("cont")
  /\ UNCHANGED <<input, root, pos, kont, choices>>

\* match_exp on Repeat, Repeat1 and Opt: emit Enter_x, arrange for Leave_x to
\* be emitted by the continuation and call match_x on the subexpression.
EnterQuantifier(op, enter, leave, f) ==
  /\ Matching(op)
  /\ path' = Append(path, Punct(enter))
  /\ kont' = Push(kont, leave, call.exp, 0)
  /\ call' = Call(f, call.exp.args[1], 0)
  /\ UNCHANGED <<input, root, pos, choices>>

EnterRepeat  == EnterQuantifier("Repeat", "Enter_repeat", "Leave_repeat", "match_repeat")
EnterRepeat1 == EnterQuantifier("Repeat1", "Enter_repeat1", "Leave_repeat1", "match_repeat1")
EnterOpt     == EnterQuantifier("Opt", "Enter_opt", "Leave_opt", "match_opt")

EnterSeq ==
  /\ Matching("Seq")
  /\ path' = Append(path, Punct("Enter_seq"))
  /\ call' = Call("match_seq", call.exp, 1)
  /\ UNCHANGED <<input, root, pos, kont, choices>>

\* match_exp on Alt, i.e. match_cases: no case is no match, otherwise the
\* continuation will emit Leave_alt and the first case is tried.
MatchCases ==
  /\ Matching("Alt")
  /\ IF call.exp.args = <<>>
     THEN call' = Go("fail") /\ UNCHANGED kont
     ELSE /\ kont' = Push(kont, "Leave_alt", call.exp, 0)
          /\ call' = Call("match_case", call.exp, 1)
  /\ UNCHANGED <<input, root, path, pos, choices>>

\* Try the expression; if that returns None, leave the loop where it stands.
MatchRepeat ==
  /\ Calling("match_repeat")
  /\ choices' = Append(choices, Or("after_repeat", call.exp, 0))
  /\ kont' = Push(kont, "after_exp", call.exp, pos)
  /\ call' = Call("match_exp", call.exp, 0)
  /\ UNCHANGED <<input, root, path, pos>>

\* As match_repeat, but the first iteration is not optional.
MatchRepeat1 ==
  /\ Calling("match_repeat1")
  /\ kont' = Push(kont, "after_exp", call.exp, pos)
  /\ call' = Call("match_exp", call.exp, 0)
  /\ UNCHANGED <<input, root, path, pos, choices>>

MatchOpt ==
  /\ Calling("match_opt")
  /\ choices' = Append(choices, Or("after_opt", call.exp, 0))
  /\ call' = Call("match_exp", call.exp, 0)
  /\ UNCHANGED <<input, root, path, pos, kont>>

\* Mutant: the bound of the case index is off by one.
MatchCasePastEnd ==
  /\ Calling("match_case")
  /\ path' = Append(path, EnterAlt(call.i))
  /\ choices' = IF call.i <= Len(call.exp.args)
                THEN Append(choices, Or("next_case", call.exp, call.i + 1))
                ELSE choices
  /\ call' = Call("match_exp", call.exp.args[call.i], 0)
  /\ UNCHANGED <<input, root, pos, kont>>

\* The last case leaves nothing to try: its None is the None of the Alt.
MatchCase ==
  /\ Calling("match_case")
  /\ path' = Append(path, EnterAlt(call.i))
  /\ choices' = IF call.i < Len(call.exp.args)
                THEN Append(choices, Or("next_case", call.exp, call.i + 1))
                ELSE choices
  /\ call' = Call("match_exp", call.exp.args[call.i], 0)
  /\ UNCHANGED <<input, root, pos, kont>>

MatchSeq ==
  /\ Calling("match_seq")
  /\ IF call.i > Len(call.exp.args)
     THEN /\ path' = Append(path, Punct("Leave_seq"))
          /\ call' = Go("cont")
          /\ UNCHANGED kont
     ELSE /\ kont' = Push(kont, "match_seq", call.exp, call.i + 1)
          /\ call' = Call("match_exp", call.exp.args[call.i], 0)
          /\ UNCHANGED path
  /\ UNCHANGED <<input, root, pos, choices>>

-----------------------------------------------------------------------------
(* Applying the continuation *)

ContLeave ==
  /\ Calling("cont") /\ kont # <<>>
  /\ Top(kont).frame \in Leave
  /\ path' = Append(path, Punct(Top(kont).frame))
  /\ kont' = Pop(kont)
  /\ UNCHANGED <<input, root, call, pos, choices>>

\* Mutant: an iteration that consumed nothing is rejected, not kept.
ContAfterExpRejecting ==
  /\ Calling("cont") /\ kont # <<>>
  /\ Top(kont).frame = "after_exp"
  /\ kont' = Pop(kont)
  /\ call' = IF pos = Top(kont).n THEN Go("fail")
             ELSE Call("match_repeat", Top(kont).exp, 0)
  /\ UNCHANGED <<input, root, path, pos, choices>>

\* after_exp: another iteration, unless this one consumed nothing.
ContAfterExp ==
  /\ Calling("cont") /\ kont # <<>>
  /\ Top(kont).frame = "after_exp"
  /\ kont' = Pop(kont)
  /\ call' = IF pos = Top(kont).n THEN Go("cont")
             ELSE Call("match_repeat", Top(kont).exp, 0)
  /\ UNCHANGED <<input, root, path, pos, choices>>

ContSeq ==
  /\ Calling("cont") /\ kont # <<>>
  /\ Top(kont).frame = "match_seq"
  /\ kont' = Pop(kont)
  /\ call' = Call("match_seq", Top(kont).exp, Top(kont).n)
  /\ UNCHANGED <<input, root, path, pos, choices>>

\* Mutant: success is declared with tokens left over.
MatchEndAnywhere ==
  /\ Calling("cont") /\ kont = <<>>
  /\ call' = Go("some")
  /\ UNCHANGED <<input, root, path, pos, kont, choices>>

\* match_end, the initial continuation: all tokens must have been consumed.
MatchEnd ==
  /\ Calling("cont") /\ kont = <<>>
  /\ call' = IF pos = Len(input) THEN Go("some") ELSE Go("fail")
  /\ UNCHANGED <<input, root, path, pos, kont, choices>>

-----------------------------------------------------------------------------
(* Returning None *)

\* The alternative c is resumed.
Resume(c) ==
  /\ path' = c.path
  /\ pos' = c.pos
  /\ kont' = c.kont
  /\ call' = IF c.alt = "next_case" THEN Call("match_case", c.exp, c.i)
             ELSE Go("cont")

\* Mutant: the path is not rewound with the tokens.
BacktrackKeepingPath ==
  /\ Calling("fail") /\ choices # <<>>
  /\ LET c == Top(choices) IN
       /\ pos' = c.pos
       /\ kont' = c.kont
       /\ call' = IF c.alt = "next_case" THEN Call("match_case", c.exp, c.i)
                  ELSE Go("cont")
  /\ choices' = Pop(choices)
  /\ UNCHANGED <<input, root, path>>

\* Mutant: the oldest alternative is resumed first.
BacktrackOldest ==
  /\ Calling("fail") /\ choices # <<>>
  /\ Resume(choices[1])
  /\ choices' = Tail(choices)
  /\ UNCHANGED <<input, root>>

\* Mutant: an alternative stays open after it has been tried.
BacktrackForever ==
  /\ Calling("fail") /\ choices # <<>>
  /\ Resume(Top(choices))
  /\ UNCHANGED <<input, root, choices>>

\* The caller's None branch, run with the path, tokens and continuation the
\* caller had: after_repeat and after_opt are the continuation itself.
Backtrack ==
  /\ Calling("fail") /\ choices # <<>>
  /\ Resume(Top(choices))
  /\ choices' = Pop(choices)
  /\ UNCHANGED <<input, root>>

NoMatch ==
  /\ Calling("fail") /\ choices = <<>>
  /\ call' = Go("none")
  /\ UNCHANGED <<input, root, path, pos, kont, choices>>

Next ==
  \/ MatchToken \/ MismatchToken \/ MatchNothing
  \/ EnterRepeat \/ EnterRepeat1 \/ EnterOpt \/ EnterSeq \/ MatchCases
  \/ MatchRepeat \/ MatchRepeat1 \/ MatchOpt \/ MatchCase \/ MatchSeq
  \/ ContLeave \/ ContAfterExp \/ ContSeq \/ MatchEnd
  \/ Backtrack \/ NoMatch

Spec == Init /\ [][Next]_vars

-----------------------------------------------------------------------------
(* Properties *)

TypeOK ==
  /\ root \in RootExp
  /\ input \in Input
  /\ call \in [fn : Fns \cup Control, exp : Exp, i : Nat]
  /\ path \in Seq(PathElt)
  /\ pos \in 0..Len(input)
  /\ kont \in Seq(Frame)
  /\ choices \in Seq(Choice)
  /\ \A k \in DOMAIN choices : choices[k].pos \in 0..Len(input)

KontOK(s) == \A k \in DOMAIN s : s[k].frame = "match_seq" => s[k].n >= 1

ChoiceOK(c) ==
  /\ KontOK(c.kont)
  /\ c.alt = "next_case" => c.i \in DOMAIN c.exp.args

\* Array and list accesses stay in bounds, now and whenever a suspended call
\* is resumed: exps.(i) of match_case never raises Invalid_argument.
IndexesInBounds ==
  /\ call.fn = "match_case" => call.i \in DOMAIN call.exp.args
  /\ call.fn = "match_seq" => call.i >= 1
  /\ KontOK(kont)
  /\ \A k \in DOMAIN choices : ChoiceOK(choices[k])

IsToken(x) == x.elt = "Token"

\* The tokens of p are the first n tokens of the input, each once, in order.
Records(p, n) ==
  /\ \A k \in DOMAIN p : IsToken(p[k]) => p[k].n \in 1..n
  /\ \A m \in 1..n : \E k \in DOMAIN p : p[k] = Token(m)
  /\ \A j, k \in DOMAIN p :
        j < k /\ IsToken(p[j]) /\ IsToken(p[k]) => p[j].n < p[k].n

\* No token is lost, repeated or reordered by any amount of backtracking: the
\* path holds exactly the consumed tokens, now and at every open alternative.
TokensConserved ==
  /\ Records(path, pos)
  /\ \A k \in DOMAIN choices : Records(choices[k].path, choices[k].pos)

Extends(q, p) ==
  /\ Len(p) <= Len(q)
  /\ \A k \in DOMAIN p : p[k] = q[k]

\* Alternatives are undone innermost first: what an older alternative has
\* read is a prefix of what a newer one has read, and of the current path.
ChoicesNested ==
  /\ \A k \in DOMAIN choices : Extends(path, choices[k].path)
  /\ \A j, k \in DOMAIN choices :
        j < k => Extends(choices[k].path, choices[j].path)
=============================================================================
