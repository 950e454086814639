---------------------- MODULE BacktrackMatcher_proofs -----------------------
(***************************************************************************)
(* Proofs about module BacktrackMatcher, for every set of expressions,     *)
(* every token list and every length of run.                               *)
(***************************************************************************)
EXTENDS MatchWays, SequenceTheorems, WellFoundedInduction, TLAPS

(***************************************************************************)
(* Facts about the stacks.                                                 *)
(***************************************************************************)

\* Popping a non-empty stack leaves a stack, its elements unchanged, and the
\* top is one of the elements.
LEMMA PopType ==
  ASSUME NEW S, NEW s \in Seq(S), s # <<>>
  PROVE  /\ Pop(s) \in Seq(S)
         /\ Len(Pop(s)) = Len(s) - 1
         /\ \A k \in DOMAIN Pop(s) : k \in DOMAIN s /\ k < Len(s) /\ Pop(s)[k] = s[k]
         /\ Len(s) \in DOMAIN s
         /\ Top(s) = s[Len(s)]
         /\ Top(s) \in S
<1>1. Len(s) \in Nat \ {0} /\ DOMAIN s = 1..Len(s)
  BY EmptySeq, LenProperties
<1>2. \A k \in 1..(Len(s) - 1) : s[k] \in S
  BY <1>1, ElementOfSeq
<1>3. /\ Pop(s) \in Seq(S)
      /\ Len(Pop(s)) = Len(s) - 1
      /\ \A k \in 1..(Len(s) - 1) : Pop(s)[k] = s[k]
  BY <1>1, <1>2, SubSeqProperties DEF Pop
<1>4. DOMAIN Pop(s) = 1..(Len(s) - 1)
  BY <1>3, LenProperties
<1>. QED
  BY <1>1, <1>3, <1>4, ElementOfSeq DEF Top

\* Appending to a stack adds one element at the end.
LEMMA AppendType ==
  ASSUME NEW S, NEW s \in Seq(S), NEW x \in S
  PROVE  /\ Append(s, x) \in Seq(S)
         /\ Len(Append(s, x)) = Len(s) + 1
         /\ \A k \in DOMAIN Append(s, x) :
               \/ k \in DOMAIN s /\ Append(s, x)[k] = s[k]
               \/ k = Len(s) + 1 /\ Append(s, x)[k] = x
  BY AppendProperties, LenProperties

(***************************************************************************)
(* Types of the records the actions build.                                 *)
(***************************************************************************)

CallSet == [fn : Fns \cup Control, exp : Exp, i : Nat]

LEMMA CallType ==
  ASSUME NEW f \in Fns \cup Control, NEW e \in Exp, NEW i \in Nat
  PROVE  /\ Call(f, e, i) \in CallSet
         /\ Call(f, e, i).fn = f /\ Call(f, e, i).exp = e /\ Call(f, e, i).i = i
  BY DEF Call, CallSet

LEMMA GoType ==
  ASSUME root \in RootExp, NEW f \in Control
  PROVE  Go(f) \in CallSet /\ Go(f).fn = f
  BY ExpAssumption DEF Go, Call, CallSet

\* A frame pushed on a continuation that is OK leaves it OK.
LEMMA PushType ==
  ASSUME NEW s \in Seq(Frame), NEW f \in Leave \cup {"after_exp", "match_seq"},
         NEW e \in Exp, NEW n \in Nat,
         KontOK(s), f = "match_seq" => n >= 1
  PROVE  Push(s, f, e, n) \in Seq(Frame) /\ KontOK(Push(s, f, e, n))
<1> DEFINE x == [frame |-> f, exp |-> e, n |-> n]
<1>1. x \in Frame /\ x.frame = f /\ x.n = n
  BY DEF Frame
<1>. QED
  BY <1>1, AppendType, Zenon DEF Push, KontOK

LEMMA PopKont ==
  ASSUME NEW s \in Seq(Frame), s # <<>>, KontOK(s)
  PROVE  /\ Pop(s) \in Seq(Frame) /\ KontOK(Pop(s))
         /\ Top(s) \in Frame
         /\ Top(s).frame = "match_seq" => Top(s).n >= 1
  BY PopType DEF KontOK

LEMMA OrType ==
  ASSUME TypeOK, IndexesInBounds,
         NEW alt \in {"after_repeat", "after_opt", "next_case"},
         NEW e \in Exp, NEW i \in Nat,
         alt = "next_case" => i \in DOMAIN e.args
  PROVE  LET c == Or(alt, e, i)
         IN /\ c \in Choice /\ ChoiceOK(c)
            /\ c.path = path /\ c.pos = pos
            /\ c.pos \in 0..Len(input)
  BY DEF Or, Choice, ChoiceOK, TypeOK, IndexesInBounds

\* The expressions met on the way are in Exp.
LEMMA SubExp ==
  ASSUME NEW e \in Exp
  PROVE  /\ e.args \in Seq(Exp)
         /\ \A k \in DOMAIN e.args : e.args[k] \in Exp
         /\ e.op \in {"Repeat", "Repeat1", "Opt"} => e.args[1] \in Exp
<1>1. e.args \in Seq(Exp) /\ (e.op \in {"Repeat", "Repeat1", "Opt"} => Len(e.args) = 1)
  BY ExpAssumption
<1>. QED
  BY <1>1, ElementOfSeq, LenProperties

(***************************************************************************)
(* Type correctness and bounds of indexes.                                 *)
(***************************************************************************)

LEMMA InitTyped == Init => TypeOK /\ IndexesInBounds
  BY ExpAssumption, CallType
     DEF Init, TypeOK, IndexesInBounds, KontOK, Fns, Control, CallSet, Call

LEMMA StepTyped ==
  ASSUME TypeOK, IndexesInBounds, [Next]_vars
  PROVE  TypeOK' /\ IndexesInBounds'
<1>. DEFINE Open == /\ choices \in Seq(Choice)
                    /\ \A k \in DOMAIN choices : /\ choices[k].pos \in 0..Len(input)
                                                 /\ ChoiceOK(choices[k])
            Frames(s) == s \in Seq(Frame) /\ KontOK(s)
            CallOK(c) == /\ c \in CallSet
                         /\ c.fn = "match_case" => c.i \in DOMAIN c.exp.args
                         /\ c.fn = "match_seq" => c.i >= 1
<1>0. /\ root \in RootExp /\ input \in Input /\ input \in Seq(Kind)
      /\ Len(input) \in Nat
      /\ path \in Seq(PathElt) /\ pos \in 0..Len(input)
      /\ Frames(kont) /\ Open /\ CallOK(call)
      /\ call.exp \in Exp /\ call.i \in Nat
  BY ExpAssumption, LenProperties DEF TypeOK, IndexesInBounds, CallSet
<1>. HIDE DEF Open, Frames, CallOK
\* It is enough to show the parts that a step changes.
<1>1. ASSUME root' = root, input' = input, CallOK(call'), path' \in Seq(PathElt),
             pos' \in 0..Len(input), Frames(kont'), Open'
      PROVE  TypeOK' /\ IndexesInBounds'
  BY <1>0, <1>1 DEF Open, Frames, CallOK, TypeOK, IndexesInBounds, CallSet
<1>2. ASSUME NEW f \in Control
      PROVE  CallOK(Go(f))
  BY <1>0, GoType DEF CallOK, Control
<1>3. ASSUME NEW f \in Fns, NEW e \in Exp, NEW i \in Nat,
             f = "match_case" => i \in DOMAIN e.args, f = "match_seq" => i >= 1
      PROVE  CallOK(Call(f, e, i))
  BY <1>3, CallType DEF CallOK
<1>4. ASSUME NEW x \in PathElt
      PROVE  Append(path, x) \in Seq(PathElt)
  BY <1>0, AppendType
<1>5. ASSUME NEW f \in Leave \cup {"after_exp", "match_seq"}, NEW e \in Exp, NEW n \in Nat,
             f = "match_seq" => n >= 1
      PROVE  Frames(Push(kont, f, e, n))
  BY <1>0, <1>5, PushType DEF Frames
<1>6. ASSUME NEW alt \in {"after_repeat", "after_opt", "next_case"},
             NEW e \in Exp, NEW i \in Nat, alt = "next_case" => i \in DOMAIN e.args,
             input' = input, choices' = Append(choices, Or(alt, e, i))
      PROVE  Open'
  <2>1. LET c == Or(alt, e, i)
        IN c \in Choice /\ ChoiceOK(c) /\ c.pos \in 0..Len(input)
    BY <1>6, OrType
  <2>. QED
    BY <2>1, <1>0, <1>6, AppendType, Zenon DEF Open
<1>7. ASSUME choices' = choices, input' = input PROVE Open'
  BY <1>0, <1>7 DEF Open
<1>tags. /\ "after_exp" \in Leave \cup {"after_exp", "match_seq"}
       /\ "match_seq" \in Leave \cup {"after_exp", "match_seq"}
       /\ "after_exp" # "match_seq"
  OBVIOUS
<1>posNat. pos \in Nat
  BY <1>0
<1>8. /\ \A p \in Leave \cup Enter \cup {"Nothing"} : Punct(p) \in PathElt
      /\ \A n \in Nat : Token(n) \in PathElt /\ EnterAlt(n) \in PathElt
  BY DEF Punct, Token, EnterAlt, PathElt, Leave, Enter
<1>9. ASSUME kont # <<>>
      PROVE  /\ Frames(Pop(kont)) /\ Top(kont) \in Frame
             /\ Top(kont).frame = "match_seq" => Top(kont).n >= 1
  BY <1>0, <1>9, PopKont DEF Frames
<1>10. CASE MatchToken
  <2>1. pos + 1 \in Nat /\ pos + 1 \in 0..Len(input)
    BY <1>0, <1>10 DEF MatchToken
  <2>. QED
    BY <2>1, <1>0, <1>1, <1>2, <1>4, <1>7, <1>8, <1>10 DEF MatchToken, Control
<1>11. CASE MismatchToken
  BY <1>0, <1>1, <1>2, <1>7, <1>11 DEF MismatchToken, Control
<1>12. CASE MatchNothing
  BY <1>0, <1>1, <1>2, <1>4, <1>7, <1>8, <1>12 DEF MatchNothing, Control
<1>13. ASSUME NEW op \in {"Repeat", "Repeat1", "Opt"}, NEW en \in Enter, NEW lv \in Leave,
              NEW f \in {"match_repeat", "match_repeat1", "match_opt"},
              EnterQuantifier(op, en, lv, f)
       PROVE  TypeOK' /\ IndexesInBounds'
  <2>1. call.exp.args[1] \in Exp
    BY <1>0, <1>13, SubExp DEF EnterQuantifier, Matching
  <2>2. CallOK(Call(f, call.exp.args[1], 0))
    BY <2>1, <1>3 DEF Fns
  <2>3. Frames(Push(kont, lv, call.exp, 0))
    BY <1>0, <1>5 DEF Leave
  <2>. QED
    BY <2>2, <2>3, <1>0, <1>1, <1>4, <1>7, <1>8, <1>13 DEF EnterQuantifier
<1>14. CASE EnterRepeat \/ EnterRepeat1 \/ EnterOpt
  BY <1>13, <1>14 DEF EnterRepeat, EnterRepeat1, EnterOpt, Enter, Leave
<1>15. CASE EnterSeq
  BY <1>0, <1>1, <1>3, <1>4, <1>7, <1>8, <1>15 DEF EnterSeq, Fns, Enter
<1>16. CASE MatchCases
  <2>1. call.exp.args # <<>> => 1 \in DOMAIN call.exp.args
    BY <1>0, SubExp, EmptySeq, LenProperties
  <2>. QED
    BY <2>1, <1>0, <1>1, <1>2, <1>3, <1>5, <1>7, <1>16
       DEF MatchCases, Fns, Control, Leave
<1>17. CASE MatchRepeat
  <2>1. Frames(Push(kont, "after_exp", call.exp, pos))
    BY <1>0, <1>5, <1>tags, <1>posNat
  <2>2. CallOK(Call("match_exp", call.exp, 0))
    BY <1>0, <1>3 DEF Fns
  <2>3. Open'
    BY <1>0, <1>6, <1>17 DEF MatchRepeat
  <2>. QED
    BY <2>1, <2>2, <2>3, <1>0, <1>1, <1>17 DEF MatchRepeat
<1>18. CASE MatchRepeat1
  <2>1. Frames(Push(kont, "after_exp", call.exp, pos))
    BY <1>0, <1>5, <1>tags, <1>posNat
  <2>2. CallOK(Call("match_exp", call.exp, 0))
    BY <1>0, <1>3 DEF Fns
  <2>. QED
    BY <2>1, <2>2, <1>0, <1>1, <1>7, <1>18 DEF MatchRepeat1
<1>19. CASE MatchOpt
  BY <1>0, <1>1, <1>3, <1>6, <1>19 DEF MatchOpt, Fns
<1>20. CASE MatchCase
  <2>1. call.i \in DOMAIN call.exp.args
    BY <1>0, <1>20 DEF MatchCase, Calling, CallOK
  <2>2. CallOK(Call("match_exp", call.exp.args[call.i], 0))
    BY <2>1, <1>0, <1>3, SubExp DEF Fns
  <2>3. call.i < Len(call.exp.args) => call.i + 1 \in DOMAIN call.exp.args
    BY <2>1, <1>0, SubExp, LenProperties
  <2>4. Open'
    BY <2>3, <1>0, <1>6, <1>7, <1>20 DEF MatchCase
  <2>. QED
    BY <2>2, <2>4, <1>0, <1>1, <1>4, <1>8, <1>20 DEF MatchCase
<1>21. CASE MatchSeq
  <2>1. call.i >= 1
    BY <1>0, <1>21 DEF MatchSeq, Calling, CallOK
  <2>2. CASE call.i > Len(call.exp.args)
    BY <2>2, <1>0, <1>1, <1>2, <1>4, <1>7, <1>8, <1>21 DEF MatchSeq, Control, Leave
  <2>3. CASE ~(call.i > Len(call.exp.args))
    <3>1. call.i \in DOMAIN call.exp.args /\ call.i + 1 \in Nat /\ call.i + 1 >= 1
      BY <2>1, <2>3, <1>0, SubExp, LenProperties
    <3>2. CallOK(Call("match_exp", call.exp.args[call.i], 0))
      BY <3>1, <1>0, <1>3, SubExp DEF Fns
    <3>3. Frames(Push(kont, "match_seq", call.exp, call.i + 1))
      BY <3>1, <1>0, <1>5, <1>tags
    <3>. QED
      BY <2>3, <3>2, <3>3, <1>0, <1>1, <1>7, <1>21 DEF MatchSeq
  <2>. QED
    BY <2>2, <2>3
<1>22. CASE ContLeave
  BY <1>0, <1>1, <1>4, <1>7, <1>8, <1>9, <1>22 DEF ContLeave
<1>23. CASE ContAfterExp
  BY <1>0, <1>1, <1>2, <1>3, <1>7, <1>9, <1>23 DEF ContAfterExp, Control, Fns, Frame
<1>24. CASE ContSeq
  BY <1>0, <1>1, <1>3, <1>7, <1>9, <1>24 DEF ContSeq, Fns, Frame
<1>25. CASE MatchEnd
  BY <1>0, <1>1, <1>2, <1>7, <1>25 DEF MatchEnd, Control
<1>26. CASE Backtrack
  <2>. DEFINE c == Top(choices)
  <2>1. choices # <<>> /\ choices \in Seq(Choice)
    BY <1>0, <1>26 DEF Backtrack, Resume, Open
  <2>2. c \in Choice /\ ChoiceOK(c) /\ c.pos \in 0..Len(input)
    BY <2>1, <1>0, PopType DEF Open
  <2>3. c.exp \in Exp /\ c.i \in Nat /\ c.path \in Seq(PathElt) /\ Frames(c.kont)
    BY <2>2 DEF Choice, ChoiceOK, Frames
  <2>4. /\ Pop(choices) \in Seq(Choice)
        /\ \A k \in DOMAIN Pop(choices) :
             Pop(choices)[k].pos \in 0..Len(input) /\ ChoiceOK(Pop(choices)[k])
    BY <2>1, <1>0, PopType DEF Open
  <2>5. Open'
    BY <2>4, <1>26 DEF Backtrack, Resume, Open
  <2>6. CallOK(call')
    <3>1. CASE c.alt = "next_case"
      <4>1. CallOK(Call("match_case", c.exp, c.i))
        BY <3>1, <2>2, <2>3, <1>3 DEF ChoiceOK, Fns
      <4>. QED
        BY <4>1, <3>1, <1>26 DEF Backtrack, Resume
    <3>2. CASE c.alt # "next_case"
      BY <3>2, <1>2, <1>26 DEF Backtrack, Resume, Control
    <3>. QED
      BY <3>1, <3>2
  <2>. QED
    BY <2>2, <2>3, <2>5, <2>6, <1>1, <1>26 DEF Backtrack, Resume
<1>27. CASE NoMatch
  BY <1>0, <1>1, <1>2, <1>7, <1>27 DEF NoMatch, Control
<1>28. CASE UNCHANGED vars
  BY <1>0, <1>1, <1>7, <1>28 DEF vars
<1>. QED
  BY <1>10, <1>11, <1>12, <1>14, <1>15, <1>16, <1>17, <1>18, <1>19, <1>20, <1>21,
     <1>22, <1>23, <1>24, <1>25, <1>26, <1>27, <1>28 DEF Next

\* Every value the matcher handles has its type, and no array or list is
\* indexed out of its bounds, whatever the expression and the tokens.
THEOREM TypeCorrect == Spec => [](TypeOK /\ IndexesInBounds)
<1>1. TypeOK /\ IndexesInBounds /\ [Next]_vars => (TypeOK /\ IndexesInBounds)'
  BY StepTyped
<1>. QED
  BY <1>1, InitTyped, PTL DEF Spec

(***************************************************************************)
(* Conservation of tokens.  Records is preserved by punctuation and by the *)
(* next token, and by nothing else being done to the path.                 *)
(***************************************************************************)

LEMMA RecordsPunct ==
  ASSUME NEW p \in Seq(PathElt), NEW n \in Nat, NEW x \in PathElt,
         ~IsToken(x), Records(p, n)
  PROVE  Records(Append(p, x), n)
<1>. DEFINE q == Append(p, x)
<1>1. /\ Len(p) \in Nat /\ DOMAIN p = 1..Len(p)
      /\ DOMAIN q = 1..(Len(p) + 1)
      /\ \A k \in 1..Len(p) : q[k] = p[k]
      /\ q[Len(p) + 1] = x
  BY AppendProperties, LenProperties
<1>. HIDE DEF q
<1>2. \A k \in DOMAIN q : IsToken(q[k]) => k \in DOMAIN p /\ q[k] = p[k]
  BY <1>1
<1>3. \A m \in 1..n : \E k \in DOMAIN q : q[k] = Token(m)
  BY <1>1 DEF Records
<1>4. \A j, k \in DOMAIN q : j < k /\ IsToken(q[j]) /\ IsToken(q[k]) => q[j].n < q[k].n
  BY <1>2 DEF Records
<1>5. \A k \in DOMAIN q : IsToken(q[k]) => q[k].n \in 1..n
  BY <1>2 DEF Records
<1>. QED
  BY <1>3, <1>4, <1>5 DEF Records, q

LEMMA RecordsToken ==
  ASSUME NEW p \in Seq(PathElt), NEW n \in Nat, Records(p, n)
  PROVE  Records(Append(p, Token(n + 1)), n + 1)
<1>. DEFINE t == Token(n + 1)
            q == Append(p, t)
<1>1. t \in PathElt /\ IsToken(t) /\ t.n = n + 1
  BY DEF Token, PathElt, IsToken
<1>2. /\ Len(p) \in Nat /\ DOMAIN p = 1..Len(p)
      /\ DOMAIN q = 1..(Len(p) + 1)
      /\ \A k \in 1..Len(p) : q[k] = p[k]
      /\ q[Len(p) + 1] = t
  BY <1>1, AppendProperties, LenProperties
<1>3. \A k \in DOMAIN p : IsToken(p[k]) => p[k].n \in 1..n
  BY DEF Records
<1>. HIDE DEF q, t
<1>4. \A k \in DOMAIN q : IsToken(q[k]) => q[k].n \in 1..(n + 1)
  BY <1>1, <1>2, <1>3
<1>5. \A m \in 1..(n + 1) : \E k \in DOMAIN q : q[k] = Token(m)
  <2>1. \A m \in 1..n : \E k \in DOMAIN q : q[k] = Token(m)
    BY <1>2 DEF Records
  <2>2. q[Len(p) + 1] = Token(n + 1) /\ Len(p) + 1 \in DOMAIN q
    BY <1>2 DEF t
  <2>. QED
    BY <2>1, <2>2
<1>6. \A j, k \in DOMAIN q : j < k /\ IsToken(q[j]) /\ IsToken(q[k]) => q[j].n < q[k].n
  <2>. SUFFICES ASSUME NEW j \in DOMAIN q, NEW k \in DOMAIN q,
                       j < k, IsToken(q[j]), IsToken(q[k])
                PROVE  q[j].n < q[k].n
    OBVIOUS
  <2>1. j \in DOMAIN p /\ q[j] = p[j]
    BY <1>2
  <2>2. CASE k \in DOMAIN p
    BY <2>1, <2>2, <1>2 DEF Records
  <2>3. CASE k = Len(p) + 1
    BY <2>1, <2>3, <1>1, <1>2, <1>3
  <2>. QED
    BY <2>2, <2>3, <1>2
<1>. QED
  BY <1>4, <1>5, <1>6 DEF Records, q, t

LEMMA StepConserves ==
  ASSUME TypeOK, IndexesInBounds, TokensConserved, [Next]_vars
  PROVE  TokensConserved'
<1>. DEFINE Open(s) == \A k \in DOMAIN s : Records(s[k].path, s[k].pos)
<1>0. /\ path \in Seq(PathElt) /\ pos \in Nat /\ Records(path, pos)
      /\ choices \in Seq(Choice) /\ Open(choices)
  BY ExpAssumption, LenProperties DEF TypeOK, TokensConserved
<1>. HIDE DEF Open
<1>1. ASSUME Records(path, pos)', Open(choices)'
      PROVE  TokensConserved'
  BY <1>1 DEF TokensConserved, Open
<1>2. ASSUME NEW p \in Enter \cup Leave \cup {"Nothing"}
      PROVE  Records(Append(path, Punct(p)), pos)
  <2>1. Punct(p) \in PathElt /\ ~IsToken(Punct(p))
    BY DEF Punct, PathElt, IsToken, Enter, Leave
  <2>. QED
    BY <2>1, <1>0, RecordsPunct
<1>3. Records(Append(path, Token(pos + 1)), pos + 1)
  BY <1>0, RecordsToken
<1>4. ASSUME NEW alt, NEW e, NEW i, Or(alt, e, i) \in Choice
      PROVE  Open(Append(choices, Or(alt, e, i)))
  <2>1. Or(alt, e, i).path = path /\ Or(alt, e, i).pos = pos
    BY DEF Or
  <2>. QED
    BY <2>1, <1>0, <1>4, AppendType, Zenon DEF Open
<1>5. CASE UNCHANGED <<path, pos, choices>>
  BY <1>0, <1>1, <1>5
<1>6. CASE MatchToken
  BY <1>0, <1>1, <1>3, <1>6 DEF MatchToken
<1>7. CASE MatchNothing
  BY <1>0, <1>1, <1>2, <1>7 DEF MatchNothing
<1>8. CASE EnterRepeat \/ EnterRepeat1 \/ EnterOpt \/ EnterSeq
  <2>1. UNCHANGED <<pos, choices>> /\ \E p \in Enter : path' = Append(path, Punct(p))
    BY <1>8 DEF EnterRepeat, EnterRepeat1, EnterOpt, EnterSeq, EnterQuantifier, Enter
  <2>. QED
    BY <2>1, <1>0, <1>1, <1>2
<1>9. CASE ContLeave
  <2>1. UNCHANGED <<pos, choices>> /\ \E p \in Leave : path' = Append(path, Punct(p))
    BY <1>9 DEF ContLeave
  <2>. QED
    BY <2>1, <1>0, <1>1, <1>2
<1>10. CASE MatchSeq
  <2>1. /\ UNCHANGED <<pos, choices>>
        /\ path' = path \/ path' = Append(path, Punct("Leave_seq"))
    BY <1>10 DEF MatchSeq
  <2>. QED
    BY <2>1, <1>0, <1>1, <1>2 DEF Leave
<1>11. CASE MatchRepeat
  <2>1. Or("after_repeat", call.exp, 0) \in Choice
    BY OrType DEF TypeOK
  <2>. QED
    BY <2>1, <1>0, <1>1, <1>4, <1>11 DEF MatchRepeat
<1>12. CASE MatchOpt
  <2>1. Or("after_opt", call.exp, 0) \in Choice
    BY OrType DEF TypeOK
  <2>. QED
    BY <2>1, <1>0, <1>1, <1>4, <1>12 DEF MatchOpt
<1>13. CASE MatchCase
  <2>1. call.i \in DOMAIN call.exp.args /\ call.exp \in Exp /\ call.i \in Nat
    BY <1>13 DEF MatchCase, Calling, IndexesInBounds, TypeOK
  <2>2. Records(Append(path, EnterAlt(call.i)), pos)
    <3>1. EnterAlt(call.i) \in PathElt /\ ~IsToken(EnterAlt(call.i))
      BY <2>1 DEF EnterAlt, PathElt, IsToken, Enter
    <3>. QED
      BY <3>1, <1>0, RecordsPunct
  <2>3. Open(choices')
    <3>1. CASE call.i < Len(call.exp.args)
      <4>1. call.i + 1 \in DOMAIN call.exp.args /\ call.i + 1 \in Nat
        BY <2>1, <3>1, SubExp, LenProperties
      <4>2. Or("next_case", call.exp, call.i + 1) \in Choice
        BY <4>1, <2>1, OrType
      <4>. QED
        BY <4>2, <3>1, <1>4, <1>13 DEF MatchCase
    <3>2. CASE ~(call.i < Len(call.exp.args))
      BY <3>2, <1>0, <1>13 DEF MatchCase
    <3>. QED
      BY <3>1, <3>2
  <2>. QED
    BY <2>2, <2>3, <1>1, <1>13 DEF MatchCase
<1>14. CASE Backtrack
  <2>1. choices # <<>>
    BY <1>14 DEF Backtrack, Resume
  <2>2. Records(Top(choices).path, Top(choices).pos)
    BY <2>1, <1>0, PopType DEF Open
  <2>3. Open(Pop(choices))
    BY <2>1, <1>0, PopType, Zenon DEF Open
  <2>. QED
    BY <2>2, <2>3, <1>1, <1>14 DEF Backtrack, Resume
<1>15. CASE \/ MismatchToken \/ MatchCases \/ MatchRepeat1 \/ ContAfterExp \/ ContSeq
            \/ MatchEnd \/ NoMatch \/ UNCHANGED vars
  BY <1>5, <1>15 DEF MismatchToken, MatchCases, MatchRepeat1, ContAfterExp, ContSeq,
                     MatchEnd, NoMatch, vars
<1>. QED
  BY <1>6, <1>7, <1>8, <1>9, <1>10, <1>11, <1>12, <1>13, <1>14, <1>15 DEF Next

\* However much the matcher backtracks, the path holds exactly the tokens
\* consumed, each once and in order, and so does every open alternative.
THEOREM Conservation == Spec => []TokensConserved
<1>1. Init => TokensConserved
  BY DEF Init, TokensConserved, Records
<1>2. TypeOK /\ IndexesInBounds /\ TokensConserved /\ [Next]_vars => TokensConserved'
  BY StepConserves
<1>. QED
  BY <1>1, <1>2, TypeCorrect, PTL DEF Spec

(***************************************************************************)
(* Nesting of the alternatives.                                            *)
(***************************************************************************)

LEMMA ExtendsAppend ==
  ASSUME NEW S, NEW p, NEW q \in Seq(S), NEW x \in S, Len(p) \in Nat,
         DOMAIN p = 1..Len(p), Extends(q, p)
  PROVE  Extends(Append(q, x), p)
<1>1. /\ Len(q) \in Nat
      /\ Len(Append(q, x)) = Len(q) + 1
      /\ \A k \in 1..Len(q) : Append(q, x)[k] = q[k]
  BY AppendProperties, LenProperties
<1>. QED
  BY <1>1 DEF Extends

LEMMA StepNested ==
  ASSUME TypeOK, IndexesInBounds, ChoicesNested, [Next]_vars
  PROVE  ChoicesNested'
<1>. DEFINE Below(q, s) == \A k \in DOMAIN s : Extends(q, s[k].path)
            Nested(s) == \A j, k \in DOMAIN s : j < k => Extends(s[k].path, s[j].path)
<1>0. /\ path \in Seq(PathElt) /\ choices \in Seq(Choice)
      /\ Below(path, choices) /\ Nested(choices)
  BY DEF TypeOK, ChoicesNested
<1>. HIDE DEF Below, Nested
<1>1. ASSUME Below(path', choices'), Nested(choices')
      PROVE  ChoicesNested'
  BY <1>1 DEF ChoicesNested, Below, Nested
<1>2. ASSUME NEW x \in PathElt, NEW s \in Seq(Choice), Below(path, s)
      PROVE  Below(Append(path, x), s)
  <2>. SUFFICES ASSUME NEW k \in DOMAIN s
                PROVE  Extends(Append(path, x), s[k].path)
    BY Zenon DEF Below
  <2>1. s[k] \in Choice
    BY ElementOfSeq, LenProperties
  <2>2. s[k].path \in Seq(PathElt)
    BY <2>1 DEF Choice
  <2>3. Len(s[k].path) \in Nat /\ DOMAIN s[k].path = 1..Len(s[k].path)
    BY <2>2, LenProperties
  <2>4. Extends(path, s[k].path)
    BY <1>2 DEF Below
  <2>. QED
    BY <2>3, <2>4, <1>0, ExtendsAppend
\* An alternative opened now has read what has been read until now.
<1>3. ASSUME NEW alt, NEW e, NEW i, Or(alt, e, i) \in Choice
      PROVE  /\ Append(choices, Or(alt, e, i)) \in Seq(Choice)
             /\ Below(path, Append(choices, Or(alt, e, i)))
             /\ Nested(Append(choices, Or(alt, e, i)))
  <2>. DEFINE c == Or(alt, e, i)
              s == Append(choices, c)
  <2>1. c.path = path /\ Extends(path, path)
    BY <1>0, LenProperties DEF Or, Extends
  <2>2. /\ Len(choices) \in Nat /\ DOMAIN choices = 1..Len(choices)
        /\ s \in Seq(Choice) /\ DOMAIN s = 1..(Len(choices) + 1)
        /\ \A k \in 1..Len(choices) : s[k] = choices[k]
        /\ s[Len(choices) + 1] = c
    BY <1>0, <1>3, AppendProperties, LenProperties
  <2>. HIDE DEF c, s
  <2>3. Below(path, s)
    BY <2>1, <2>2, <1>0 DEF Below
  <2>4. Nested(s)
    <3>. SUFFICES ASSUME NEW j \in DOMAIN s, NEW k \in DOMAIN s, j < k
                  PROVE  Extends(s[k].path, s[j].path)
      BY DEF Nested
    <3>1. CASE k \in DOMAIN choices
      BY <3>1, <2>2, <1>0 DEF Nested
    <3>2. CASE k = Len(choices) + 1
      BY <3>2, <2>1, <2>2, <2>3 DEF Below
    <3>. QED
      BY <3>1, <3>2, <2>2
  <2>. QED
    BY <2>2, <2>3, <2>4 DEF s, c
<1>4. CASE UNCHANGED <<path, choices>>
  BY <1>0, <1>1, <1>4
<1>5. ASSUME NEW x \in PathElt, path' = Append(path, x), choices' = choices
      PROVE  ChoicesNested'
  BY <1>0, <1>1, <1>2, <1>5
<1>6. CASE MatchToken
  <2>1. Token(pos + 1) \in PathElt
    BY ExpAssumption, LenProperties DEF TypeOK, Token, PathElt
  <2>. QED
    BY <2>1, <1>5, <1>6 DEF MatchToken
<1>7. CASE \/ MatchNothing \/ EnterRepeat \/ EnterRepeat1 \/ EnterOpt \/ EnterSeq
           \/ ContLeave
  <2>1. /\ choices' = choices
        /\ \E p \in Enter \cup Leave \cup {"Nothing"} : path' = Append(path, Punct(p))
    BY <1>7 DEF MatchNothing, EnterRepeat, EnterRepeat1, EnterOpt, EnterSeq,
                EnterQuantifier, ContLeave, Enter
  <2>2. \A p \in Enter \cup Leave \cup {"Nothing"} : Punct(p) \in PathElt
    BY DEF Punct, PathElt
  <2>. QED
    BY <2>1, <2>2, <1>5
<1>8. CASE MatchSeq
  <2>1. Punct("Leave_seq") \in PathElt
    BY DEF Punct, PathElt, Leave
  <2>2. /\ choices' = choices
        /\ path' = path \/ path' = Append(path, Punct("Leave_seq"))
    BY <1>8 DEF MatchSeq
  <2>. QED
    BY <2>1, <2>2, <1>4, <1>5
<1>9. CASE MatchRepeat
  <2>1. Or("after_repeat", call.exp, 0) \in Choice
    BY OrType DEF TypeOK
  <2>. QED
    BY <2>1, <1>1, <1>3, <1>9 DEF MatchRepeat
<1>10. CASE MatchOpt
  <2>1. Or("after_opt", call.exp, 0) \in Choice
    BY OrType DEF TypeOK
  <2>. QED
    BY <2>1, <1>1, <1>3, <1>10 DEF MatchOpt
<1>11. CASE MatchCase
  <2>1. call.i \in DOMAIN call.exp.args /\ call.exp \in Exp /\ call.i \in Nat
    BY <1>11 DEF MatchCase, Calling, IndexesInBounds, TypeOK
  <2>2. EnterAlt(call.i) \in PathElt
    BY <2>1 DEF EnterAlt, PathElt, Enter
  <2>3. CASE call.i < Len(call.exp.args)
    <3>1. call.i + 1 \in DOMAIN call.exp.args /\ call.i + 1 \in Nat
      BY <2>1, <2>3, SubExp, LenProperties
    <3>2. Or("next_case", call.exp, call.i + 1) \in Choice
      BY <3>1, <2>1, OrType
    <3>. QED
      BY <3>2, <2>2, <2>3, <1>1, <1>2, <1>3, <1>11 DEF MatchCase
  <2>4. CASE ~(call.i < Len(call.exp.args))
    BY <2>2, <2>4, <1>5, <1>11 DEF MatchCase
  <2>. QED
    BY <2>3, <2>4
<1>12. CASE Backtrack
  <2>. DEFINE s == Pop(choices)
  <2>1. choices # <<>>
    BY <1>12 DEF Backtrack, Resume
  <2>2. /\ \A k \in DOMAIN s : k \in DOMAIN choices /\ k < Len(choices) /\ s[k] = choices[k]
        /\ Len(choices) \in DOMAIN choices
        /\ Top(choices) = choices[Len(choices)]
    BY <2>1, <1>0, PopType
  <2>. HIDE DEF s
  <2>3. Below(Top(choices).path, s)
    BY <2>2, <1>0 DEF Below, Nested
  <2>4. Nested(s)
    BY <2>2, <1>0 DEF Nested
  <2>. QED
    BY <2>3, <2>4, <1>1, <1>12 DEF Backtrack, Resume, s
<1>13. CASE \/ MismatchToken \/ MatchCases \/ MatchRepeat1 \/ ContAfterExp \/ ContSeq
            \/ MatchEnd \/ NoMatch \/ UNCHANGED vars
  BY <1>4, <1>13 DEF MismatchToken, MatchCases, MatchRepeat1, ContAfterExp, ContSeq,
                     MatchEnd, NoMatch, vars
<1>. QED
  BY <1>6, <1>7, <1>8, <1>9, <1>10, <1>11, <1>12, <1>13 DEF Next

\* Alternatives are undone innermost first: what an older one has read is a
\* prefix of what a newer one has read, and of the current path.
THEOREM Nesting == Spec => []ChoicesNested
<1>1. Init => ChoicesNested
  BY DEF Init, ChoicesNested
<1>2. TypeOK /\ IndexesInBounds /\ ChoicesNested /\ [Next]_vars => ChoicesNested'
  BY StepNested
<1>. QED
  BY <1>1, <1>2, TypeCorrect, PTL DEF Spec

(***************************************************************************)
(* The ways of MatchWays.  Unfold says what the ways of a call are made    *)
(* of; here every set of expressions and every token list is shown to have *)
(* ways that are so made, and only these.                                  *)
(***************************************************************************)

Paths == Seq(PathElt)
WayType(s) == [path : Paths, end : 0 .. Len(s)]

\* Concatenation, under a name of its own: the lemmas below are its algebra.
Join(a, b) == a \o b

LEMMA PathConcat ==
  ASSUME NEW a \in Paths, NEW b \in Paths
  PROVE  Join(a, b) \in Paths
BY ConcatProperties DEF Paths, Join

LEMMA Calls ==
  ASSUME NEW e \in Exp
  PROVE  /\ \A f \in {"match_exp", "match_repeat", "match_repeat1", "match_opt"} :
              Call(f, e, 0) \in CallsOf(e)
         /\ \A n \in 1 .. Len(e.args) + 1 :
              Call("match_case", e, n) \in CallsOf(e) /\ Call("match_seq", e, n) \in CallsOf(e)
BY DEF CallsOf, Call

LEMMA CallFields ==
  ASSUME NEW f, NEW e, NEW n
  PROVE  Call(f, e, n).fn = f /\ Call(f, e, n).exp = e /\ Call(f, e, n).i = n
BY DEF Call

\* A system W gives every call about an expression, at every position, a set
\* of ways: Made(W, c, i, s) are those made of the ways W gives.
AllCalls == UNION {CallsOf(e) : e \in Exp}
Places(s) == AllCalls \X (0 .. Len(s))
Systems(s) == [Places(s) -> SUBSET WayType(s)]
Made(W, c, i, s) == Unfold(LAMBDA d, j, t : W[<<d, j>>], c, i, s)
Closed(W, s) == \A c \in AllCalls, i \in 0 .. Len(s) : Made(W, c, i, s) \subseteq W[<<c, i>>]
Least(s) == [x \in Places(s) |-> {w \in WayType(s) : \A W \in Systems(s) : Closed(W, s) => w \in W[x]}]

LEMMA CallCases ==
  ASSUME NEW e \in Exp, NEW c \in CallsOf(e)
  PROVE  /\ c.exp = e /\ c = Call(c.fn, e, c.i)
         /\ \/ c.fn \in {"match_exp", "match_repeat", "match_repeat1", "match_opt"} /\ c.i = 0
            \/ c.fn \in {"match_case", "match_seq"} /\ c.i \in 1 .. Len(e.args) + 1
BY DEF CallsOf, Call

LEMMA PlacesOf ==
  ASSUME NEW s, NEW e \in Exp, NEW c \in CallsOf(e), NEW i \in 0 .. Len(s)
  PROVE  c \in AllCalls /\ <<c, i>> \in Places(s)
BY DEF AllCalls, Places

\* A way of fewer is a way of more.
LEMMA MadeMonotone ==
  ASSUME NEW s \in Input, NEW e \in Exp, NEW c \in CallsOf(e), NEW i \in 0 .. Len(s),
         NEW V \in Systems(s), NEW W \in Systems(s),
         \A x \in Places(s) : V[x] \subseteq W[x]
  PROVE  Made(V, c, i, s) \subseteq Made(W, c, i, s)
<1>1. CASE c.fn = "match_exp" /\ e.op = "Token"
  BY <1>1, CallCases DEF Made, Unfold, Around, Then
<1>2. CASE c.fn = "match_exp" /\ e.op = "Nothing"
  BY <1>2, CallCases DEF Made, Unfold, Around, Then
<1>3. CASE c.fn = "match_exp" /\ e.op \in {"Repeat", "Repeat1", "Opt"}
  <2>1. e.args[1] \in Exp
    BY <1>3, ExpAssumption
  <2>2. \A f \in {"match_repeat", "match_repeat1", "match_opt"} :
          V[<<Call(f, e.args[1], 0), i>>] \subseteq W[<<Call(f, e.args[1], 0), i>>]
    BY <2>1, Calls, PlacesOf
  <2> QED BY <1>3, <2>2, CallCases DEF Made, Unfold, Around, Then
<1>4. CASE c.fn = "match_exp" /\ e.op \in {"Alt", "Seq"}
  <2>1. \A f \in {"match_case", "match_seq"} : V[<<Call(f, e, 1), i>>] \subseteq W[<<Call(f, e, 1), i>>]
    <3>1. 1 \in 1 .. Len(e.args) + 1
      BY ExpAssumption
    <3> QED BY <3>1, Calls, PlacesOf
  <2> QED BY <1>4, <2>1, CallCases DEF Made, Unfold, Around, Then
<1>5. CASE c.fn = "match_case"
  <2>1. ASSUME NEW k \in c.i .. Len(e.args)
        PROVE  V[<<Call("match_exp", e.args[k], 0), i>>] \subseteq W[<<Call("match_exp", e.args[k], 0), i>>]
    <3>1. e.args[k] \in Exp
      BY <1>5, CallCases, ExpAssumption
    <3> QED BY <3>1, Calls, PlacesOf
  <2> QED BY <1>5, <2>1, CallCases DEF Made, Unfold, Around, Then
<1>6. CASE c.fn = "match_seq"
  <2>1. CASE c.i > Len(e.args)
    BY <1>6, <2>1, CallCases DEF Made, Unfold, Around, Then
  <2>2. CASE ~(c.i > Len(e.args))
    <3>1. c.i \in 1 .. Len(e.args) /\ c.i + 1 \in 1 .. Len(e.args) + 1 /\ e.args[c.i] \in Exp
      BY <1>6, <2>2, CallCases, ExpAssumption
    <3>2. V[<<Call("match_exp", e.args[c.i], 0), i>>] \subseteq W[<<Call("match_exp", e.args[c.i], 0), i>>]
      BY <3>1, Calls, PlacesOf
    <3>3. \A w \in V[<<Call("match_exp", e.args[c.i], 0), i>>] : w.end \in 0 .. Len(s)
      <4>1. V[<<Call("match_exp", e.args[c.i], 0), i>>] \subseteq WayType(s)
        BY <3>1, Calls, PlacesOf DEF Systems
      <4> QED BY <4>1 DEF WayType
    <3>4. \A j \in 0 .. Len(s) : V[<<Call("match_seq", e, c.i + 1), j>>] \subseteq W[<<Call("match_seq", e, c.i + 1), j>>]
      BY <3>1, Calls, PlacesOf
    <3> QED BY <1>6, <2>2, <3>2, <3>3, <3>4, CallCases DEF Made, Unfold, Around, Then
  <2> QED BY <2>1, <2>2
<1>7. CASE c.fn \in {"match_repeat", "match_repeat1", "match_opt"}
  <2>1. V[<<Call("match_exp", e, 0), i>>] \subseteq W[<<Call("match_exp", e, 0), i>>]
    BY Calls, PlacesOf
  <2>2. \A w \in V[<<Call("match_exp", e, 0), i>>] : w.end \in 0 .. Len(s)
    <3>1. V[<<Call("match_exp", e, 0), i>>] \subseteq WayType(s)
      BY Calls, PlacesOf DEF Systems
    <3> QED BY <3>1 DEF WayType
  <2>3. \A j \in 0 .. Len(s) : V[<<Call("match_repeat", e, 0), j>>] \subseteq W[<<Call("match_repeat", e, 0), j>>]
    BY Calls, PlacesOf
  <2> QED BY <1>7, <2>1, <2>2, <2>3, CallCases DEF Made, Unfold, Around, Then
<1> QED BY <1>1, <1>2, <1>3, <1>4, <1>5, <1>6, <1>7, CallCases, ExpAssumption DEF Ops

LEMMA WayTyped ==
  ASSUME NEW s, NEW q \in Paths, NEW j \in 0 .. Len(s)
  PROVE  Way(q, j) \in WayType(s)
BY DEF Way, WayType

\* The ways made of ways are ways.
LEMMA MadeTyped ==
  ASSUME NEW s \in Input, NEW e \in Exp, NEW c \in CallsOf(e), NEW i \in 0 .. Len(s),
         NEW W \in Systems(s)
  PROVE  Made(W, c, i, s) \subseteq WayType(s)
<1>1. ASSUME NEW d \in Exp, NEW a \in CallsOf(d), NEW j \in 0 .. Len(s), NEW w \in W[<<a, j>>]
      PROVE  w.path \in Paths /\ w.end \in 0 .. Len(s) /\ w \in WayType(s)
  <2>1. W[<<a, j>>] \subseteq WayType(s)
    BY PlacesOf DEF Systems
  <2> QED BY <2>1 DEF WayType
<1>2. <<>> \in Paths /\ \A x \in PathElt : <<x>> \in Paths
  BY DEF Paths
<1>3. \A q, r \in Paths : q \o r \in Paths
  BY PathConcat DEF Join
<1>4. \A q \in Paths, j \in 0 .. Len(s) : Way(q, j) \in WayType(s)
  BY WayTyped
<1>5. /\ \A m \in Enter \cup Leave \cup {"Nothing"} : Punct(m) \in PathElt
      /\ \A n \in Nat : Token(n) \in PathElt /\ EnterAlt(n) \in PathElt
  BY DEF Punct, Token, EnterAlt, PathElt, Enter
<1>6. CASE c.fn = "match_exp" /\ e.op = "Token"
  <2>1. Made(W, c, i, s) = IF i < Len(s) /\ s[i + 1] = e.kind THEN {Way(<<Token(i + 1)>>, i + 1)} ELSE {}
    BY <1>6, CallCases DEF Made, Unfold
  <2>2. i < Len(s) => i + 1 \in 0 .. Len(s) /\ i + 1 \in Nat
    BY ExpAssumption
  <2> QED BY <1>2, <1>4, <1>5, <2>1, <2>2
<1>7. CASE c.fn = "match_exp" /\ e.op = "Nothing"
  <2>1. Made(W, c, i, s) = {Way(<<Punct("Nothing")>>, i)}
    BY <1>7, CallCases DEF Made, Unfold
  <2> QED BY <1>2, <1>4, <1>5, <2>1
<1>8. ASSUME NEW b \in Paths, NEW l \in Paths, NEW d \in Exp, NEW a \in CallsOf(d)
      PROVE  Around(b, W[<<a, i>>], l) \subseteq WayType(s)
  <2> SUFFICES ASSUME NEW w \in W[<<a, i>>] PROVE Way(b \o w.path \o l, w.end) \in WayType(s)
    BY DEF Around
  <2>1. w.path \in Paths /\ w.end \in 0 .. Len(s)
    BY <1>1
  <2>2. b \o w.path \in Paths
    BY <1>3, <2>1
  <2>3. b \o w.path \o l \in Paths
    BY <1>3, <2>2
  <2> QED BY <1>4, <2>1, <2>3
<1>9. CASE c.fn = "match_exp" /\ e.op \in {"Repeat", "Repeat1", "Opt"}
  <2>1. /\ e.args[1] \in Exp
        /\ \A f \in {"match_repeat", "match_repeat1", "match_opt"} : Call(f, e.args[1], 0) \in CallsOf(e.args[1])
    <3>1. e.args[1] \in Exp
      BY <1>9, ExpAssumption
    <3> QED BY <3>1, Calls
  <2>2. \A m \in Enter \cup Leave : <<Punct(m)>> \in Paths
    BY <1>2, <1>5
  <2>3. CASE e.op = "Repeat"
    <3>1. Made(W, c, i, s) = Around(<<Punct("Enter_repeat")>>, W[<<Call("match_repeat", e.args[1], 0), i>>], <<Punct("Leave_repeat")>>)
      BY <1>9, <2>3, CallCases DEF Made, Unfold
    <3>2. <<Punct("Enter_repeat")>> \in Paths /\ <<Punct("Leave_repeat")>> \in Paths
      BY <2>2 DEF Enter, Leave
    <3> QED BY <1>8, <2>1, <3>1, <3>2
  <2>4. CASE e.op = "Repeat1"
    <3>1. Made(W, c, i, s) = Around(<<Punct("Enter_repeat1")>>, W[<<Call("match_repeat1", e.args[1], 0), i>>], <<Punct("Leave_repeat1")>>)
      BY <1>9, <2>4, CallCases DEF Made, Unfold
    <3>2. <<Punct("Enter_repeat1")>> \in Paths /\ <<Punct("Leave_repeat1")>> \in Paths
      BY <2>2 DEF Enter, Leave
    <3> QED BY <1>8, <2>1, <3>1, <3>2
  <2>5. CASE e.op = "Opt"
    <3>1. Made(W, c, i, s) = Around(<<Punct("Enter_opt")>>, W[<<Call("match_opt", e.args[1], 0), i>>], <<Punct("Leave_opt")>>)
      BY <1>9, <2>5, CallCases DEF Made, Unfold
    <3>2. <<Punct("Enter_opt")>> \in Paths /\ <<Punct("Leave_opt")>> \in Paths
      BY <2>2 DEF Enter, Leave
    <3> QED BY <1>8, <2>1, <3>1, <3>2
  <2> QED BY <1>9, <2>3, <2>4, <2>5
<1>10. CASE c.fn = "match_exp" /\ e.op = "Alt"
  <2>1. Call("match_case", e, 1) \in CallsOf(e)
    BY Calls, ExpAssumption
  <2>2. Made(W, c, i, s) = Around(<<>>, W[<<Call("match_case", e, 1), i>>], <<Punct("Leave_alt")>>)
    BY <1>10, CallCases DEF Made, Unfold
  <2>3. <<Punct("Leave_alt")>> \in Paths
    BY <1>2, <1>5 DEF Leave
  <2> QED BY <1>2, <1>8, <2>1, <2>2, <2>3
<1>11. CASE c.fn = "match_exp" /\ e.op = "Seq"
  <2>1. Call("match_seq", e, 1) \in CallsOf(e)
    BY Calls, ExpAssumption
  <2>2. Made(W, c, i, s) = Around(<<Punct("Enter_seq")>>, W[<<Call("match_seq", e, 1), i>>], <<>>)
    BY <1>11, CallCases DEF Made, Unfold
  <2>3. <<Punct("Enter_seq")>> \in Paths
    BY <1>2, <1>5 DEF Enter
  <2> QED BY <1>2, <1>8, <2>1, <2>2, <2>3
<1>12. CASE c.fn = "match_case"
  <2> SUFFICES ASSUME NEW v \in Made(W, c, i, s) PROVE v \in WayType(s)
    OBVIOUS
  <2>1. PICK k \in c.i .. Len(e.args) :
          \E w \in W[<<Call("match_exp", e.args[k], 0), i>>] : v = Way(<<EnterAlt(k)>> \o w.path \o <<>>, w.end)
    BY <1>12, CallCases DEF Made, Unfold, Around, Then
  <2>2. e.args[k] \in Exp /\ k \in Nat
    BY <1>12, CallCases, ExpAssumption
  <2>3. Call("match_exp", e.args[k], 0) \in CallsOf(e.args[k])
    BY <2>2, Calls
  <2>4. <<EnterAlt(k)>> \in Paths
    BY <1>2, <1>5, <2>2
  <2>5. Around(<<EnterAlt(k)>>, W[<<Call("match_exp", e.args[k], 0), i>>], <<>>) \subseteq WayType(s)
    BY <1>2, <1>8, <2>2, <2>3, <2>4
  <2> QED BY <2>1, <2>5 DEF Around
\* One way and then another.
<1>13. ASSUME NEW d \in Exp, NEW a \in CallsOf(d), NEW w \in W[<<a, i>>],
              NEW g \in Exp, NEW b \in CallsOf(g), NEW u \in W[<<b, w.end>>]
       PROVE  Way(w.path \o u.path, u.end) \in WayType(s)
  <2>1. w.path \in Paths /\ w.end \in 0 .. Len(s)
    BY <1>1
  <2>2. u.path \in Paths /\ u.end \in 0 .. Len(s)
    BY <1>1, <2>1
  <2> QED BY <1>3, <1>4, <2>1, <2>2
<1>14. CASE c.fn = "match_seq"
  <2>1. CASE c.i > Len(e.args)
    <3>1. Made(W, c, i, s) = {Way(<<Punct("Leave_seq")>>, i)}
      BY <1>14, <2>1, CallCases DEF Made, Unfold
    <3> QED BY <1>2, <1>4, <1>5, <3>1 DEF Leave
  <2>2. CASE ~(c.i > Len(e.args))
    <3>1. e.args[c.i] \in Exp /\ c.i + 1 \in 1 .. Len(e.args) + 1
      BY <1>14, <2>2, CallCases, ExpAssumption
    <3> SUFFICES ASSUME NEW v \in Made(W, c, i, s) PROVE v \in WayType(s)
      OBVIOUS
    <3>2. \E w \in W[<<Call("match_exp", e.args[c.i], 0), i>>] : \E u \in W[<<Call("match_seq", e, c.i + 1), w.end>>] :
            v = Way(w.path \o u.path, u.end)
      <4>1. c.exp = e
        BY CallCases
      <4>2. Made(W, c, i, s) = Then(W[<<Call("match_exp", e.args[c.i], 0), i>>],
                                    LAMBDA j : W[<<Call("match_seq", e, c.i + 1), j>>])
        BY <1>14, <2>2, <4>1 DEF Made, Unfold, Then
      <4> QED BY <4>2 DEF Then
    <3>3. Call("match_exp", e.args[c.i], 0) \in CallsOf(e.args[c.i]) /\ Call("match_seq", e, c.i + 1) \in CallsOf(e)
      BY <3>1, Calls
    <3> QED BY <1>13, <3>1, <3>2, <3>3
  <2> QED BY <2>1, <2>2
<1>15. CASE c.fn \in {"match_repeat", "match_repeat1", "match_opt"}
  <2> SUFFICES ASSUME NEW v \in Made(W, c, i, s) PROVE v \in WayType(s)
    OBVIOUS
  <2>1. Call("match_exp", e, 0) \in CallsOf(e) /\ Call("match_repeat", e, 0) \in CallsOf(e)
    BY Calls
  <2>2. \/ v = Way(<<>>, i)
        \/ v \in W[<<Call("match_exp", e, 0), i>>]
        \/ \E w \in W[<<Call("match_exp", e, 0), i>>] : w.end = i /\ v = Way(w.path \o <<>>, i)
        \/ \E w \in W[<<Call("match_exp", e, 0), i>>] : \E u \in W[<<Call("match_repeat", e, 0), w.end>>] :
              v = Way(w.path \o u.path, u.end)
    <3>4. ASSUME NEW y \in Then(W[<<Call("match_exp", e, 0), i>>],
                       LAMBDA j : IF j = i THEN {Way(<<>>, j)} ELSE W[<<Call("match_repeat", e, 0), j>>])
          PROVE  \/ \E w \in W[<<Call("match_exp", e, 0), i>>] : w.end = i /\ y = Way(w.path \o <<>>, i)
                 \/ \E w \in W[<<Call("match_exp", e, 0), i>>] : \E u \in W[<<Call("match_repeat", e, 0), w.end>>] :
                      y = Way(w.path \o u.path, u.end)
      <4>1. PICK w \in W[<<Call("match_exp", e, 0), i>>] :
              \E u \in IF w.end = i THEN {Way(<<>>, w.end)} ELSE W[<<Call("match_repeat", e, 0), w.end>>] :
                y = Way(w.path \o u.path, u.end)
        BY DEF Then
      <4>2. CASE w.end = i
        <5>1. Way(<<>>, i).path = <<>> /\ Way(<<>>, i).end = i
          BY DEF Way
        <5> QED BY <4>1, <4>2, <5>1
      <4>3. CASE w.end # i
        BY <4>1, <4>3
      <4> QED BY <4>2, <4>3
    <3>1. CASE c.fn = "match_repeat"
      <4>1. c.exp = e
        BY CallCases
      <4>2. Made(W, c, i, s) =
              {Way(<<>>, i)} \cup Then(W[<<Call("match_exp", e, 0), i>>],
                   LAMBDA j : IF j = i THEN {Way(<<>>, j)} ELSE W[<<Call("match_repeat", e, 0), j>>])
        BY <3>1, <4>1 DEF Made, Unfold, Then
      <4> QED BY <3>4, <4>2
    <3>2. CASE c.fn = "match_repeat1"
      <4>1. c.exp = e
        BY CallCases
      <4>2. Made(W, c, i, s) =
              Then(W[<<Call("match_exp", e, 0), i>>],
                   LAMBDA j : IF j = i THEN {Way(<<>>, j)} ELSE W[<<Call("match_repeat", e, 0), j>>])
        BY <3>2, <4>1 DEF Made, Unfold, Then
      <4> QED BY <3>4, <4>2
    <3>3. CASE c.fn = "match_opt"
      BY <1>15, <3>3, CallCases DEF Made, Unfold, Around, Then
    <3> QED BY <1>15, <3>1, <3>2, <3>3
  <2>3. ASSUME NEW w \in W[<<Call("match_exp", e, 0), i>>] PROVE Way(w.path \o <<>>, i) \in WayType(s)
    <3>1. w.path \in Paths
      BY <1>1, <2>1
    <3>2. w.path \o <<>> \in Paths
      BY <1>2, <1>3, <3>1
    <3> QED BY <1>4, <3>2
  <2> QED BY <1>1, <1>2, <1>4, <1>13, <2>1, <2>2, <2>3
<1> QED BY <1>6, <1>7, <1>9, <1>10, <1>11, <1>12, <1>14, <1>15, CallCases, ExpAssumption DEF Ops

\* The least system of ways is the ways made of its own ways.
LEMMA LeastIsMade ==
  ASSUME NEW s \in Input, NEW e \in Exp, NEW c \in CallsOf(e), NEW i \in 0 .. Len(s)
  PROVE  Least(s) \in Systems(s) /\ Least(s)[<<c, i>>] = Made(Least(s), c, i, s)
<1> DEFINE L == Least(s)
           R == [x \in Places(s) |-> Made(L, x[1], x[2], s)]
<1>1. L \in Systems(s)
  BY DEF Least, Systems
<1>2. ASSUME NEW W \in Systems(s), Closed(W, s)
      PROVE  \A x \in Places(s) : L[x] \subseteq W[x]
  BY <1>2 DEF Least
<1>3. ASSUME NEW x \in Places(s)
      PROVE  x[1] \in AllCalls /\ x[2] \in 0 .. Len(s) /\ x = <<x[1], x[2]>>
             /\ \E d \in Exp : x[1] \in CallsOf(d)
  BY DEF Places, AllCalls
\* Every system closed under Unfold holds the ways made of those of L.
<1>4. \A x \in Places(s) : Made(L, x[1], x[2], s) \subseteq L[x]
  <2> SUFFICES ASSUME NEW x \in Places(s), NEW w \in Made(L, x[1], x[2], s) PROVE w \in L[x]
    OBVIOUS
  <2>1. w \in WayType(s)
    BY <1>1, <1>3, MadeTyped
  <2>2. ASSUME NEW W \in Systems(s), Closed(W, s) PROVE w \in W[x]
    <3>1. Made(L, x[1], x[2], s) \subseteq Made(W, x[1], x[2], s)
      BY <1>1, <1>2, <1>3, <2>2, MadeMonotone
    <3>2. Made(W, x[1], x[2], s) \subseteq W[x]
      BY <1>3, <2>2 DEF Closed
    <3> QED BY <3>1, <3>2
  <2> QED BY <2>1, <2>2 DEF Least
\* The ways made of those of L are such a system.
<1>5. R \in Systems(s) /\ \A x \in Places(s) : R[x] = Made(L, x[1], x[2], s)
  <2>1. \A x \in Places(s) : Made(L, x[1], x[2], s) \in SUBSET WayType(s)
    BY <1>1, <1>3, MadeTyped
  <2> QED BY <2>1 DEF Systems
<1> HIDE DEF L, R
<1>6. Closed(R, s)
  <2> SUFFICES ASSUME NEW a \in AllCalls, NEW j \in 0 .. Len(s) PROVE Made(R, a, j, s) \subseteq R[<<a, j>>]
    BY DEF Closed
  <2>1. <<a, j>> \in Places(s) /\ <<a, j>>[1] = a /\ <<a, j>>[2] = j
    BY DEF Places
  <2>2. \A x \in Places(s) : R[x] \subseteq L[x]
    BY <1>4, <1>5
  <2>3. PICK d \in Exp : a \in CallsOf(d)
    BY DEF AllCalls
  <2>4. Made(R, a, j, s) \subseteq Made(L, a, j, s)
    BY <1>1, <1>5, <2>2, <2>3, MadeMonotone
  <2>5. R[<<a, j>>] = Made(L, a, j, s)
    BY <1>5, <2>1
  <2> QED BY <2>4, <2>5
<1>7. <<c, i>> \in Places(s) /\ <<c, i>>[1] = c /\ <<c, i>>[2] = i
  BY PlacesOf
<1>8. L[<<c, i>>] \subseteq R[<<c, i>>]
  BY <1>2, <1>5, <1>6, <1>7
<1>9. R[<<c, i>>] = Made(L, c, i, s)
  BY <1>5, <1>7
<1>10. Made(L, c, i, s) \subseteq L[<<c, i>>]
  BY <1>4, <1>7
<1> QED BY <1>1, <1>8, <1>9, <1>10 DEF L

\* V is a system in which the ways of a call are those made of the ways of the
\* calls it makes.
Solution(V, s) ==
  /\ V \in Systems(s)
  /\ \A e \in Exp : \A c \in CallsOf(e), i \in 0 .. Len(s) : V[<<c, i>>] = Made(V, c, i, s)

\* For every set of expressions and every token list there are ways that are
\* made, as the matcher's functions make them, of those of the calls they make.
THEOREM WaysExist ==
  ASSUME NEW s \in Input
  PROVE  \E V : Solution(V, s)
<1>1. Least(s) \in Systems(s)
  BY DEF Least, Systems
<1> QED BY <1>1, LeastIsMade DEF Solution

\* What grows from the ways of a call to those of the calls they are made for.
Size(c, w) == 2 * Len(w.path) + (IF c.fn = "match_exp" THEN 0 ELSE 1)

LEMMA WayFacts ==
  ASSUME NEW s, NEW V \in Systems(s), NEW e \in Exp, NEW c \in CallsOf(e), NEW i \in 0 .. Len(s),
         NEW w \in V[<<c, i>>]
  PROVE  w.path \in Paths /\ w.end \in 0 .. Len(s) /\ Len(w.path) \in Nat /\ Size(c, w) \in Nat
<1>1. V[<<c, i>>] \subseteq WayType(s)
  BY PlacesOf DEF Systems
<1>2. w.path \in Paths /\ w.end \in 0 .. Len(s)
  BY <1>1 DEF WayType
<1>3. Len(w.path) \in Nat
  BY <1>2, LenProperties DEF Paths
<1> DEFINE n == Len(w.path)
<1> HIDE DEF n
<1>4. \A r \in {0, 1} : 2 * n + r \in Nat
  BY <1>3 DEF n
<1> QED BY <1>2, <1>3, <1>4 DEF Size, n

LEMMA JoinLen ==
  ASSUME NEW a \in Paths, NEW b \in Paths
  PROVE  a \o b \in Paths /\ Len(a \o b) = Len(a) + Len(b) /\ Len(a) \in Nat /\ Len(b) \in Nat
BY ConcatProperties, LenProperties DEF Paths

LEMMA AroundLen ==
  ASSUME NEW a \in Paths, NEW b \in Paths, NEW c \in Paths
  PROVE  a \o b \o c \in Paths /\ Len(a \o b \o c) = Len(a) + Len(b) + Len(c)
         /\ Len(a) \in Nat /\ Len(b) \in Nat /\ Len(c) \in Nat
<1>1. a \o b \in Paths
  BY JoinLen
<1> QED BY <1>1, JoinLen

\* What a way of a call is made of.
LEMMA MadeExp ==
  ASSUME NEW s \in Input, NEW V \in Systems(s), NEW e \in Exp, NEW i \in 0 .. Len(s),
         NEW w \in Made(V, Call("match_exp", e, 0), i, s)
  PROVE  Len(w.path) >= 1
<1> DEFINE c == Call("match_exp", e, 0)
<1>1. c.fn = "match_exp" /\ c.exp = e
  BY CallFields
<1> HIDE DEF c
<1>2. ASSUME NEW d \in Exp, NEW a \in CallsOf(d), NEW b \in Paths, NEW l \in Paths,
             Len(b) = 1 \/ Len(l) = 1, w \in Around(b, V[<<a, i>>], l)
      PROVE  Len(w.path) >= 1
  <2>1. PICK u \in V[<<a, i>>] : w = Way(b \o u.path \o l, u.end)
    BY <1>2 DEF Around
  <2>2. u.path \in Paths
    BY WayFacts
  <2>3. w.path = b \o u.path \o l
    BY <2>1 DEF Way
  <2> DEFINE x == u.path
  <2>4. Len(b \o x \o l) = Len(b) + Len(x) + Len(l) /\ Len(b) \in Nat /\ Len(x) \in Nat /\ Len(l) \in Nat
    <3> HIDE DEF x
    <3> QED BY <2>2, AroundLen DEF x
  <2>5. w.path = b \o x \o l
    BY <2>3
  <2> HIDE DEF x
  <2>6. Len(w.path) = Len(b) + Len(x) + Len(l)
    BY <2>4, <2>5
  <2> DEFINE bs == Len(b)
             xs == Len(x)
             ls == Len(l)
  <2>7. bs \in Nat /\ xs \in Nat /\ ls \in Nat /\ (bs = 1 \/ ls = 1) /\ Len(w.path) = bs + xs + ls
    BY <1>2, <2>4, <2>6
  <2> HIDE DEF bs, xs, ls
  <2> QED BY <2>7
<1>3. \A x : Len(<<x>>) = 1 /\ Len(<<>>) = 0
  OBVIOUS
<1>4. \A m \in Enter \cup Leave \cup {"Nothing"} : <<Punct(m)>> \in Paths
  BY DEF Punct, PathElt, Enter, Paths
<1>5. <<>> \in Paths
  BY DEF Paths
<1>6. CASE e.op \in {"Token", "Nothing"}
  <2>1. \E x, j : w = Way(<<x>>, j)
    BY <1>1, <1>6 DEF Made, Unfold, c
  <2>2. \E x : w.path = <<x>>
    BY <2>1 DEF Way
  <2> QED BY <1>3, <2>2
<1>7. /\ e.op \in {"Repeat", "Repeat1", "Opt"} =>
           /\ e.args[1] \in Exp
           /\ \A f \in {"match_repeat", "match_repeat1", "match_opt"} : Call(f, e.args[1], 0) \in CallsOf(e.args[1])
      /\ Call("match_case", e, 1) \in CallsOf(e) /\ Call("match_seq", e, 1) \in CallsOf(e)
  <2>1. e.op \in {"Repeat", "Repeat1", "Opt"} => e.args[1] \in Exp
    BY ExpAssumption
  <2>2. 1 \in 1 .. Len(e.args) + 1
    BY ExpAssumption
  <2> QED BY <2>1, <2>2, Calls
<1>8. CASE e.op = "Repeat"
  <2>1. w \in Around(<<Punct("Enter_repeat")>>, V[<<Call("match_repeat", e.args[1], 0), i>>], <<Punct("Leave_repeat")>>)
    BY <1>1, <1>8 DEF Made, Unfold, c
  <2>2. <<Punct("Enter_repeat")>> \in Paths /\ <<Punct("Leave_repeat")>> \in Paths
    BY <1>4 DEF Enter, Leave
  <2>3. Len(<<Punct("Enter_repeat")>>) = 1
    OBVIOUS
  <2>4. /\ e.args[1] \in Exp
        /\ \A f \in {"match_repeat", "match_repeat1", "match_opt"} : Call(f, e.args[1], 0) \in CallsOf(e.args[1])
    BY <1>7, <1>8
  <2> QED BY <1>2, <2>1, <2>2, <2>3, <2>4
<1>9. CASE e.op = "Repeat1"
  <2>1. w \in Around(<<Punct("Enter_repeat1")>>, V[<<Call("match_repeat1", e.args[1], 0), i>>], <<Punct("Leave_repeat1")>>)
    BY <1>1, <1>9 DEF Made, Unfold, c
  <2>2. <<Punct("Enter_repeat1")>> \in Paths /\ <<Punct("Leave_repeat1")>> \in Paths
    BY <1>4 DEF Enter, Leave
  <2>3. Len(<<Punct("Enter_repeat1")>>) = 1
    OBVIOUS
  <2>4. /\ e.args[1] \in Exp
        /\ \A f \in {"match_repeat", "match_repeat1", "match_opt"} : Call(f, e.args[1], 0) \in CallsOf(e.args[1])
    BY <1>7, <1>9
  <2> QED BY <1>2, <2>1, <2>2, <2>3, <2>4
<1>10. CASE e.op = "Opt"
  <2>1. w \in Around(<<Punct("Enter_opt")>>, V[<<Call("match_opt", e.args[1], 0), i>>], <<Punct("Leave_opt")>>)
    BY <1>1, <1>10 DEF Made, Unfold, c
  <2>2. <<Punct("Enter_opt")>> \in Paths /\ <<Punct("Leave_opt")>> \in Paths
    BY <1>4 DEF Enter, Leave
  <2>3. Len(<<Punct("Enter_opt")>>) = 1
    OBVIOUS
  <2>4. /\ e.args[1] \in Exp
        /\ \A f \in {"match_repeat", "match_repeat1", "match_opt"} : Call(f, e.args[1], 0) \in CallsOf(e.args[1])
    BY <1>7, <1>10
  <2> QED BY <1>2, <2>1, <2>2, <2>3, <2>4
<1>11. CASE e.op = "Alt"
  <2>1. w \in Around(<<>>, V[<<Call("match_case", e, 1), i>>], <<Punct("Leave_alt")>>)
    BY <1>1, <1>11 DEF Made, Unfold, c
  <2>2. <<Punct("Leave_alt")>> \in Paths
    BY <1>4 DEF Leave
  <2>3. Len(<<Punct("Leave_alt")>>) = 1
    OBVIOUS
  <2> QED BY <1>2, <1>5, <1>7, <2>1, <2>2, <2>3
<1>12. CASE e.op = "Seq"
  <2>1. w \in Around(<<Punct("Enter_seq")>>, V[<<Call("match_seq", e, 1), i>>], <<>>)
    BY <1>1, <1>12 DEF Made, Unfold, c
  <2>2. <<Punct("Enter_seq")>> \in Paths
    BY <1>4 DEF Enter
  <2>3. Len(<<Punct("Enter_seq")>>) = 1
    OBVIOUS
  <2> QED BY <1>2, <1>5, <1>7, <2>1, <2>2, <2>3
<1> QED BY <1>6, <1>8, <1>9, <1>10, <1>11, <1>12, ExpAssumption DEF Ops

\* The sizes of what a path is made of.
LEMMA SizeAround ==
  ASSUME NEW s, NEW c, NEW a, NEW b \in Paths, NEW l \in Paths, Len(b) = 1 \/ Len(l) = 1,
         NEW u \in WayType(s), NEW w, w = Way(b \o u.path \o l, u.end)
  PROVE  Size(a, u) < Size(c, w)
<1> DEFINE x  == u.path
           p  == w.path
           bs == Len(b)
           xs == Len(x)
           ls == Len(l)
           ps == Len(p)
<1>1. x \in Paths /\ p = b \o x \o l
  BY DEF WayType, Way
<1>2. ps = bs + xs + ls /\ bs \in Nat /\ xs \in Nat /\ ls \in Nat
  <2> HIDE DEF x, p
  <2> QED BY <1>1, AroundLen
<1> HIDE DEF bs, xs, ls, ps
<1>3. bs = 1 \/ ls = 1
  BY DEF bs, ls
<1>4. 2 * xs + 1 < 2 * ps
  BY <1>2, <1>3
<1>5. Size(a, u) <= 2 * xs + 1 /\ Size(c, w) >= 2 * ps /\ Size(a, u) \in Nat /\ Size(c, w) \in Nat
  <2>1. Size(a, u) = 2 * xs + (IF a.fn = "match_exp" THEN 0 ELSE 1)
    BY DEF Size, xs
  <2>2. Size(c, w) = 2 * ps + (IF c.fn = "match_exp" THEN 0 ELSE 1)
    BY DEF Size, ps
  <2>3. ps \in Nat
    BY <1>2
  <2> QED BY <1>2, <2>1, <2>2, <2>3
<1> QED BY <1>2, <1>4, <1>5

LEMMA SizeThen ==
  ASSUME NEW s, NEW c, c.fn # "match_exp", NEW a, a.fn = "match_exp", NEW d,
         NEW u \in WayType(s), NEW v \in WayType(s), Len(u.path) >= 1,
         NEW w, w = Way(u.path \o v.path, v.end)
  PROVE  Size(a, u) < Size(c, w) /\ Size(d, v) < Size(c, w)
<1> DEFINE x  == u.path
           y  == v.path
           p  == w.path
           xs == Len(x)
           ys == Len(y)
           ps == Len(p)
<1>1. x \in Paths /\ y \in Paths /\ p = x \o y
  BY DEF WayType, Way
<1>2. ps = xs + ys /\ xs \in Nat /\ ys \in Nat
  <2> HIDE DEF x, y, p
  <2> QED BY <1>1, JoinLen
<1>3. xs >= 1
  OBVIOUS
<1> HIDE DEF xs, ys, ps
<1>4. Size(a, u) = 2 * xs
  <2>1. Size(a, u) = 2 * xs + 0
    BY DEF Size, xs
  <2> QED BY <1>2, <2>1
<1>5. Size(c, w) = 2 * ps + 1
  BY DEF Size, ps
<1>6. Size(d, v) = 2 * ys \/ Size(d, v) = 2 * ys + 1
  <2>1. Size(d, v) = 2 * ys + (IF d.fn = "match_exp" THEN 0 ELSE 1)
    BY DEF Size, ys
  <2> QED BY <1>2, <2>1
<1> QED BY <1>2, <1>3, <1>4, <1>5, <1>6

\* Only smaller ways are made of.
LEMMA MadeOfSmaller ==
  ASSUME NEW s \in Input, NEW V, Solution(V, s), NEW U \in Systems(s),
         NEW e \in Exp, NEW c \in CallsOf(e), NEW i \in 0 .. Len(s), NEW w \in Made(V, c, i, s),
         \A d \in Exp : \A a \in CallsOf(d), j \in 0 .. Len(s) : \A u \in V[<<a, j>>] :
           Size(a, u) < Size(c, w) => u \in U[<<a, j>>]
  PROVE  w \in Made(U, c, i, s)
<1>1. V \in Systems(s) /\ c.exp = e
  BY CallCases DEF Solution
<1>2. ASSUME NEW d \in Exp, NEW a \in CallsOf(d), NEW j \in 0 .. Len(s), NEW u \in V[<<a, j>>]
      PROVE  u \in WayType(s) /\ u.path \in Paths /\ u.end \in 0 .. Len(s)
  <2>1. V[<<a, j>>] \subseteq WayType(s)
    BY <1>1, PlacesOf DEF Systems
  <2> QED BY <2>1 DEF WayType
<1>3. ASSUME NEW d \in Exp, NEW a \in CallsOf(d), NEW b \in Paths, NEW l \in Paths,
             Len(b) = 1 \/ Len(l) = 1, w \in Around(b, V[<<a, i>>], l)
      PROVE  w \in Around(b, U[<<a, i>>], l)
  <2>1. PICK u \in V[<<a, i>>] : w = Way(b \o u.path \o l, u.end)
    BY <1>3 DEF Around
  <2>2. u \in WayType(s)
    BY <1>2
  <2>3. Size(a, u) < Size(c, w)
    BY <1>3, <2>1, <2>2, SizeAround
  <2>4. u \in U[<<a, i>>]
    BY <2>3
  <2> QED BY <2>1, <2>4 DEF Around
<1>4. \A m \in Enter \cup Leave : <<Punct(m)>> \in Paths /\ Len(<<Punct(m)>>) = 1
  BY DEF Punct, PathElt, Enter, Paths
<1>5. <<>> \in Paths
  BY DEF Paths
<1>6. CASE c.fn = "match_exp" /\ e.op \in {"Token", "Nothing"}
  BY <1>1, <1>6 DEF Made, Unfold
<1>7. CASE c.fn = "match_exp" /\ e.op = "Repeat"
  <2> DEFINE a == Call("match_repeat", e.args[1], 0)
  <2>1. e.args[1] \in Exp /\ a \in CallsOf(e.args[1])
    <3>1. e.args[1] \in Exp
      BY <1>7, ExpAssumption
    <3> QED BY <3>1, Calls
  <2>2. \A T \in {V, U} : Made(T, c, i, s) = Around(<<Punct("Enter_repeat")>>, T[<<a, i>>], <<Punct("Leave_repeat")>>)
    BY <1>1, <1>7 DEF Made, Unfold
  <2>3. /\ <<Punct("Enter_repeat")>> \in Paths /\ <<Punct("Leave_repeat")>> \in Paths
        /\ Len(<<Punct("Enter_repeat")>>) = 1
    BY <1>4 DEF Enter, Leave
  <2> QED BY <1>3, <2>1, <2>2, <2>3
<1>8. CASE c.fn = "match_exp" /\ e.op = "Repeat1"
  <2> DEFINE a == Call("match_repeat1", e.args[1], 0)
  <2>1. e.args[1] \in Exp /\ a \in CallsOf(e.args[1])
    <3>1. e.args[1] \in Exp
      BY <1>8, ExpAssumption
    <3> QED BY <3>1, Calls
  <2>2. \A T \in {V, U} : Made(T, c, i, s) = Around(<<Punct("Enter_repeat1")>>, T[<<a, i>>], <<Punct("Leave_repeat1")>>)
    BY <1>1, <1>8 DEF Made, Unfold
  <2>3. /\ <<Punct("Enter_repeat1")>> \in Paths /\ <<Punct("Leave_repeat1")>> \in Paths
        /\ Len(<<Punct("Enter_repeat1")>>) = 1
    BY <1>4 DEF Enter, Leave
  <2> QED BY <1>3, <2>1, <2>2, <2>3
<1>9. CASE c.fn = "match_exp" /\ e.op = "Opt"
  <2> DEFINE a == Call("match_opt", e.args[1], 0)
  <2>1. e.args[1] \in Exp /\ a \in CallsOf(e.args[1])
    <3>1. e.args[1] \in Exp
      BY <1>9, ExpAssumption
    <3> QED BY <3>1, Calls
  <2>2. \A T \in {V, U} : Made(T, c, i, s) = Around(<<Punct("Enter_opt")>>, T[<<a, i>>], <<Punct("Leave_opt")>>)
    BY <1>1, <1>9 DEF Made, Unfold
  <2>3. /\ <<Punct("Enter_opt")>> \in Paths /\ <<Punct("Leave_opt")>> \in Paths
        /\ Len(<<Punct("Enter_opt")>>) = 1
    BY <1>4 DEF Enter, Leave
  <2> QED BY <1>3, <2>1, <2>2, <2>3
<1>10. CASE c.fn = "match_exp" /\ e.op = "Alt"
  <2> DEFINE a == Call("match_case", e, 1)
  <2>1. a \in CallsOf(e)
    BY Calls, ExpAssumption
  <2>2. \A T \in {V, U} : Made(T, c, i, s) = Around(<<>>, T[<<a, i>>], <<Punct("Leave_alt")>>)
    BY <1>1, <1>10 DEF Made, Unfold
  <2>3. <<Punct("Leave_alt")>> \in Paths /\ Len(<<Punct("Leave_alt")>>) = 1
    BY <1>4 DEF Leave
  <2> QED BY <1>3, <1>5, <2>1, <2>2, <2>3
<1>11. CASE c.fn = "match_exp" /\ e.op = "Seq"
  <2> DEFINE a == Call("match_seq", e, 1)
  <2>1. a \in CallsOf(e)
    BY Calls, ExpAssumption
  <2>2. \A T \in {V, U} : Made(T, c, i, s) = Around(<<Punct("Enter_seq")>>, T[<<a, i>>], <<>>)
    BY <1>1, <1>11 DEF Made, Unfold
  <2>3. <<Punct("Enter_seq")>> \in Paths /\ Len(<<Punct("Enter_seq")>>) = 1
    BY <1>4 DEF Enter
  <2> QED BY <1>3, <1>5, <2>1, <2>2, <2>3
<1>12. CASE c.fn = "match_case"
  <2>1. PICK k \in c.i .. Len(e.args) :
          w \in Around(<<EnterAlt(k)>>, V[<<Call("match_exp", e.args[k], 0), i>>], <<>>)
    BY <1>1, <1>12 DEF Made, Unfold
  <2>2. e.args[k] \in Exp /\ k \in Nat
    BY <1>12, CallCases, ExpAssumption
  <2>3. Call("match_exp", e.args[k], 0) \in CallsOf(e.args[k])
    BY <2>2, Calls
  <2>4. <<EnterAlt(k)>> \in Paths /\ Len(<<EnterAlt(k)>>) = 1
    BY <2>2 DEF EnterAlt, PathElt, Enter, Paths
  <2>5. w \in Around(<<EnterAlt(k)>>, U[<<Call("match_exp", e.args[k], 0), i>>], <<>>)
    BY <1>3, <1>5, <2>1, <2>2, <2>3, <2>4
  <2> QED BY <1>1, <1>12, <2>5 DEF Made, Unfold
<1>13. ASSUME NEW d \in Exp, NEW u \in V[<<Call("match_exp", d, 0), i>>]
       PROVE  Len(u.path) >= 1 /\ Call("match_exp", d, 0) \in CallsOf(d) /\ Call("match_exp", d, 0).fn = "match_exp"
  <2>1. Call("match_exp", d, 0) \in CallsOf(d)
    BY Calls
  <2>2. u \in Made(V, Call("match_exp", d, 0), i, s)
    BY <2>1 DEF Solution
  <2> QED BY <1>1, <2>1, <2>2, MadeExp, CallFields
<1>14. CASE c.fn = "match_seq"
  <2>1. CASE c.i > Len(e.args)
    BY <1>1, <1>14, <2>1 DEF Made, Unfold
  <2>2. CASE ~(c.i > Len(e.args))
    <3> DEFINE a == Call("match_exp", e.args[c.i], 0)
               b == Call("match_seq", e, c.i + 1)
    <3>1. e.args[c.i] \in Exp /\ c.i + 1 \in 1 .. Len(e.args) + 1
      BY <1>14, <2>2, CallCases, ExpAssumption
    <3>2. b \in CallsOf(e) /\ a \in CallsOf(e.args[c.i])
      BY <3>1, Calls
    <3> DEFINE Both(M) == UNION {{Way(x.path \o y.path, y.end) : y \in M[<<b, x.end>>]} : x \in M[<<a, i>>]}
    <3>3. Made(V, c, i, s) = Both(V) /\ Made(U, c, i, s) = Both(U)
      BY <1>1, <1>14, <2>2 DEF Made, Unfold, Then
    <3>4. PICK u \in V[<<a, i>>] : \E v \in V[<<b, u.end>>] : w = Way(u.path \o v.path, v.end)
      BY <3>3
    <3>5. PICK v \in V[<<b, u.end>>] : w = Way(u.path \o v.path, v.end)
      BY <3>4
    <3>6. u \in WayType(s) /\ u.end \in 0 .. Len(s) /\ v \in WayType(s)
      BY <1>2, <3>1, <3>2
    <3>7. Size(a, u) < Size(c, w) /\ Size(b, v) < Size(c, w)
      BY <1>13, <1>14, <3>1, <3>5, <3>6, SizeThen
    <3>8. u \in U[<<a, i>>] /\ v \in U[<<b, u.end>>]
      BY <3>1, <3>2, <3>6, <3>7
    <3> DEFINE After(x) == {Way(x.path \o y.path, y.end) : y \in U[<<b, x.end>>]}
    <3>9. w \in After(u)
      BY <3>5, <3>8
    <3>10. After(u) \in {After(x) : x \in U[<<a, i>>]}
      BY <3>8
    <3>11. w \in Both(U)
      <4> HIDE DEF a, b
      <4> QED BY <3>9, <3>10
    <3> QED BY <3>3, <3>11
  <2> QED BY <2>1, <2>2
<1>15. CASE c.fn = "match_opt"
  <2> DEFINE a == Call("match_exp", e, 0)
  <2>1. \A T \in {V, U} : Made(T, c, i, s) = {Way(<<>>, i)} \cup T[<<a, i>>]
    BY <1>1, <1>15 DEF Made, Unfold
  <2>2. CASE w \in V[<<a, i>>]
    <3>1. a \in CallsOf(e) /\ a.fn = "match_exp"
      BY Calls, CallFields
    <3>2. Size(a, w) < Size(c, w)
      <4> DEFINE n == Len(w.path)
      <4>1. n \in Nat
        BY <1>1, <2>2, <3>1, WayFacts
      <4>2. Size(a, w) = 2 * n + 0 /\ Size(c, w) = 2 * n + 1
        BY <1>15, <3>1 DEF Size
      <4> HIDE DEF n
      <4> QED BY <4>1, <4>2
    <3> QED BY <2>1, <2>2, <3>1, <3>2
  <2> QED BY <2>1, <2>2
<1>16. ASSUME NEW u \in V[<<Call("match_exp", e, 0), i>>], c.fn \in {"match_repeat", "match_repeat1"},
              NEW v, w = Way(u.path \o v.path, v.end),
              IF u.end = i THEN v = Way(<<>>, u.end) ELSE v \in V[<<Call("match_repeat", e, 0), u.end>>]
       PROVE  /\ u \in U[<<Call("match_exp", e, 0), i>>]
              /\ IF u.end = i THEN v = Way(<<>>, u.end) ELSE v \in U[<<Call("match_repeat", e, 0), u.end>>]
  <2> DEFINE a == Call("match_exp", e, 0)
             b == Call("match_repeat", e, 0)
  <2>1. a \in CallsOf(e) /\ b \in CallsOf(e) /\ a.fn = "match_exp" /\ c.fn # "match_exp" /\ Len(u.path) >= 1
    BY <1>13, <1>16, Calls, CallFields
  <2>2. u \in WayType(s) /\ u.end \in 0 .. Len(s)
    BY <1>2, <2>1
  <2>3. v \in WayType(s)
    <3>1. Way(<<>>, i) \in WayType(s)
      BY <1>5, WayTyped
    <3> QED BY <1>2, <1>16, <2>1, <2>2, <3>1
  <2> HIDE DEF a, b
  <2>4. Size(a, u) < Size(c, w) /\ Size(b, v) < Size(c, w)
    BY <1>16, <2>1, <2>2, <2>3, SizeThen
  <2>5. u \in V[<<a, i>>] => u \in U[<<a, i>>]
    BY <2>1, <2>4
  <2>6. v \in V[<<b, u.end>>] => v \in U[<<b, u.end>>]
    BY <2>1, <2>2, <2>4
  <2> QED BY <1>16, <2>5, <2>6 DEF a, b
<1>17. CASE c.fn \in {"match_repeat", "match_repeat1"}
  <2> DEFINE Next1(M, k) == IF k = i THEN {Way(<<>>, k)} ELSE M[<<Call("match_repeat", e, 0), k>>]
             Both(M) == UNION {{Way(x.path \o y.path, y.end) : y \in Next1(M, x.end)} :
                                 x \in M[<<Call("match_exp", e, 0), i>>]}
  <2>1. ASSUME w \in Both(V)
        PROVE  w \in Both(U)
    <3>1. PICK u \in V[<<Call("match_exp", e, 0), i>>] :
            \E v \in Next1(V, u.end) : w = Way(u.path \o v.path, v.end)
      BY <2>1
    <3>2. PICK v \in Next1(V, u.end) : w = Way(u.path \o v.path, v.end)
      BY <3>1
    <3>3. /\ u \in U[<<Call("match_exp", e, 0), i>>]
          /\ IF u.end = i THEN v = Way(<<>>, u.end) ELSE v \in U[<<Call("match_repeat", e, 0), u.end>>]
      BY <1>16, <1>17, <3>2
    <3>4. v \in Next1(U, u.end)
      BY <3>3
    <3> DEFINE After(x) == {Way(x.path \o y.path, y.end) : y \in Next1(U, x.end)}
    <3>5. w \in After(u)
      BY <3>2, <3>4
    <3>6. After(u) \in {After(x) : x \in U[<<Call("match_exp", e, 0), i>>]}
      BY <3>3
    <3> QED
      <4> HIDE DEF Next1
      <4> QED BY <3>5, <3>6
  <2>2. CASE c.fn = "match_repeat"
    <3>1. \A M \in {V, U} : Made(M, c, i, s) = {Way(<<>>, i)} \cup Both(M)
      BY <1>1, <2>2 DEF Made, Unfold, Then
    <3> HIDE DEF Both
    <3>2. w \in Both(V) => w \in Both(U)
      BY <2>1
    <3> QED BY <3>1, <3>2
  <2>3. CASE c.fn = "match_repeat1"
    <3>1. \A M \in {V, U} : Made(M, c, i, s) = Both(M)
      BY <1>1, <2>3 DEF Made, Unfold, Then
    <3> HIDE DEF Both
    <3>2. w \in Both(V) => w \in Both(U)
      BY <2>1
    <3> QED BY <3>1, <3>2
  <2> QED BY <1>17, <2>2, <2>3
<1> QED BY <1>6, <1>7, <1>8, <1>9, <1>10, <1>11, <1>12, <1>14, <1>15, <1>17, CallCases, ExpAssumption DEF Ops

\* A property of 0, and of the successor of each number that has it, is one of
\* every number.
LEMMA SetInd ==
  ASSUME NEW S, 0 \in S, \A n \in Nat : n \in S => n + 1 \in S
  PROVE  Nat \subseteq S
<1>1. IsWellFoundedOn(OpToRel(<, Nat), Nat)
  BY NatLessThanWellFounded
<1> DEFINE T == Nat \ S
<1>2. CASE T # {}
  <2>1. \E x \in T : \A y \in T : ~ (<<y, x>> \in OpToRel(<, Nat))
    <3> HIDE DEF T
    <3>1. T \subseteq Nat BY DEF T
    <3> QED BY <1>1, <1>2, <3>1, WFMin
  <2>2. PICK x \in T : \A y \in T : ~ (<<y, x>> \in OpToRel(<, Nat))
    BY <2>1
  <2>3. \A y \in Nat : y < x => <<y, x>> \in OpToRel(<, Nat)
    BY DEF OpToRel
  <2> DEFINE R == OpToRel(<, Nat)
  <2>3a. (\A y \in Nat : y < x => <<y, x>> \in R) /\ (\A y \in T : ~ (<<y, x>> \in R))
    BY <2>2, <2>3
  <2>4. x # 0 /\ x \in Nat
    OBVIOUS
  <2> HIDE DEF R
  <2>5a. x - 1 \in Nat /\ x - 1 < x
    BY <2>4, SMT
  <2>5b. <<x-1, x>> \in R
    BY <2>5a, <2>3a
  <2>5. x - 1 \in S /\ x - 1 \in Nat
    BY <2>3a, <2>5a, <2>5b
  <2>6. (x - 1) + 1 \in S
    BY <2>5
  <2>7. (x - 1) + 1 = x
    BY <2>4, SMT
  <2> QED BY <2>6, <2>7
<1> QED BY <1>2

LEMMA SolutionsWithin ==
  ASSUME NEW s \in Input, NEW V, Solution(V, s), NEW U, Solution(U, s),
         NEW e \in Exp, NEW c \in CallsOf(e), NEW i \in 0 .. Len(s), NEW w \in V[<<c, i>>]
  PROVE  w \in U[<<c, i>>]
<1>1. V \in Systems(s) /\ U \in Systems(s)
  BY DEF Solution
<1> DEFINE Below(n) == \A d \in Exp : \A a \in CallsOf(d), j \in 0 .. Len(s) :
                         \A u \in V[<<a, j>>] : Size(a, u) < n => u \in U[<<a, j>>]
           S == {n \in Nat : Below(n)}
<1>2. 0 \in S
  <2>1. ASSUME NEW d \in Exp, NEW a \in CallsOf(d), NEW j \in 0 .. Len(s), NEW u \in V[<<a, j>>]
        PROVE  ~(Size(a, u) < 0)
    <3>1. Size(a, u) \in Nat
      BY <1>1, WayFacts
    <3> QED BY <3>1
  <2> QED BY <2>1
<1>3. ASSUME NEW n \in Nat, n \in S
      PROVE  n + 1 \in S
  <2>1. ASSUME NEW d \in Exp, NEW a \in CallsOf(d), NEW j \in 0 .. Len(s), NEW u \in V[<<a, j>>],
               Size(a, u) < n + 1
        PROVE  u \in U[<<a, j>>]
    <3>1. Size(a, u) \in Nat
      BY <1>1, WayFacts
    <3>2. ASSUME NEW d2 \in Exp, NEW a2 \in CallsOf(d2), NEW j2 \in 0 .. Len(s), NEW u2 \in V[<<a2, j2>>],
                 Size(a2, u2) < Size(a, u)
          PROVE  u2 \in U[<<a2, j2>>]
      <4>1. Size(a2, u2) \in Nat
        BY <1>1, WayFacts
      <4>2. Size(a2, u2) < n
        BY <2>1, <3>1, <3>2, <4>1
      <4> QED BY <1>3, <4>2
    <3>3. u \in Made(V, a, j, s) /\ U[<<a, j>>] = Made(U, a, j, s)
      BY DEF Solution
    <3>4. u \in Made(U, a, j, s)
      <4> HIDE DEF Below, S
      <4> QED BY <1>1, <3>2, <3>3, MadeOfSmaller
    <3> QED BY <3>3, <3>4
  <2> QED BY <2>1
<1>4. Nat \subseteq S
  <2> HIDE DEF S
  <2> QED BY <1>2, <1>3, SetInd
<1>5. Size(c, w) \in Nat
  BY <1>1, WayFacts
<1>6. Size(c, w) + 1 \in S /\ Size(c, w) < Size(c, w) + 1
  <2> HIDE DEF S
  <2> QED BY <1>4, <1>5
<1> QED BY <1>6

\* Nothing but the set of all the ways is so made: a way is made of shorter
\* ones, or of those of the expression a quantifier is about.
THEOREM WaysUnique ==
  ASSUME NEW s \in Input, NEW V, Solution(V, s), NEW U, Solution(U, s),
         NEW e \in Exp, NEW c \in CallsOf(e), NEW i \in 0 .. Len(s)
  PROVE  V[<<c, i>>] = U[<<c, i>>]
<1>1. ASSUME NEW w \in V[<<c, i>>]
      PROVE  w \in U[<<c, i>>]
  BY SolutionsWithin
<1>2. ASSUME NEW w \in U[<<c, i>>]
      PROVE  w \in V[<<c, i>>]
  BY SolutionsWithin
<1> QED BY <1>1, <1>2
=============================================================================
