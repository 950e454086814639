--------------------------- MODULE Propose_proofs ---------------------------
(***************************************************************************)
(* Proofs about Propose, for any number of languages, clones and runs:     *)
(* what follows from where a run is in its clone (PInv), and what runs that *)
(* follow each other in a clone find of those before (CInv).               *)
(***************************************************************************)
EXTENDS Propose, TLAPS

Links    == {"old", "new"}
Dirts    == {"clean", "modified", "conflicting"}
Tip      == [items : SUBSET Item, links : [Lang -> Links]]
Places   == {"idle", "look_up"} \cup InTry \cup InOpenPR \cup InReset
Statuses == {"none", "no_tags", "exists", "failed", "interrupted", "killed", "updated", "dry_run"}

CloneType ==
  [head : Lang \cup {"main"}, tips : [Lang -> Tip \cup {NoBranch}],
   work : SUBSET Item, index : SUBSET Item,
   sub : [Lang -> Links], links : [Lang -> Links], dirt : [Lang -> Dirts]]

RunType ==
  [pc : Places, lang : Lang, args : SUBSET {"open_pr", "dry_run"}, old : Links, status : Statuses,
   tested : [items : SUBSET Item, links : [Lang -> Links], dirt : Dirts], undone : SUBSET InReset]

TypeOK ==
  /\ clone \in [Clone -> CloneType] /\ run \in [Clone -> RunType]
  /\ origin \in [Lang -> Tip \cup {NoBranch}] /\ prs \in [Lang -> Nat]

-----------------------------------------------------------------------------
(* What holds of a clone k and the run r in it *)

\* A branch that is checked out is there.
HeadOK(k) == k.head # "main" => k.tips[k.head] \in Tip

\* Only runs that are to open a PR look up, commit and push, and they do on
\* the branch of their language.
KeepOK(k, r) ==
  /\ r.pc \in {"look_up", "checkout_base", "add", "commit", "push", "create_pr"} => Keep(r.args)
  /\ r.pc \in (InTry \ {"checkout_base"}) \cup InOpenPR /\ Keep(r.args) =>
       k.head = r.lang /\ k.tips[r.lang] \in Tip
  /\ r.pc \in InReset /\ Keep(r.args) => r.status # "updated"

\* From the bump on the submodule is at the new commit.
BumpOK(k, r) ==
  /\ r.pc \in {"snapshots", "test", "agent", "retest", "add"} => k.sub[r.lang] = "new"
  /\ r.pc = "commit" => k.links[r.lang] = "new"
  /\ r.pc \in InOpenPR => k.tips[r.lang].links[r.lang] = "new"

\* What test-lang has seen is carried from the work tree over the index to the
\* branch.
GreenOK(k, r) ==
  /\ r.pc = "add" => r.tested.items = k.work /\ r.tested.links = k.sub
  /\ r.pc = "commit" => r.tested.items \ {Core} = k.index /\ r.tested.links = k.links
  /\ r.pc \in InOpenPR => /\ r.tested.items \ {Core} = k.tips[r.lang].items
                           /\ r.tested.links = k.tips[r.lang].links

IndexReset(k) == k.index = Head(k).items /\ k.links = Head(k).links
FilesReset(k) == k.work \ Untouched = k.index \ Untouched

\* The commands of the reset that were done have put back their part.
ResetOK(k, r) ==
  LET committed == k.tips[r.lang] \notin {NoBranch, Base} /\ Keep(r.args)
      ended     == r.pc = "idle" /\ r.status \in {"updated", "dry_run", "failed", "interrupted"} /\ ~committed
      done(step, later) == step \notin r.undone /\ (r.pc \in later \/ ended)
  IN  /\ done("reset_index", InReset \ {"reset_index"}) => IndexReset(k)
      /\ done("reset_files", {"reset_submodule", "clean_submodule"}) => FilesReset(k)
      /\ done("reset_submodule", {"clean_submodule"}) => k.sub[r.lang] = r.old
      /\ done("clean_submodule", {}) => k.dirt[r.lang] = "clean"

CloneOK(k, r) == HeadOK(k) /\ KeepOK(k, r) /\ BumpOK(k, r) /\ GreenOK(k, r) /\ ResetOK(k, r)

-----------------------------------------------------------------------------
\* One run at most has pushed a language and not yet opened its PR.
Proposing ==
  /\ \A l \in Lang : prs[l] # 0 => origin[l] # NoBranch
  /\ \A c \in Clone : At(c, "create_pr") => origin[L(c)] = clone[c].tips[L(c)] /\ prs[L(c)] = 0
  /\ \A c, d \in Clone : At(c, "create_pr") /\ At(d, "create_pr") /\ c # d => L(c) # L(d)

PInv == /\ TypeOK
        /\ \A c \in Clone : CloneOK(clone[c], run[c])
        /\ Proposing /\ UpdatedMeansPR

-----------------------------------------------------------------------------
LEMMA BaseTip == Base \in Tip /\ NoBranch \notin Tip /\ NotTested \in [items : SUBSET Item, links : [Lang -> Links], dirt : Dirts]
<1>1. Base \in Tip
  BY DEF Base, Tip, Links
<1>2. NoBranch \notin Tip
  BY ProposeAssumption DEF NoBranch, Tip, Links
<1>3. NotTested \in [items : SUBSET Item, links : [Lang -> Links], dirt : Dirts]
  BY DEF NotTested, Base, Links, Dirts
<1> QED BY <1>1, <1>2, <1>3

LEMMA HeadTip ==
  ASSUME NEW k \in CloneType, HeadOK(k)
  PROVE  Head(k) \in Tip
<1>1. CASE k.head = "main"
  BY <1>1, BaseTip DEF Head
<1>2. CASE k.head # "main"
  BY <1>2 DEF Head, HeadOK, CloneType
<1> QED BY <1>1, <1>2

LEMMA NewCloneOK == NewClone \in CloneType /\ HeadOK(NewClone)
<1>1. NewClone \in CloneType
  BY DEF NewClone, CloneType, Base, Links, Dirts
<1>2. HeadOK(NewClone)
  BY DEF NewClone, HeadOK
<1> QED BY <1>1, <1>2

LEMMA InitPInv == Init => PInv
<1> SUFFICES ASSUME Init PROVE PInv
  OBVIOUS
<1>1. Idle \in RunType
  <2>1. (CHOOSE l \in Lang : TRUE) \in Lang
    BY ProposeAssumption
  <2> QED BY <2>1, BaseTip DEF Idle, RunType, Places, Links, Statuses
<1>2. TypeOK
  BY <1>1, NewCloneOK DEF Init, TypeOK
<1>3. CloneOK(NewClone, Idle)
  <2>1. Idle.pc = "idle" /\ Idle.status = "none"
    BY DEF Idle
  <2> QED BY <2>1, NewCloneOK DEF CloneOK, KeepOK, BumpOK, GreenOK, ResetOK, InTry, InOpenPR, InReset
<1>4. \A c \in Clone : CloneOK(clone[c], run[c])
  BY <1>3 DEF Init
<1>5. Proposing /\ UpdatedMeansPR
  BY DEF Init, Proposing, UpdatedMeansPR, At, Idle
<1> QED BY <1>2, <1>4, <1>5 DEF PInv

\* A step of the run in c, in its clone only, that neither pushed nor ended
\* with a PR.
LEMMA LocalStep ==
  ASSUME PInv, NEW c \in Clone, NEW q \in CloneType, NEW r \in RunType,
         clone' = [clone EXCEPT ![c] = q], run' = [run EXCEPT ![c] = r],
         UNCHANGED <<origin, prs>>, CloneOK(q, r), r.pc # "create_pr",
         ~(r.pc = "idle" /\ r.status = "updated" /\ Keep(r.args))
  PROVE  PInv'
<1>1. TypeOK'
  BY DEF PInv, TypeOK
<1>2. clone'[c] = q /\ run'[c] = r
  BY DEF PInv, TypeOK
<1>3. \A d \in Clone \ {c} : clone'[d] = clone[d] /\ run'[d] = run[d]
  BY DEF PInv, TypeOK
<1>4. \A d \in Clone : CloneOK(clone[d], run[d])'
  BY <1>2, <1>3 DEF PInv
<1>5. Proposing'
  BY <1>2, <1>3 DEF PInv, Proposing, At, L
<1>6. UpdatedMeansPR'
  BY <1>2, <1>3 DEF PInv, UpdatedMeansPR, At
<1> QED BY <1>1, <1>4, <1>5, <1>6 DEF PInv

\* How the steps change the run in a clone: a step goes on, leaves the try block,
\* ends the run, or is one of the reset.
Like(m, r) == m.lang = r.lang /\ m.args = r.args /\ m.old = r.old

LEMMA MovedRun ==
  ASSUME PInv, NEW c \in Clone, NEW p \in Places, Goto(c, p)
  PROVE  \E m \in RunType :
           /\ run' = [run EXCEPT ![c] = m]
           /\ m.pc = p /\ Like(m, run[c])
           /\ m.status = run[c].status /\ m.tested = run[c].tested /\ m.undone = run[c].undone
<1> DEFINE r == run[c]
           m == [r EXCEPT !.pc = p]
<1>1. r \in RunType /\ run' = [run EXCEPT ![c] = m]
  BY DEF Goto, PInv, TypeOK
<1> HIDE DEF r
<1>2. m \in RunType /\ m.pc = p /\ Like(m, r) /\ m.status = r.status /\ m.tested = r.tested /\ m.undone = r.undone
  BY <1>1 DEF RunType, Like
<1> HIDE DEF m
<1> QED BY <1>1, <1>2 DEF r

LEMMA LeftRun ==
  ASSUME PInv, NEW c \in Clone, NEW s \in Statuses, Leave(c, s)
  PROVE  \E m \in RunType : run' = [run EXCEPT ![c] = m] /\ m.pc = "reset_index" /\ m.status = s
<1> DEFINE r == run[c]
           m == [r EXCEPT !.pc = "reset_index", !.status = s]
<1>1. r \in RunType /\ run' = [run EXCEPT ![c] = m]
  BY DEF Leave, PInv, TypeOK
<1> HIDE DEF r
<1>2. m \in RunType /\ m.pc = "reset_index" /\ m.status = s
  BY <1>1 DEF RunType, Places, InReset
<1> HIDE DEF m
<1> QED BY <1>1, <1>2

LEMMA EndedRun ==
  ASSUME PInv, NEW c \in Clone, NEW s \in Statuses, End(c, s)
  PROVE  \E m \in RunType : run' = [run EXCEPT ![c] = m] /\ m.pc = "idle" /\ m.status = s /\ Like(m, run[c])
<1> DEFINE r == run[c]
           m == [r EXCEPT !.pc = "idle", !.status = s, !.tested = NotTested]
<1>1. r \in RunType /\ run' = [run EXCEPT ![c] = m]
  BY DEF End, PInv, TypeOK
<1> HIDE DEF r
<1>2. m \in RunType /\ m.pc = "idle" /\ m.status = s /\ Like(m, r)
  BY <1>1, BaseTip DEF RunType, Places, Like
<1> HIDE DEF m
<1> QED BY <1>1, <1>2 DEF r

\* A step of the reset that git did not refuse.
Done(c, p) == NextReset(c, p, TRUE)

LEMMA ResetRun ==
  ASSUME PInv, NEW c \in Clone, NEW p \in InReset \cup {"idle"},
         run[c].pc \in InReset, Done(c, p)
  PROVE  \E m \in RunType :
           /\ run' = [run EXCEPT ![c] = m]
           /\ m.pc = p /\ m.status = run[c].status /\ Like(m, run[c]) /\ m.undone = run[c].undone
<1> DEFINE r == run[c]
           x == r.undone
           m == [r EXCEPT !.pc = p, !.tested = NotTested, !.undone = x]
<1>1. r \in RunType /\ run' = [run EXCEPT ![c] = m]
  BY DEF Done, NextReset, PInv, TypeOK
<1>2. x \in SUBSET InReset
  BY <1>1 DEF RunType
<1> HIDE DEF r, x
<1>3. m \in RunType /\ m.pc = p /\ m.status = r.status /\ m.undone = x /\ Like(m, r)
  BY <1>1, <1>2, BaseTip DEF RunType, Places, Like
<1> HIDE DEF m
<1> QED BY <1>1, <1>2, <1>3 DEF r, x

LEMMA GaveUpRun ==
  ASSUME PInv, NEW c \in Clone, NEW p \in InReset \cup {"idle"},
         run[c].pc \in InReset, NextReset(c, p, FALSE)
  PROVE  \E m \in RunType :
           /\ run' = [run EXCEPT ![c] = m]
           /\ m.pc = p /\ m.status = run[c].status /\ Like(m, run[c])
           /\ m.undone = run[c].undone \cup {run[c].pc}
<1> DEFINE r == run[c]
           x == r.undone \cup {r.pc}
           m == [r EXCEPT !.pc = p, !.tested = NotTested, !.undone = x]
<1>1. r \in RunType /\ run' = [run EXCEPT ![c] = m]
  BY DEF NextReset, PInv, TypeOK
<1>2. x \in SUBSET InReset
  BY <1>1 DEF RunType
<1> HIDE DEF r, x
<1>3. m \in RunType /\ m.pc = p /\ m.status = r.status /\ m.undone = x /\ Like(m, r)
  BY <1>1, <1>2, BaseTip DEF RunType, Places, Like
<1> HIDE DEF m
<1> QED BY <1>1, <1>2, <1>3 DEF r, x

\* What is known of the clone of a run in progress.
LEMMA InClone ==
  ASSUME PInv, NEW c \in Clone
  PROVE  /\ clone[c] \in CloneType /\ run[c] \in RunType
         /\ HeadOK(clone[c]) /\ KeepOK(clone[c], run[c]) /\ BumpOK(clone[c], run[c])
         /\ GreenOK(clone[c], run[c]) /\ ResetOK(clone[c], run[c])
         /\ clone = [clone EXCEPT ![c] = clone[c]]
BY DEF PInv, TypeOK, CloneOK

\* The try block is left, with the clone as it is or changed.
LEMMA LeaveStep ==
  ASSUME PInv, NEW c \in Clone, NEW q \in CloneType, NEW s \in {"failed", "interrupted"},
         clone' = [clone EXCEPT ![c] = q], HeadOK(q), Leave(c, s), UNCHANGED <<origin, prs>>
  PROVE  PInv'
<1>1. s \in Statuses /\ s # "updated"
  BY DEF Statuses
<1>2. PICK m \in RunType : run' = [run EXCEPT ![c] = m] /\ m.pc = "reset_index" /\ m.status = s
  BY <1>1, LeftRun
<1>3. CloneOK(q, m)
  BY <1>1, <1>2 DEF CloneOK, KeepOK, BumpOK, GreenOK, ResetOK, InTry, InOpenPR, InReset
<1> QED BY <1>1, <1>2, <1>3, LocalStep

LEMMA LeaveUnchanged ==
  ASSUME PInv, NEW c \in Clone, NEW s \in {"failed", "interrupted"},
         Leave(c, s), UNCHANGED clone, UNCHANGED <<origin, prs>>
  PROVE  PInv'
<1> DEFINE k == clone[c]
<1>1. k \in CloneType /\ HeadOK(k) /\ clone' = [clone EXCEPT ![c] = k]
  BY InClone
<1> HIDE DEF k
<1> QED BY <1>1, LeaveStep

-----------------------------------------------------------------------------
(* main and propose *)

LEMMA PStart ==
  ASSUME PInv, NEW c \in Clone, NEW l \in Lang, NEW a \in Args, Start(c, l, a)
  PROVE  PInv'
<1> DEFINE k == clone'[c]
           r == [Idle EXCEPT !.lang = l, !.args = a, !.old = k.sub[l]]
<1>1. clone' = [clone EXCEPT ![c] = k] /\ k \in CloneType /\ HeadOK(k)
  <2>1. CASE Fresh
    BY <2>1, NewCloneOK DEF Start, PInv, TypeOK
  <2>2. CASE ~Fresh
    BY <2>2 DEF Start, PInv, TypeOK, CloneOK
  <2> QED BY <2>1, <2>2
<1>2. \/ run' = [run EXCEPT ![c] = [r EXCEPT !.status = "no_tags"]]
      \/ /\ r.old = "old"
         /\ run' = [run EXCEPT ![c] = [r EXCEPT !.pc = IF Keep(a) THEN "look_up" ELSE "bump"]]
  BY DEF Start
<1>3. UNCHANGED <<origin, prs>>
  BY DEF Start
<1> HIDE DEF k
<1>4. r \in RunType /\ r.pc = "idle" /\ r.status = "none" /\ r.args = a /\ r.lang = l /\ r.undone = {}
  <2>1. k.sub[l] \in Links /\ a \in SUBSET {"open_pr", "dry_run"}
    BY <1>1, ProposeAssumption DEF CloneType
  <2>2. NotTested \in [items : SUBSET Item, links : [Lang -> Links], dirt : Dirts]
    BY BaseTip
  <2> QED BY <2>1, <2>2 DEF Idle, RunType, Places, Statuses
<1> HIDE DEF r
<1>5. CASE run' = [run EXCEPT ![c] = [r EXCEPT !.status = "no_tags"]]
  <2> DEFINE m == [r EXCEPT !.status = "no_tags"]
  <2>1. m \in RunType /\ m.pc = "idle" /\ m.status = "no_tags"
    BY <1>4 DEF RunType, Statuses
  <2>2. run' = [run EXCEPT ![c] = m]
    BY <1>5
  <2> HIDE DEF m
  <2>3. CloneOK(k, m)
    BY <1>1, <2>1 DEF CloneOK, KeepOK, BumpOK, GreenOK, ResetOK, InTry, InOpenPR, InReset
  <2> QED BY <1>1, <1>3, <2>1, <2>2, <2>3, LocalStep
<1>6. CASE run' = [run EXCEPT ![c] = [r EXCEPT !.pc = IF Keep(a) THEN "look_up" ELSE "bump"]]
  <2> DEFINE m == [r EXCEPT !.pc = IF Keep(a) THEN "look_up" ELSE "bump"]
  <2>1. m \in RunType /\ m.pc = (IF Keep(a) THEN "look_up" ELSE "bump") /\ m.args = a
    BY <1>4 DEF RunType, Places, InTry
  <2>2. run' = [run EXCEPT ![c] = m]
    BY <1>6
  <2> HIDE DEF m
  <2>3. CloneOK(k, m)
    BY <1>1, <2>1 DEF CloneOK, KeepOK, BumpOK, GreenOK, ResetOK, InTry, InOpenPR, InReset
  <2> QED BY <1>1, <1>3, <2>1, <2>2, <2>3, LocalStep
<1> QED BY <1>2, <1>5, <1>6

LEMMA PLookUp == ASSUME PInv, NEW c \in Clone, LookUp(c) PROVE PInv'
<1> DEFINE k == clone[c]
<1>1. k \in CloneType /\ HeadOK(k) /\ KeepOK(k, run[c]) /\ run[c].pc = "look_up"
  BY InClone DEF LookUp, At
<1>2. clone' = [clone EXCEPT ![c] = k] /\ UNCHANGED <<origin, prs>>
  BY InClone DEF LookUp, RunOnly
<1> HIDE DEF k
<1>3. CASE End(c, "exists")
  <2>1. PICK m \in RunType : run' = [run EXCEPT ![c] = m] /\ m.pc = "idle" /\ m.status = "exists"
    BY <1>3, EndedRun DEF Statuses
  <2>2. CloneOK(k, m)
    BY <1>1, <2>1 DEF CloneOK, KeepOK, BumpOK, GreenOK, ResetOK, InTry, InOpenPR, InReset
  <2> QED BY <1>1, <1>2, <2>1, <2>2, LocalStep
<1>4. CASE Goto(c, "checkout_base")
  <2>1. PICK m \in RunType : run' = [run EXCEPT ![c] = m] /\ m.pc = "checkout_base" /\ Like(m, run[c])
    BY <1>4, MovedRun DEF Places, InTry
  <2>2. CloneOK(k, m)
    BY <1>1, <2>1 DEF CloneOK, KeepOK, BumpOK, GreenOK, ResetOK, Like, InTry, InOpenPR, InReset
  <2> QED BY <1>1, <1>2, <2>1, <2>2, LocalStep
<1> QED BY <1>3, <1>4 DEF LookUp

LEMMA PCheckoutBase == ASSUME PInv, NEW c \in Clone, CheckoutBase(c) PROVE PInv'
<1> DEFINE k == clone[c]
           l == run[c].lang
           h == Head(k)
           q == [k EXCEPT !.head = l, !.tips[l] = Base, !.work = @ \ h.items, !.index = @ \ h.items,
                          !.links = [n \in Lang |-> IF @[n] = h.links[n] THEN "old" ELSE @[n]]]
<1>1. k \in CloneType /\ HeadOK(k) /\ KeepOK(k, run[c]) /\ run[c].pc = "checkout_base" /\ l \in Lang
  BY InClone DEF CheckoutBase, At, RunType
<1>2. UNCHANGED <<origin, prs>>
  BY DEF CheckoutBase, Local
<1>3. CASE Leave(c, "failed") /\ UNCHANGED clone
  BY <1>2, <1>3, LeaveUnchanged
<1>4. CASE clone' = [clone EXCEPT ![c] = q] /\ Goto(c, "bump")
  <2>1. h \in Tip /\ Base \in Tip
    BY <1>1, HeadTip, BaseTip
  <2> HIDE DEF h, k, l
  <2>2. q \in CloneType /\ q.head = l /\ q.tips[l] = Base
    BY <1>1, <2>1 DEF CloneType, Tip, Links
  <2>3. clone' = [clone EXCEPT ![c] = q]
    BY <1>4
  <2> HIDE DEF q
  <2>4. PICK m \in RunType : run' = [run EXCEPT ![c] = m] /\ m.pc = "bump" /\ Like(m, run[c])
    BY <1>4, MovedRun DEF Places, InTry
  <2>5. CloneOK(q, m)
    BY <1>1, <2>1, <2>2, <2>4 DEF l, CloneOK, HeadOK, KeepOK, BumpOK, GreenOK, ResetOK, Like, InTry, InOpenPR, InReset
  <2> QED BY <1>2, <2>2, <2>3, <2>4, <2>5, LocalStep
<1> QED BY <1>3, <1>4 DEF CheckoutBase, L

LEMMA PBump == ASSUME PInv, NEW c \in Clone, Bump(c) PROVE PInv'
<1> DEFINE k == clone[c]
           l == run[c].lang
<1>1. /\ k \in CloneType /\ HeadOK(k) /\ KeepOK(k, run[c]) /\ ResetOK(k, run[c])
      /\ run[c].pc = "bump" /\ l \in Lang
  BY InClone DEF Bump, At, RunType
<1>2. UNCHANGED <<origin, prs>>
  BY DEF Bump, Local
<1>3. CASE Leave(c, "failed") /\ UNCHANGED clone
  BY <1>2, <1>3, LeaveUnchanged
<1>4. ASSUME NEW staged \in {"old", "new"}, NEW edits \in SUBSET {<<L(c), "bump">>},
             clone' = [clone EXCEPT ![c].sub[L(c)] = "new",
                                    ![c].links[L(c)] = IF staged = "new" THEN "new" ELSE @,
                                    ![c].work = @ \cup edits],
             Goto(c, "snapshots")
      PROVE  PInv'
  <2> DEFINE q == [k EXCEPT !.sub[l] = "new", !.links[l] = IF staged = "new" THEN "new" ELSE @,
                            !.work = @ \cup edits]
  <2>1. edits \in SUBSET Item
    BY <1>1 DEF Item, L
  <2>2. clone' = [clone EXCEPT ![c] = q]
    BY <1>4 DEF L, PInv, TypeOK, CloneType
  <2> HIDE DEF k, l
  <2>3. q \in CloneType /\ q.head = k.head /\ q.tips = k.tips /\ q.sub[l] = "new"
    BY <1>1, <2>1 DEF CloneType, Links
  <2> HIDE DEF q
  <2>4. PICK m \in RunType : run' = [run EXCEPT ![c] = m] /\ m.pc = "snapshots" /\ Like(m, run[c])
    BY <1>4, MovedRun DEF Places, InTry
  <2>5. CloneOK(q, m)
    BY <1>1, <2>3, <2>4 DEF l, CloneOK, HeadOK, KeepOK, BumpOK, GreenOK, ResetOK, Like, InTry, InOpenPR, InReset
  <2> QED BY <1>2, <2>2, <2>3, <2>4, <2>5, LocalStep
<1> QED BY <1>3, <1>4 DEF Bump

LEMMA PRegenerateSnapshots == ASSUME PInv, NEW c \in Clone, RegenerateSnapshots(c) PROVE PInv'
<1> DEFINE k == clone[c]
           l == run[c].lang
<1>1. /\ k \in CloneType /\ HeadOK(k) /\ KeepOK(k, run[c]) /\ BumpOK(k, run[c])
      /\ run[c].pc = "snapshots" /\ l \in Lang
  BY InClone DEF RegenerateSnapshots, At, RunType
<1>2. UNCHANGED <<origin, prs>>
  BY DEF RegenerateSnapshots, Local
<1>3. CASE Leave(c, "failed") /\ UNCHANGED clone
  BY <1>2, <1>3, LeaveUnchanged
<1>4. ASSUME NEW edits \in SUBSET {<<L(c), "bump">>}, NEW d \in Dirts,
             clone' = [clone EXCEPT ![c].work = @ \cup edits, ![c].dirt[L(c)] = d],
             Goto(c, "test")
      PROVE  PInv'
  <2> DEFINE q == [k EXCEPT !.work = @ \cup edits, !.dirt[l] = d]
  <2>1. edits \in SUBSET Item
    BY <1>1 DEF Item, L
  <2>2. clone' = [clone EXCEPT ![c] = q]
    BY <1>4 DEF L, PInv, TypeOK, CloneType
  <2> HIDE DEF k, l
  <2>3. q \in CloneType /\ q.head = k.head /\ q.tips = k.tips /\ q.sub = k.sub
    BY <1>1, <2>1 DEF CloneType
  <2> HIDE DEF q
  <2>4. PICK m \in RunType : run' = [run EXCEPT ![c] = m] /\ m.pc = "test" /\ Like(m, run[c])
    BY <1>4, MovedRun DEF Places, InTry
  <2>5. CloneOK(q, m)
    BY <1>1, <2>3, <2>4 DEF l, CloneOK, HeadOK, KeepOK, BumpOK, GreenOK, ResetOK, Like, InTry, InOpenPR, InReset
  <2> QED BY <1>2, <2>2, <2>3, <2>4, <2>5, LocalStep
<1>5. {"clean"} \cup Rewritten \subseteq Dirts
  BY DEF Dirts, Rewritten
<1> QED BY <1>3, <1>4, <1>5 DEF RegenerateSnapshots

\* test-lang is green, at first or after the agent.
LEMMA GreenStep ==
  ASSUME PInv, NEW c \in Clone, run[c].pc \in {"test", "retest"}, Green(c), RunOnly
  PROVE  PInv'
<1> DEFINE k == clone[c]
           r == run[c]
           t == [items |-> k.work, links |-> k.sub, dirt |-> k.dirt[r.lang]]
           s == IF "dry_run" \in r.args THEN "dry_run" ELSE "updated"
           p == IF Keep(r.args) THEN "add" ELSE "reset_index"
           m == [r EXCEPT !.tested = t, !.status = s, !.pc = p]
<1>1. /\ k \in CloneType /\ r \in RunType /\ HeadOK(k) /\ KeepOK(k, r) /\ BumpOK(k, r)
      /\ r.pc \in {"test", "retest"}
  BY InClone
<1>2. clone' = [clone EXCEPT ![c] = k] /\ UNCHANGED <<origin, prs>>
  BY InClone DEF RunOnly
<1>3. run' = [run EXCEPT ![c] = m]
  BY DEF Green, L, PInv, TypeOK
<1> HIDE DEF k, r
<1>4. t \in [items : SUBSET Item, links : [Lang -> Links], dirt : Dirts] /\ t.items = k.work /\ t.links = k.sub
  BY <1>1 DEF CloneType, RunType
<1>5. s \in Statuses /\ p \in Places
  BY DEF Statuses, Places, InTry, InReset
<1> HIDE DEF t
<1>6. m \in RunType /\ m.tested = t /\ m.status = s /\ m.pc = p /\ m.lang = r.lang /\ m.args = r.args
  BY <1>1, <1>4, <1>5 DEF RunType
<1> HIDE DEF m
<1>7. CloneOK(k, m)
  BY <1>1, <1>4, <1>6 DEF CloneOK, HeadOK, KeepOK, BumpOK, GreenOK, ResetOK, Keep, InTry, InOpenPR, InReset
<1> QED BY <1>1, <1>2, <1>3, <1>6, <1>7, LocalStep

LEMMA PTestLang == ASSUME PInv, NEW c \in Clone, TestLang(c) PROVE PInv'
<1> DEFINE k == clone[c]
<1>1. k \in CloneType /\ HeadOK(k) /\ KeepOK(k, run[c]) /\ BumpOK(k, run[c]) /\ run[c].pc = "test"
  BY InClone DEF TestLang, At
<1>2. clone' = [clone EXCEPT ![c] = k] /\ UNCHANGED clone /\ UNCHANGED <<origin, prs>>
  BY InClone DEF TestLang, RunOnly
<1> HIDE DEF k
<1>3. CASE Green(c)
  BY <1>1, <1>3, GreenStep DEF TestLang
<1>4. CASE Leave(c, "failed")
  BY <1>2, <1>4, LeaveUnchanged
<1>5. CASE Goto(c, "agent")
  <2>1. PICK m \in RunType : run' = [run EXCEPT ![c] = m] /\ m.pc = "agent" /\ Like(m, run[c])
    BY <1>5, MovedRun DEF Places, InTry
  <2>2. CloneOK(k, m)
    BY <1>1, <2>1 DEF CloneOK, KeepOK, BumpOK, GreenOK, ResetOK, Like, InTry, InOpenPR, InReset
  <2> QED BY <1>1, <1>2, <2>1, <2>2, LocalStep
<1> QED BY <1>3, <1>4, <1>5 DEF TestLang

LEMMA PLanguageAgent == ASSUME PInv, NEW c \in Clone, LanguageAgent(c) PROVE PInv'
<1> DEFINE k == clone[c]
           l == run[c].lang
<1>1. /\ k \in CloneType /\ HeadOK(k) /\ KeepOK(k, run[c]) /\ BumpOK(k, run[c])
      /\ run[c].pc = "agent" /\ l \in Lang
  BY InClone DEF LanguageAgent, At, RunType
<1>2. UNCHANGED <<origin, prs>>
  BY DEF LanguageAgent, Local
<1>3. PICK edits \in Edits, d \in {k.dirt[l]} \cup Rewritten :
             clone' = [clone EXCEPT ![c].work = @ \cup edits, ![c].dirt[l] = d]
  BY DEF LanguageAgent, AgentEdits, L
<1> DEFINE q == [k EXCEPT !.work = @ \cup edits, !.dirt[l] = d]
<1>4. edits \in SUBSET Item /\ d \in Dirts
  BY <1>1, ProposeAssumption DEF CloneType, Rewritten, Dirts
<1>5. clone' = [clone EXCEPT ![c] = q]
  BY <1>3 DEF PInv, TypeOK, CloneType
<1> HIDE DEF k, l
<1>6. q \in CloneType /\ q.head = k.head /\ q.tips = k.tips /\ q.sub = k.sub
  BY <1>1, <1>4 DEF CloneType
<1> HIDE DEF q
<1>7. HeadOK(q)
  BY <1>1, <1>6 DEF HeadOK
<1>8. CASE Leave(c, "failed")
  BY <1>2, <1>5, <1>6, <1>7, <1>8, LeaveStep
<1>9. CASE Goto(c, "retest")
  <2>1. PICK m \in RunType : run' = [run EXCEPT ![c] = m] /\ m.pc = "retest" /\ Like(m, run[c])
    BY <1>9, MovedRun DEF Places, InTry
  <2>2. CloneOK(q, m)
    BY <1>1, <1>6, <1>7, <2>1 DEF l, CloneOK, KeepOK, BumpOK, GreenOK, ResetOK, Like, InTry, InOpenPR, InReset
  <2> QED BY <1>2, <1>5, <1>6, <2>1, <2>2, LocalStep
<1> QED BY <1>8, <1>9 DEF LanguageAgent

LEMMA PRetest == ASSUME PInv, NEW c \in Clone, Retest(c) PROVE PInv'
<1>1. CASE Green(c)
  BY <1>1, GreenStep DEF Retest, At
<1>2. CASE Leave(c, "failed")
  <2>1. UNCHANGED clone /\ UNCHANGED <<origin, prs>>
    BY DEF Retest, RunOnly
  <2> QED BY <1>2, <2>1, LeaveUnchanged
<1> QED BY <1>1, <1>2 DEF Retest

LEMMA PAdd == ASSUME PInv, NEW c \in Clone, Add(c) PROVE PInv'
<1> DEFINE k == clone[c]
           q == [k EXCEPT !.index = k.work \ {Core}, !.links = k.sub]
<1>1. /\ k \in CloneType /\ run[c] \in RunType /\ HeadOK(k) /\ KeepOK(k, run[c]) /\ BumpOK(k, run[c])
      /\ GreenOK(k, run[c]) /\ run[c].pc = "add"
  BY InClone DEF Add, At
<1>2. UNCHANGED <<origin, prs>>
  BY DEF Add, Local
<1>3. CASE Leave(c, "failed") /\ UNCHANGED clone
  BY <1>2, <1>3, LeaveUnchanged
<1>4. CASE clone' = [clone EXCEPT ![c].index = clone[c].work \ {Core}, ![c].links = clone[c].sub]
           /\ Goto(c, "commit")
  <2>1. clone' = [clone EXCEPT ![c] = q]
    BY <1>4 DEF PInv, TypeOK, CloneType
  <2> HIDE DEF k
  <2>2. q \in CloneType /\ q.head = k.head /\ q.tips = k.tips /\ q.index = k.work \ {Core} /\ q.links = k.sub
    BY <1>1 DEF CloneType
  <2> HIDE DEF q
  <2>3. PICK m \in RunType : /\ run' = [run EXCEPT ![c] = m]
                             /\ m.pc = "commit" /\ Like(m, run[c]) /\ m.tested = run[c].tested
    BY <1>4, MovedRun DEF Places, InTry
  <2>4. CloneOK(q, m)
    BY <1>1, <2>2, <2>3 DEF CloneOK, HeadOK, KeepOK, BumpOK, GreenOK, ResetOK, Like, InTry, InOpenPR, InReset
  <2> QED BY <1>2, <2>1, <2>2, <2>3, <2>4, LocalStep
<1> QED BY <1>3, <1>4 DEF Add

LEMMA PCommit == ASSUME PInv, NEW c \in Clone, Commit(c) PROVE PInv'
<1> DEFINE k == clone[c]
           l == run[c].lang
           t == [items |-> k.index, links |-> k.links]
           q == [k EXCEPT !.tips[l] = t]
<1>1. /\ k \in CloneType /\ run[c] \in RunType /\ l \in Lang /\ HeadOK(k) /\ KeepOK(k, run[c])
      /\ BumpOK(k, run[c]) /\ GreenOK(k, run[c]) /\ run[c].pc = "commit"
  BY InClone DEF Commit, At, RunType
<1>2. UNCHANGED <<origin, prs>>
  BY DEF Commit, Local
<1>3. CASE Leave(c, "failed") /\ UNCHANGED clone
  BY <1>2, <1>3, LeaveUnchanged
<1>4. CASE clone' = [clone EXCEPT ![c].tips[L(c)] = [items |-> clone[c].index, links |-> clone[c].links]]
           /\ (Goto(c, "push") \/ Leave(c, "interrupted"))
  <2>1. clone' = [clone EXCEPT ![c] = q]
    BY <1>4 DEF PInv, TypeOK, CloneType, L
  <2> HIDE DEF k, l
  <2>2. t \in Tip /\ t.items = k.index /\ t.links = k.links
    BY <1>1 DEF CloneType, Tip
  <2> HIDE DEF t
  <2>3. q \in CloneType /\ q.head = k.head /\ q.tips[l] = t
    BY <1>1, <2>2 DEF CloneType
  <2> HIDE DEF q
  <2>4. CASE Goto(c, "push")
    <3>1. PICK m \in RunType : /\ run' = [run EXCEPT ![c] = m]
                               /\ m.pc = "push" /\ Like(m, run[c]) /\ m.tested = run[c].tested
      BY <2>4, MovedRun DEF Places, InOpenPR
    <3>2. CloneOK(q, m)
      BY <1>1, <2>2, <2>3, <3>1
         DEF l, CloneOK, HeadOK, KeepOK, BumpOK, GreenOK, ResetOK, Like, InTry, InOpenPR, InReset
    <3> QED BY <1>2, <2>1, <2>3, <3>1, <3>2, LocalStep
  <2>5. CASE Leave(c, "interrupted")
    <3>1. HeadOK(q)
      BY <1>1, <2>2, <2>3 DEF l, HeadOK, KeepOK, InTry
    <3> QED BY <1>2, <2>1, <2>3, <2>5, <3>1, LeaveStep
  <2> QED BY <1>4, <2>4, <2>5
<1> QED BY <1>3, <1>4 DEF Commit

-----------------------------------------------------------------------------
(* open_pr *)

\* The branch of a run in open_pr is a commit, and not Base.
LEMMA Committed ==
  ASSUME PInv, NEW c \in Clone, run[c].pc \in InOpenPR
  PROVE  LET t == clone[c].tips[run[c].lang]
         IN  t \in Tip /\ t \notin {NoBranch, Base} /\ Keep(run[c].args) /\ clone[c].head = run[c].lang
<1>1. /\ run[c].lang \in Lang /\ KeepOK(clone[c], run[c]) /\ BumpOK(clone[c], run[c])
  BY InClone DEF RunType
<1>2. /\ Keep(run[c].args) /\ clone[c].head = run[c].lang
      /\ clone[c].tips[run[c].lang] \in Tip /\ clone[c].tips[run[c].lang].links[run[c].lang] = "new"
  BY <1>1 DEF KeepOK, BumpOK, InOpenPR
<1>3. clone[c].tips[run[c].lang] # Base
  BY <1>1, <1>2 DEF Base
<1>4. clone[c].tips[run[c].lang] # NoBranch
  BY <1>2, BaseTip
<1> QED BY <1>2, <1>3, <1>4

\* A run in open_pr ends without a PR.
LEMMA EndOpenPR ==
  ASSUME PInv, NEW c \in Clone, run[c].pc \in InOpenPR, NEW s \in {"failed", "interrupted"},
         End(c, s), UNCHANGED clone, UNCHANGED <<origin, prs>>
  PROVE  PInv'
<1> DEFINE k == clone[c]
<1>1. k \in CloneType /\ HeadOK(k) /\ clone' = [clone EXCEPT ![c] = k]
  BY InClone
<1>2. k.tips[run[c].lang] \notin {NoBranch, Base} /\ Keep(run[c].args)
  BY Committed
<1>3. PICK m \in RunType : run' = [run EXCEPT ![c] = m] /\ m.pc = "idle" /\ m.status = s /\ Like(m, run[c])
  BY EndedRun DEF Statuses
<1>4. m.status # "updated"
  BY <1>3
<1> HIDE DEF k
<1>5. CloneOK(k, m)
  BY <1>1, <1>2, <1>3 DEF CloneOK, KeepOK, BumpOK, GreenOK, ResetOK, Like, InTry, InOpenPR, InReset
<1> QED BY <1>1, <1>3, <1>4, <1>5, LocalStep

\* What a step changes in one run and no clone.
LEMMA OneRun ==
  ASSUME PInv, NEW c \in Clone, NEW m \in RunType, run' = [run EXCEPT ![c] = m], UNCHANGED clone,
         CloneOK(clone[c], m)
  PROVE  /\ \A d \in Clone : CloneOK(clone[d], run[d])'
         /\ run'[c] = m /\ \A d \in Clone \ {c} : run'[d] = run[d]
         /\ clone' \in [Clone -> CloneType] /\ run' \in [Clone -> RunType]
<1>1. run'[c] = m /\ \A d \in Clone \ {c} : run'[d] = run[d]
  BY DEF PInv, TypeOK
<1>2. \A d \in Clone : CloneOK(clone[d], run[d])'
  BY <1>1 DEF PInv
<1>3. clone' \in [Clone -> CloneType] /\ run' \in [Clone -> RunType]
  BY DEF PInv, TypeOK
<1> QED BY <1>1, <1>2, <1>3

LEMMA PPush == ASSUME PInv, NEW c \in Clone, Push(c) PROVE PInv'
<1> DEFINE k == clone[c]
           l == run[c].lang
           t == k.tips[l]
<1>1. /\ run[c] \in RunType /\ l \in Lang /\ HeadOK(k) /\ KeepOK(k, run[c])
      /\ BumpOK(k, run[c]) /\ GreenOK(k, run[c]) /\ run[c].pc = "push"
  BY InClone DEF Push, At, RunType
<1>2. UNCHANGED clone /\ UNCHANGED prs
  BY DEF Push
<1>3. CASE End(c, "failed") /\ UNCHANGED origin
  <2>1. run[c].pc \in InOpenPR /\ UNCHANGED <<origin, prs>>
    BY <1>1, <1>2, <1>3 DEF InOpenPR
  <2> QED BY <1>2, <1>3, <2>1, EndOpenPR
<1>4. CASE origin[l] = NoBranch /\ origin' = [origin EXCEPT ![l] = t] /\ Goto(c, "create_pr")
  <2>1. t \in Tip /\ t # NoBranch
    BY <1>1, Committed DEF InOpenPR
  <2>2. PICK m \in RunType : /\ run' = [run EXCEPT ![c] = m]
                             /\ m.pc = "create_pr" /\ Like(m, run[c]) /\ m.tested = run[c].tested
    BY <1>4, MovedRun DEF Places, InOpenPR
  <2>3. CloneOK(k, m)
    <3> HIDE DEF k
    <3> QED BY <1>1, <2>2 DEF CloneOK, KeepOK, BumpOK, GreenOK, ResetOK, Like, InTry, InOpenPR, InReset
  <2>4. /\ \A d \in Clone : CloneOK(clone[d], run[d])'
        /\ run'[c] = m /\ \A d \in Clone \ {c} : run'[d] = run[d]
        /\ clone' \in [Clone -> CloneType] /\ run' \in [Clone -> RunType]
    BY <1>2, <2>2, <2>3, OneRun
  <2>5. origin \in [Lang -> Tip \cup {NoBranch}] /\ prs \in [Lang -> Nat] /\ run \in [Clone -> RunType]
    BY DEF PInv, TypeOK
  <2>6. TypeOK'
    BY <1>1, <1>2, <1>4, <2>1, <2>4, <2>5 DEF TypeOK
  <2>7. origin'[l] = t /\ \A n \in Lang \ {l} : origin'[n] = origin[n]
    BY <1>1, <1>4, <2>5
  <2>8. prs[l] = 0
    BY <1>1, <1>4 DEF PInv, Proposing
  <2>9. \A d \in Clone \ {c} : At(d, "create_pr") => L(d) # l
    <3> SUFFICES ASSUME NEW d \in Clone \ {c}, At(d, "create_pr"), L(d) = l PROVE FALSE
      OBVIOUS
    <3>1. clone[d].tips[l] # NoBranch
      BY Committed DEF InOpenPR, At, L
    <3>2. origin[l] = clone[d].tips[l]
      BY DEF PInv, Proposing
    <3> QED BY <1>4, <3>1, <3>2
  <2>10. Proposing'
    <3>1. \A n \in Lang : prs'[n] # 0 => origin'[n] # NoBranch
      BY <1>2, <2>1, <2>7 DEF PInv, Proposing
    <3>2. \A d \in Clone : At(d, "create_pr")' => origin'[L(d)'] = clone'[d].tips[L(d)'] /\ prs'[L(d)'] = 0
      <4>1. ASSUME NEW d \in Clone, d # c, At(d, "create_pr")'
            PROVE  origin'[L(d)'] = clone'[d].tips[L(d)'] /\ prs'[L(d)'] = 0
        <5>1. At(d, "create_pr") /\ L(d)' = L(d) /\ L(d) \in Lang
          BY <2>4, <2>5, <4>1 DEF At, L, RunType
        <5>2. L(d) # l
          BY <2>9, <4>1, <5>1
        <5>3. origin[L(d)] = clone[d].tips[L(d)] /\ prs[L(d)] = 0
          BY <5>1 DEF PInv, Proposing
        <5> QED BY <1>2, <2>7, <5>1, <5>2, <5>3
      <4>2. L(c)' = l
        BY <2>2, <2>4 DEF L, Like
      <4> QED BY <1>2, <2>7, <2>8, <4>1, <4>2
    <3>3. \A d, e \in Clone : At(d, "create_pr")' /\ At(e, "create_pr")' /\ d # e => L(d)' # L(e)'
      <4>1. L(c)' = l
        BY <2>2, <2>4 DEF L, Like
      <4>2. \A d \in Clone \ {c} : L(d)' = L(d) /\ (At(d, "create_pr")' <=> At(d, "create_pr"))
        BY <2>4 DEF L, At
      <4> QED BY <2>9, <4>1, <4>2 DEF PInv, Proposing
    <3> QED BY <3>1, <3>2, <3>3 DEF Proposing
  <2>11. UpdatedMeansPR'
    <3> SUFFICES ASSUME NEW d \in Clone, At(d, "idle")', run'[d].status = "updated", Keep(run'[d].args)
                 PROVE  /\ prs'[run'[d].lang] = 1
                        /\ clone'[d].head = run'[d].lang
                        /\ origin'[run'[d].lang] = clone'[d].tips[run'[d].lang]
      BY DEF UpdatedMeansPR
    <3>1. d # c
      BY <2>2, <2>4 DEF At
    <3>2. run'[d] = run[d] /\ run[d].lang \in Lang /\ At(d, "idle")
      BY <2>4, <2>5, <3>1 DEF RunType, At
    <3>3. /\ prs[run[d].lang] = 1 /\ clone[d].head = run[d].lang
          /\ origin[run[d].lang] = clone[d].tips[run[d].lang]
      BY <3>2 DEF PInv, UpdatedMeansPR
    <3>4. run[d].lang # l
      BY <2>8, <3>3
    <3> QED BY <1>2, <2>7, <3>2, <3>3, <3>4
  <2> QED BY <2>4, <2>6, <2>10, <2>11 DEF PInv
<1> QED BY <1>3, <1>4 DEF Push, L

LEMMA PCreatePR == ASSUME PInv, NEW c \in Clone, CreatePR(c) PROVE PInv'
<1> DEFINE k == clone[c]
           l == run[c].lang
<1>1. /\ k \in CloneType /\ run[c] \in RunType /\ l \in Lang /\ HeadOK(k) /\ run[c].pc = "create_pr"
  BY InClone DEF CreatePR, At, RunType
<1>2. UNCHANGED clone /\ UNCHANGED origin
  BY DEF CreatePR
<1>3. CASE End(c, "failed") /\ UNCHANGED prs
  <2>1. run[c].pc \in InOpenPR /\ UNCHANGED <<origin, prs>>
    BY <1>1, <1>2, <1>3 DEF InOpenPR
  <2> QED BY <1>2, <1>3, <2>1, EndOpenPR
<1>4. CASE End(c, "updated") /\ prs' = [prs EXCEPT ![l] = @ + 1]
  <2>1. k.tips[l] \notin {NoBranch, Base} /\ Keep(run[c].args) /\ k.head = l
    BY <1>1, Committed DEF InOpenPR
  <2>2. PICK m \in RunType : /\ run' = [run EXCEPT ![c] = m]
                             /\ m.pc = "idle" /\ m.status = "updated" /\ Like(m, run[c])
    BY <1>4, EndedRun DEF Statuses
  <2>3. CloneOK(k, m)
    <3> HIDE DEF k
    <3> QED BY <1>1, <2>1, <2>2 DEF CloneOK, KeepOK, BumpOK, GreenOK, ResetOK, Like, InTry, InOpenPR, InReset
  <2>4. /\ \A d \in Clone : CloneOK(clone[d], run[d])'
        /\ run'[c] = m /\ \A d \in Clone \ {c} : run'[d] = run[d]
        /\ clone' \in [Clone -> CloneType] /\ run' \in [Clone -> RunType]
    BY <1>2, <2>2, <2>3, OneRun
  <2>5. origin \in [Lang -> Tip \cup {NoBranch}] /\ prs \in [Lang -> Nat] /\ run \in [Clone -> RunType]
    BY DEF PInv, TypeOK
  <2>6. TypeOK'
    BY <1>1, <1>2, <1>4, <2>4, <2>5 DEF TypeOK
  <2>7. origin[l] = k.tips[l] /\ prs[l] = 0
    BY <1>1 DEF PInv, Proposing, At, L
  <2>8. prs'[l] = 1 /\ \A n \in Lang \ {l} : prs'[n] = prs[n]
    BY <1>1, <1>4, <2>5, <2>7
  <2>9. \A d \in Clone \ {c} : At(d, "create_pr") => L(d) # l
    BY <1>1 DEF PInv, Proposing, At, L
  <2>10. Proposing'
    <3>1. \A n \in Lang : prs'[n] # 0 => origin'[n] # NoBranch
      BY <1>2, <2>1, <2>7, <2>8 DEF PInv, Proposing
    <3>2. \A d \in Clone : At(d, "create_pr")' => d # c /\ At(d, "create_pr") /\ L(d)' = L(d) /\ L(d) \in Lang
      BY <2>2, <2>4, <2>5 DEF At, L, RunType
    <3>3. \A d \in Clone : At(d, "create_pr")' => origin'[L(d)'] = clone'[d].tips[L(d)'] /\ prs'[L(d)'] = 0
      <4> SUFFICES ASSUME NEW d \in Clone, At(d, "create_pr")'
                   PROVE  origin'[L(d)'] = clone'[d].tips[L(d)'] /\ prs'[L(d)'] = 0
        OBVIOUS
      <4>1. L(d)' = L(d) /\ L(d) # l /\ L(d) \in Lang
        BY <2>9, <3>2
      <4>2. origin[L(d)] = clone[d].tips[L(d)] /\ prs[L(d)] = 0
        BY <3>2 DEF PInv, Proposing
      <4> QED BY <1>2, <2>8, <4>1, <4>2
    <3>4. \A d, e \in Clone : At(d, "create_pr")' /\ At(e, "create_pr")' /\ d # e => L(d)' # L(e)'
      BY <3>2 DEF PInv, Proposing
    <3> QED BY <3>1, <3>3, <3>4 DEF Proposing
  <2>11. UpdatedMeansPR'
    <3> SUFFICES ASSUME NEW d \in Clone, At(d, "idle")', run'[d].status = "updated", Keep(run'[d].args)
                 PROVE  /\ prs'[run'[d].lang] = 1
                        /\ clone'[d].head = run'[d].lang
                        /\ origin'[run'[d].lang] = clone'[d].tips[run'[d].lang]
      BY DEF UpdatedMeansPR
    <3>1. CASE d = c
      <4>1. run'[d].lang = l
        BY <2>2, <2>4, <3>1 DEF Like
      <4> QED BY <1>2, <2>1, <2>7, <2>8, <3>1, <4>1
    <3>2. CASE d # c
      <4>1. run'[d] = run[d] /\ run[d].lang \in Lang /\ At(d, "idle")
        BY <2>4, <2>5, <3>2 DEF RunType, At
      <4>2. /\ prs[run[d].lang] = 1 /\ clone[d].head = run[d].lang
            /\ origin[run[d].lang] = clone[d].tips[run[d].lang]
        BY <4>1 DEF PInv, UpdatedMeansPR
      <4>3. run[d].lang # l
        BY <2>7, <4>2
      <4> QED BY <1>2, <2>8, <4>1, <4>2, <4>3
    <3> QED BY <3>1, <3>2
  <2> QED BY <2>4, <2>6, <2>10, <2>11 DEF PInv
<1> QED BY <1>3, <1>4 DEF CreatePR, L

-----------------------------------------------------------------------------
(* reset_language_state *)

LEMMA ResetStep ==
  ASSUME PInv, NEW c \in Clone, NEW q \in CloneType, NEW m \in RunType, m.pc \in InReset \cup {"idle"},
         run[c].pc \in InReset, clone' = [clone EXCEPT ![c] = q], run' = [run EXCEPT ![c] = m],
         HeadOK(q), ResetOK(q, m), m.status \in {run[c].status, "interrupted"}, Like(m, run[c]), UNCHANGED <<origin, prs>>
  PROVE  PInv'
<1>1. KeepOK(clone[c], run[c])
  BY InClone
<1>2. ~(m.status = "updated" /\ Keep(m.args))
  BY <1>1 DEF KeepOK, Like
<1>3. CloneOK(q, m)
  BY <1>2 DEF CloneOK, KeepOK, BumpOK, GreenOK, InTry, InOpenPR, InReset
<1>4. m.pc # "create_pr"
  BY DEF InReset
<1> QED BY <1>2, <1>3, <1>4, LocalStep

\* git is given up on: the run remembers that.
Following == {<<"reset_index", "reset_files">>, <<"reset_files", "reset_submodule">>,
              <<"reset_submodule", "clean_submodule">>, <<"clean_submodule", "idle">>}

LEMMA GaveUp ==
  ASSUME PInv, NEW c \in Clone, NEW p, run[c].pc \in InReset, <<run[c].pc, p>> \in Following,
         GiveUp(c, p), UNCHANGED <<origin, prs>>
  PROVE  PInv'
<1> DEFINE k == clone[c]
<1>1. k \in CloneType /\ HeadOK(k) /\ ResetOK(k, run[c]) /\ clone' = [clone EXCEPT ![c] = k]
  BY InClone DEF GiveUp
<1>2. NextReset(c, p, FALSE) /\ p \in InReset \cup {"idle"}
  <2>1. p \in InReset \cup {"idle"}
    BY DEF Following, InReset
  <2> QED BY <2>1 DEF GiveUp
<1>3. PICK m \in RunType : /\ run' = [run EXCEPT ![c] = m]
                           /\ m.pc = p /\ m.status = run[c].status /\ Like(m, run[c])
                           /\ m.undone = run[c].undone \cup {run[c].pc}
  BY <1>2, GaveUpRun
<1> HIDE DEF k
<1>4. ResetOK(k, m)
  BY <1>1, <1>3 DEF ResetOK, Following, Like, InReset
<1> QED BY <1>1, <1>2, <1>3, <1>4, ResetStep

LEMMA PResetIndex == ASSUME PInv, NEW c \in Clone, ResetIndex(c) PROVE PInv'
<1> DEFINE k == clone[c]
           h == Head(k)
           q == [k EXCEPT !.index = h.items, !.links = h.links]
<1>1. k \in CloneType /\ HeadOK(k) /\ ResetOK(k, run[c]) /\ run[c].pc = "reset_index" /\ run[c].pc \in InReset
  BY InClone DEF ResetIndex, At, InReset
<1>2. UNCHANGED <<origin, prs>> /\ "reset_files" \in InReset
  BY DEF ResetIndex, Local, InReset
<1>3. CASE Locked(c, "reset_files")
  BY <1>1, <1>2, <1>3, GaveUp DEF Locked, Following
<1>4. CASE /\ clone' = [clone EXCEPT ![c].index = h.items, ![c].links = h.links]
           /\ NextReset(c, "reset_files", TRUE)
  <2>1. clone' = [clone EXCEPT ![c] = q]
    BY <1>4 DEF PInv, TypeOK, CloneType
  <2> HIDE DEF k
  <2>0. Done(c, "reset_files") /\ "reset_files" \in InReset \cup {"idle"} /\ run[c].pc \in InReset
    BY <1>1, <1>4 DEF Done, InReset
  <2>2. PICK m \in RunType : /\ run' = [run EXCEPT ![c] = m] /\ m.pc = "reset_files"
                             /\ m.status = run[c].status /\ Like(m, run[c]) /\ m.undone = run[c].undone
    BY <2>0, ResetRun
  <2>3. h \in Tip
    BY <1>1, HeadTip
  <2> HIDE DEF k, h
  <2>4. q \in CloneType /\ q.head = k.head /\ q.tips = k.tips /\ q.index = h.items /\ q.links = h.links
    BY <1>1, <2>3 DEF CloneType, Tip
  <2> HIDE DEF q
  <2>5. HeadOK(q) /\ Head(q) = h
    BY <1>1, <2>4 DEF HeadOK, h, Head
  <2>6. ResetOK(q, m)
    BY <2>2, <2>4, <2>5 DEF ResetOK, IndexReset, InReset
  <2> QED BY <1>1, <1>2, <2>1, <2>2, <2>4, <2>5, <2>6, ResetStep
<1> QED BY <1>3, <1>4 DEF ResetIndex

LEMMA PResetFiles == ASSUME PInv, NEW c \in Clone, ResetFiles(c) PROVE PInv'
<1> DEFINE k == clone[c]
           q == [k EXCEPT !.work = (k.index \ {Core, Elsewhere}) \cup (@ \cap Untouched)]
<1>1. k \in CloneType /\ HeadOK(k) /\ ResetOK(k, run[c]) /\ run[c].pc = "reset_files" /\ run[c].pc \in InReset
  BY InClone DEF ResetFiles, At, InReset
<1>2. UNCHANGED <<origin, prs>> /\ "reset_submodule" \in InReset
  BY DEF ResetFiles, Local, InReset
<1>3. CASE Locked(c, "reset_submodule")
  BY <1>1, <1>2, <1>3, GaveUp DEF Locked, Following
<1>4. CASE /\ clone' = [clone EXCEPT ![c].work = (clone[c].index \ {Core, Elsewhere}) \cup (@ \cap Untouched)]
           /\ NextReset(c, "reset_submodule", TRUE)
  <2>1. clone' = [clone EXCEPT ![c] = q]
    BY <1>4 DEF PInv, TypeOK
  <2> HIDE DEF k
  <2>0. Done(c, "reset_submodule") /\ "reset_submodule" \in InReset \cup {"idle"} /\ run[c].pc \in InReset
    BY <1>1, <1>4 DEF Done, InReset
  <2>2. PICK m \in RunType : /\ run' = [run EXCEPT ![c] = m] /\ m.pc = "reset_submodule"
                             /\ m.status = run[c].status /\ Like(m, run[c]) /\ m.undone = run[c].undone
    BY <2>0, ResetRun
  <2> HIDE DEF k
  <2>3. /\ q \in CloneType /\ q.head = k.head /\ q.tips = k.tips /\ q.index = k.index /\ q.links = k.links
        /\ q.work \ Untouched = k.index \ Untouched
    BY <1>1 DEF CloneType, Untouched
  <2> HIDE DEF q
  <2>4. HeadOK(q) /\ Head(q) = Head(k)
    BY <1>1, <2>3 DEF HeadOK, Head
  <2>5. ResetOK(q, m)
    BY <1>1, <2>2, <2>3, <2>4 DEF ResetOK, IndexReset, FilesReset, InReset
  <2> QED BY <1>1, <1>2, <2>1, <2>2, <2>3, <2>4, <2>5, ResetStep
<1> QED BY <1>3, <1>4 DEF ResetFiles

LEMMA PResetSubmodule == ASSUME PInv, NEW c \in Clone, ResetSubmodule(c) PROVE PInv'
<1> DEFINE k == clone[c]
           l == run[c].lang
           q == [k EXCEPT !.sub[l] = run[c].old]
<1>1. /\ k \in CloneType /\ l \in Lang /\ run[c].old \in Links /\ HeadOK(k) /\ ResetOK(k, run[c])
      /\ run[c].pc = "reset_submodule" /\ run[c].pc \in InReset
  BY InClone DEF ResetSubmodule, At, InReset, RunType
<1>2. UNCHANGED <<origin, prs>> /\ "clean_submodule" \in InReset
  BY DEF ResetSubmodule, Local, InReset
<1>3. CASE GiveUp(c, "clean_submodule")
  BY <1>1, <1>2, <1>3, GaveUp DEF Following
<1>4. CASE clone' = [clone EXCEPT ![c].sub[l] = run[c].old] /\ NextReset(c, "clean_submodule", TRUE)
  <2>1. clone' = [clone EXCEPT ![c] = q]
    BY <1>4 DEF PInv, TypeOK, CloneType
  <2> HIDE DEF k
  <2>0. Done(c, "clean_submodule") /\ "clean_submodule" \in InReset \cup {"idle"} /\ run[c].pc \in InReset
    BY <1>1, <1>4 DEF Done, InReset
  <2>2. PICK m \in RunType : /\ run' = [run EXCEPT ![c] = m] /\ m.pc = "clean_submodule"
                             /\ m.status = run[c].status /\ Like(m, run[c]) /\ m.undone = run[c].undone
    BY <2>0, ResetRun
  <2> HIDE DEF k, l
  <2>3. /\ q \in CloneType /\ q.head = k.head /\ q.tips = k.tips /\ q.index = k.index /\ q.links = k.links
        /\ q.work = k.work /\ q.sub[l] = run[c].old
    BY <1>1 DEF CloneType
  <2> HIDE DEF q
  <2>4. HeadOK(q) /\ Head(q) = Head(k)
    BY <1>1, <2>3 DEF HeadOK, Head
  <2>5. ResetOK(q, m)
    BY <1>1, <2>2, <2>3, <2>4 DEF l, ResetOK, IndexReset, FilesReset, InReset, Like
  <2> QED BY <1>1, <1>2, <2>1, <2>2, <2>3, <2>4, <2>5, ResetStep
<1> QED BY <1>3, <1>4 DEF ResetSubmodule, Locked, L

LEMMA PCleanSubmodule == ASSUME PInv, NEW c \in Clone, CleanSubmodule(c) PROVE PInv'
<1> DEFINE k == clone[c]
           l == run[c].lang
           q == [k EXCEPT !.dirt[l] = "clean"]
<1>1. /\ k \in CloneType /\ l \in Lang /\ HeadOK(k) /\ ResetOK(k, run[c])
      /\ run[c].pc = "clean_submodule" /\ run[c].pc \in InReset
  BY InClone DEF CleanSubmodule, At, InReset, RunType
<1>2. UNCHANGED <<origin, prs>>
  BY DEF CleanSubmodule, Local
<1>3. CASE GiveUp(c, "idle")
  BY <1>1, <1>2, <1>3, GaveUp DEF Following
<1>4. CASE clone' = [clone EXCEPT ![c].dirt[l] = "clean"] /\ NextReset(c, "idle", TRUE)
  <2>1. clone' = [clone EXCEPT ![c] = q]
    BY <1>4 DEF PInv, TypeOK, CloneType
  <2> HIDE DEF k
  <2>0. Done(c, "idle") /\ "idle" \in InReset \cup {"idle"} /\ run[c].pc \in InReset
    BY <1>1, <1>4 DEF Done, InReset
  <2>2. PICK m \in RunType : /\ run' = [run EXCEPT ![c] = m] /\ m.pc = "idle"
                             /\ m.status = run[c].status /\ Like(m, run[c]) /\ m.undone = run[c].undone
    BY <2>0, ResetRun
  <2> HIDE DEF k, l
  <2>3. /\ q \in CloneType /\ q.head = k.head /\ q.tips = k.tips /\ q.index = k.index /\ q.links = k.links
        /\ q.work = k.work /\ q.sub = k.sub /\ q.dirt[l] = "clean"
    BY <1>1 DEF CloneType, Dirts
  <2> HIDE DEF q
  <2>4. HeadOK(q) /\ Head(q) = Head(k)
    BY <1>1, <2>3 DEF HeadOK, Head
  <2>5. ResetOK(q, m)
    BY <1>1, <2>2, <2>3, <2>4 DEF l, ResetOK, IndexReset, FilesReset, InReset, Like
  <2> QED BY <1>1, <1>2, <2>1, <2>2, <2>3, <2>4, <2>5, ResetStep
<1> QED BY <1>3, <1>4 DEF CleanSubmodule, Locked, L

-----------------------------------------------------------------------------
(* Interrupts, kills, and every step *)

\* An interrupt of the reset: what was not done yet stays so.
LEMMA PCutShort ==
  ASSUME PInv, NEW c \in Clone, CutShort(c), UNCHANGED clone, UNCHANGED <<origin, prs>>
  PROVE  PInv'
<1> DEFINE k == clone[c]
           r == run[c]
           x == r.undone \cup From[r.pc]
           m == [r EXCEPT !.pc = "idle", !.status = "interrupted", !.tested = NotTested, !.undone = x]
<1>1. /\ k \in CloneType /\ r \in RunType /\ HeadOK(k) /\ ResetOK(k, r)
      /\ r.pc \in InReset /\ clone' = [clone EXCEPT ![c] = k]
  BY InClone DEF CutShort
<1>2. run' = [run EXCEPT ![c] = m]
  BY DEF CutShort, PInv, TypeOK
<1> HIDE DEF k, r
<1>3. x \in SUBSET InReset
  BY <1>1 DEF RunType, From, InReset
<1> HIDE DEF x
<1>4. m \in RunType /\ m.pc = "idle" /\ m.status = "interrupted" /\ m.undone = x /\ Like(m, r)
  BY <1>1, <1>3, BaseTip DEF RunType, Places, Statuses, Like
<1> HIDE DEF m
<1>5. ResetOK(k, m)
  BY <1>1, <1>4 DEF x, ResetOK, From, Like, InReset
<1> QED BY <1>1, <1>2, <1>4, <1>5, ResetStep DEF r

LEMMA PInterrupt == ASSUME PInv, NEW c \in Clone, Interrupt(c) PROVE PInv'
<1>1. UNCHANGED clone /\ UNCHANGED <<origin, prs>>
  BY DEF Interrupt, RunOnly
<1>2. CASE Leave(c, "interrupted")
  BY <1>1, <1>2, LeaveUnchanged
<1>3. CASE run[c].pc \in InOpenPR /\ End(c, "interrupted")
  BY <1>1, <1>3, EndOpenPR
<1>4. CASE At(c, "look_up") /\ End(c, "none")
  <2>1. PICK m \in RunType : run' = [run EXCEPT ![c] = m] /\ m.pc = "idle" /\ m.status = "none"
    BY <1>4, EndedRun DEF Statuses
  <2>2. clone[c] \in CloneType /\ HeadOK(clone[c]) /\ clone' = [clone EXCEPT ![c] = clone[c]]
    BY <1>1, InClone
  <2>3. CloneOK(clone[c], m)
    BY <2>1, <2>2 DEF CloneOK, KeepOK, BumpOK, GreenOK, ResetOK, InTry, InOpenPR, InReset
  <2> QED BY <1>1, <2>1, <2>2, <2>3, LocalStep
<1>5. CASE CutShort(c)
  BY <1>1, <1>5, PCutShort
<1> QED BY <1>2, <1>3, <1>4, <1>5 DEF Interrupt

LEMMA PKill == ASSUME PInv, NEW c \in Clone, Kill(c) PROVE PInv'
<1>1. NewClone \in CloneType /\ HeadOK(NewClone)
  BY NewCloneOK
<1>2. PICK m \in RunType : run' = [run EXCEPT ![c] = m] /\ m.pc = "idle" /\ m.status = "killed"
  BY EndedRun DEF Kill, Statuses
<1>3. CloneOK(NewClone, m)
  BY <1>1, <1>2 DEF CloneOK, KeepOK, BumpOK, GreenOK, ResetOK, InTry, InOpenPR, InReset
<1>4. clone' = [clone EXCEPT ![c] = NewClone] /\ UNCHANGED <<origin, prs>>
  BY DEF Kill, Local
<1> QED BY <1>1, <1>2, <1>3, <1>4, LocalStep

LEMMA NextPInv == PInv /\ [Next]_vars => PInv'
<1> SUFFICES ASSUME PInv, [Next]_vars PROVE PInv'
  OBVIOUS
<1>1. ASSUME NEW c \in Clone, NEW l \in Lang, NEW a \in Args, Start(c, l, a) PROVE PInv'
  BY <1>1, PStart
<1>2. ASSUME NEW c \in Clone, Propose(c) PROVE PInv'
  BY <1>2, PCheckoutBase, PBump, PRegenerateSnapshots, PTestLang, PLanguageAgent, PRetest, PAdd, PCommit DEF Propose
<1>3. ASSUME NEW c \in Clone, OpenPR(c) PROVE PInv'
  BY <1>3, PPush, PCreatePR DEF OpenPR
<1>4. ASSUME NEW c \in Clone, Reset(c) PROVE PInv'
  BY <1>4, PResetIndex, PResetFiles, PResetSubmodule, PCleanSubmodule DEF Reset
<1>5. ASSUME NEW c \in Clone, LookUp(c) \/ Interrupt(c) \/ Kill(c) PROVE PInv'
  BY <1>5, PLookUp, PInterrupt, PKill
<1>6. CASE UNCHANGED vars
  <2>1. UNCHANGED clone /\ UNCHANGED run /\ UNCHANGED origin /\ UNCHANGED prs
    BY <1>6 DEF vars
  <2> QED BY <2>1 DEF PInv, TypeOK, Proposing, UpdatedMeansPR, At, L
<1> QED BY <1>1, <1>2, <1>3, <1>4, <1>5, <1>6 DEF Next, Step

LEMMA PInvHolds == Spec => []PInv
BY InitPInv, NextPInv, PTL DEF Spec

\* Only open_pr changes what others see.
LEMMA OnlyOpenPR == Next => UNCHANGED <<origin, prs>> \/ \E c \in Clone : Push(c) \/ CreatePR(c)
<1>1. ASSUME NEW c \in Clone, NEW l \in Lang, NEW a \in Args, Start(c, l, a) PROVE UNCHANGED <<origin, prs>>
  BY <1>1 DEF Start
<1>2. ASSUME NEW c \in Clone, LookUp(c) \/ Interrupt(c) \/ Kill(c) PROVE UNCHANGED <<origin, prs>>
  BY <1>2 DEF LookUp, Interrupt, Kill, Local, RunOnly
<1>3. ASSUME NEW c \in Clone, Propose(c) PROVE UNCHANGED <<origin, prs>>
  BY <1>3 DEF Propose, CheckoutBase, Bump, RegenerateSnapshots, TestLang, LanguageAgent, Retest, Add, Commit,
              Local, RunOnly
<1>4. ASSUME NEW c \in Clone, Reset(c) PROVE UNCHANGED <<origin, prs>>
  BY <1>4 DEF Reset, ResetIndex, ResetFiles, ResetSubmodule, CleanSubmodule, Local
<1> QED BY <1>1, <1>2, <1>3, <1>4 DEF Next, Step, OpenPR

-----------------------------------------------------------------------------
(* Theorems *)

\* Type correctness of clones, runs, branches and PRs.
THEOREM TypeCorrect == Spec => []TypeOK
<1>1. PInv => TypeOK
  BY DEF PInv
<1> QED BY <1>1, PInvHolds, PTL

\* A run that says "updated" has its PR, for the branch that is on origin.
THEOREM UpdatedHasPR == Spec => []UpdatedMeansPR
<1>1. PInv => UpdatedMeansPR
  BY DEF PInv
<1> QED BY <1>1, PInvHolds, PTL

\* A run that ends without a commit has put back what the commands of the reset
\* that were done put back, whatever was refused or cut short by an interrupt.
THEOREM ResetRestores == Spec => []Restored
<1>1. PInv => Restored
  <2> SUFFICES ASSUME PInv, NEW c \in Clone PROVE Restored!(c)
    BY DEF Restored
  <2>1. ResetOK(clone[c], run[c])
    BY InClone
  <2> QED BY <2>1 DEF ResetOK, IndexReset, FilesReset, At, L
<1> QED BY <1>1, PInvHolds, PTL

\* What is pushed is what the last green test-lang of its run has seen.
THEOREM TestedIsPushed == Spec => PushedIsTested
<1>1. PInv /\ [Next]_vars =>
        [\A l \in Lang : origin'[l] # origin[l] =>
           \E c \in Clone : /\ run[c].lang = l /\ ~At(c, "idle")
                            /\ run[c].tested.items \ {Core} = origin'[l].items
                            /\ run[c].tested.links = origin'[l].links]_vars
  <2> SUFFICES ASSUME PInv, Next, NEW l \in Lang, origin'[l] # origin[l]
               PROVE  \E c \in Clone : /\ run[c].lang = l /\ ~At(c, "idle")
                                       /\ run[c].tested.items \ {Core} = origin'[l].items
                                       /\ run[c].tested.links = origin'[l].links
    OBVIOUS
  <2>1. PICK c \in Clone : Push(c)
    BY OnlyOpenPR DEF CreatePR
  <2>2. origin' = [origin EXCEPT ![L(c)] = clone[c].tips[L(c)]] /\ run[c].pc = "push"
    BY <2>1 DEF Push, At
  <2>3. l = L(c) /\ origin'[l] = clone[c].tips[l]
    BY <2>2 DEF PInv, TypeOK
  <2>4. GreenOK(clone[c], run[c])
    BY InClone
  <2> QED BY <2>2, <2>3, <2>4 DEF GreenOK, InOpenPR, At, L
<1> QED BY <1>1, PInvHolds, PTL DEF PushedIsTested, Spec

\* One branch that is never replaced, and at most one PR.
THEOREM OneProposalPerTag == Spec => OneProposal
<1>1. PInv /\ [Next]_vars =>
        [\A l \in Lang : /\ origin[l] # NoBranch => origin'[l] = origin[l]
                         /\ prs'[l] # prs[l] => prs[l] = 0 /\ origin[l] # NoBranch]_vars
  <2> SUFFICES ASSUME PInv, Next, NEW l \in Lang
               PROVE  /\ origin[l] # NoBranch => origin'[l] = origin[l]
                      /\ prs'[l] # prs[l] => prs[l] = 0 /\ origin[l] # NoBranch
    OBVIOUS
  <2>1. CASE UNCHANGED <<origin, prs>>
    BY <2>1
  <2>2. ASSUME NEW c \in Clone, Push(c)
        PROVE  /\ origin[l] # NoBranch => origin'[l] = origin[l]
               /\ prs'[l] # prs[l] => prs[l] = 0 /\ origin[l] # NoBranch
    BY <2>2 DEF Push, PInv, TypeOK
  <2>3. ASSUME NEW c \in Clone, CreatePR(c)
        PROVE  /\ origin[l] # NoBranch => origin'[l] = origin[l]
               /\ prs'[l] # prs[l] => prs[l] = 0 /\ origin[l] # NoBranch
    <3>1. UNCHANGED origin /\ (UNCHANGED prs \/ prs' = [prs EXCEPT ![L(c)] = @ + 1]) /\ At(c, "create_pr")
      BY <2>3 DEF CreatePR
    <3>2. origin[L(c)] = clone[c].tips[L(c)] /\ prs[L(c)] = 0
      BY <3>1 DEF PInv, Proposing
    <3>3. clone[c].tips[L(c)] # NoBranch
      BY <3>1, Committed DEF At, InOpenPR, L
    <3> QED BY <3>1, <3>2, <3>3 DEF PInv, TypeOK
  <2> QED BY <2>1, <2>2, <2>3, OnlyOpenPR
<1> QED BY <1>1, PInvHolds, PTL DEF OneProposal, Spec

-----------------------------------------------------------------------------
(* Runs that follow each other in a clone: where a submodule at a new commit *)
(* and files of a bump come from.                                            *)

Bumped(m) == <<m, "bump">>
Has(k, m) == k.tips[m] \notin {NoBranch, Base}

\* Where a run may have moved its submodule, or edited files, not yet reset.
MayMove == InTry \cup InOpenPR \cup {"reset_index", "reset_files", "reset_submodule"}
MayEdit == InTry \cup {"reset_index", "reset_files"}

SubCarried(k, r, lf) == \A m \in Lang : k.sub[m] = "new" =>
  \/ Has(k, m) \/ <<m, "submodule">> \in lf
  \/ m = r.lang /\ (r.pc \in MayMove \/ "reset_submodule" \in r.undone)

FilesCarried(k, r, lf) == \A m \in Lang : Bumped(m) \in k.work \cup k.index =>
  \/ Bumped(m) \in Head(k).items \/ <<m, "files">> \in lf
  \/ m = r.lang /\ (r.pc \in MayEdit \/ "reset_index" \in r.undone \/ "reset_files" \in r.undone)

\* What is on the branch that is about to be pushed.
TipCarried(k, r, lf) == r.pc \in InOpenPR =>
  \A m \in Lang \ {r.lang} :
    /\ k.tips[r.lang].links[m] = "new" => Has(k, m) \/ <<m, "submodule">> \in lf
    /\ Bumped(m) \in k.tips[r.lang].items => <<m, "files">> \in lf

\* The branch is new, and is where the base is until the commit.
Branched(k, r) ==
  /\ r.pc # "idle" => r.old = "old"
  /\ r.pc = "checkout_base" => k.tips[r.lang] = NoBranch
  /\ r.pc \in InTry \ {"checkout_base"} /\ Keep(r.args) => k.head = r.lang /\ k.tips[r.lang] = Base
  /\ r.pc = "commit" => k.index = k.work \ {Core} /\ k.links = k.sub

Carried(k, r, lf) == SubCarried(k, r, lf) /\ FilesCarried(k, r, lf) /\ TipCarried(k, r, lf) /\ Branched(k, r)

CInv == /\ left \in [Clone -> SUBSET (Lang \X {"submodule", "files"})]
        /\ \A c \in Clone : Carried(clone[c], run[c], left[c])

\* A step of a run leaves its language, arguments and old commit, what was not
\* reset remains so, and nothing changes in other clones.
Keeps(c) == /\ Like(run'[c], run[c]) /\ run[c].undone \subseteq run'[c].undone
            /\ \A d \in Clone \ {c} : run'[d] = run[d]
            /\ left' = left

LEMMA RunKept ==
  ASSUME PInv, NEW c \in Clone, Step(c) \/ Interrupt(c) \/ Kill(c)
  PROVE  Keeps(c)
<1> run \in [Clone -> RunType]
  BY DEF PInv, TypeOK
<1> USE DEF Like
<1>0. left' = left
  BY DEF Step, LookUp, Propose, CheckoutBase, Bump, RegenerateSnapshots, TestLang, LanguageAgent, Retest, Add,
         Commit, OpenPR, Push, CreatePR, Reset, ResetIndex, ResetFiles, ResetSubmodule, CleanSubmodule, Interrupt,
         Kill, Local, RunOnly
<1>1. ASSUME NEW p, Goto(c, p) PROVE Keeps(c)
  BY <1>0, <1>1 DEF Goto, RunType, Keeps
<1>2. ASSUME NEW s, Leave(c, s) PROVE Keeps(c)
  BY <1>0, <1>2 DEF Leave, RunType, Keeps
<1>3. ASSUME NEW s, End(c, s) PROVE Keeps(c)
  BY <1>0, <1>3 DEF End, RunType, Keeps
<1>4. ASSUME Green(c) PROVE Keeps(c)
  BY <1>0, <1>4 DEF Green, RunType, Keeps
<1>5. ASSUME NEW p, NEW ok, NextReset(c, p, ok) PROVE Keeps(c)
  BY <1>0, <1>5 DEF NextReset, RunType, Keeps
<1>6. ASSUME CutShort(c) PROVE Keeps(c)
  BY <1>0, <1>6 DEF CutShort, RunType, Keeps
<1>7. CASE LookUp(c) \/ Interrupt(c) \/ Kill(c)
  BY <1>1, <1>2, <1>3, <1>6, <1>7 DEF LookUp, Interrupt, Kill
<1>8. CASE Propose(c)
  BY <1>1, <1>2, <1>4, <1>8
     DEF Propose, CheckoutBase, Bump, RegenerateSnapshots, TestLang, LanguageAgent, Retest, Add, Commit
<1>9. CASE OpenPR(c)
  BY <1>1, <1>3, <1>9 DEF OpenPR, Push, CreatePR
<1>10. CASE Reset(c)
  <2>1. \E p, ok : NextReset(c, p, ok)
    BY <1>10 DEF Reset, ResetIndex, ResetFiles, ResetSubmodule, CleanSubmodule, Locked, GiveUp
  <2> QED BY <1>5, <2>1
<1> QED BY <1>7, <1>8, <1>9, <1>10 DEF Step

\* A step of the run in c, whose clone has its new state q.
LEMMA CarriedStep ==
  ASSUME PInv, CInv, NEW c \in Clone, NEW q, clone' = [clone EXCEPT ![c] = q],
         Step(c) \/ Interrupt(c) \/ Kill(c), Carried(q, run'[c], left[c])
  PROVE  CInv'
<1>1. clone'[c] = q /\ \A d \in Clone \ {c} : clone'[d] = clone[d]
  BY DEF PInv, TypeOK
<1>2. Keeps(c)
  BY RunKept
<1> QED BY <1>1, <1>2 DEF CInv, Keeps

\* What is known of the clone of a run, and of the run after a step.
LEMMA CarriedClone ==
  ASSUME PInv, CInv, NEW c \in Clone, Step(c) \/ Interrupt(c) \/ Kill(c)
  PROVE  /\ clone[c] \in CloneType /\ run[c] \in RunType /\ run[c].lang \in Lang
         /\ SubCarried(clone[c], run[c], left[c]) /\ FilesCarried(clone[c], run[c], left[c])
         /\ TipCarried(clone[c], run[c], left[c]) /\ Branched(clone[c], run[c])
         /\ Like(run'[c], run[c]) /\ run[c].undone \subseteq run'[c].undone
         /\ clone = [clone EXCEPT ![c] = clone[c]]
BY InClone, RunKept DEF CInv, Carried, Keeps, RunType

\* The try block is left.
LEMMA CarriedLeave ==
  ASSUME PInv, CInv, NEW c \in Clone, Step(c) \/ Interrupt(c), run[c].pc \in InTry,
         NEW s, Leave(c, s), UNCHANGED clone
  PROVE  CInv'
<1> DEFINE k == clone[c]
           r == run[c]
           m == run'[c]
           lf == left[c]
<1>1. /\ SubCarried(k, r, lf) /\ FilesCarried(k, r, lf) /\ Branched(k, r) /\ Like(m, r)
      /\ clone' = [clone EXCEPT ![c] = k]
  BY CarriedClone
<1>2. m.pc = "reset_index" /\ r.pc \in InTry
  BY DEF Leave, PInv, TypeOK, RunType
<1> HIDE DEF k, r, m, lf
<1>3. Carried(k, m, lf)
  BY <1>1, <1>2
     DEF Carried, SubCarried, FilesCarried, TipCarried, Branched, Like, MayMove, MayEdit, InTry, InOpenPR
<1> QED BY <1>1, <1>3, CarriedStep DEF k, m, lf

\* A step inside of the try block that leaves the clone as it is.
LEMMA CarriedStay ==
  ASSUME PInv, CInv, NEW c \in Clone, Step(c), run[c].pc \in {"test", "retest"},
         run'[c].pc \in {"agent", "add", "reset_index"}, UNCHANGED clone
  PROVE  CInv'
<1> DEFINE k == clone[c]
           r == run[c]
           m == run'[c]
           lf == left[c]
<1>1. /\ SubCarried(k, r, lf) /\ FilesCarried(k, r, lf) /\ Branched(k, r) /\ Like(m, r)
      /\ clone' = [clone EXCEPT ![c] = k]
  BY CarriedClone
<1>2. r.pc \in {"test", "retest"} /\ m.pc \in {"agent", "add", "reset_index"}
  OBVIOUS
<1> HIDE DEF k, r, m, lf
<1>3. Carried(k, m, lf)
  BY <1>1, <1>2
     DEF Carried, SubCarried, FilesCarried, TipCarried, Branched, Like, MayMove, MayEdit, InTry, InOpenPR
<1> QED BY <1>1, <1>3, CarriedStep DEF k, m, lf

\* A lookup that ends the run, or finds no branch.
LEMMA CarriedLookUp ==
  ASSUME PInv, CInv, NEW c \in Clone, Step(c) \/ Interrupt(c), run[c].pc = "look_up", UNCHANGED clone,
         \/ run'[c].pc = "idle"
         \/ run'[c].pc = "checkout_base" /\ clone[c].tips[run[c].lang] = NoBranch
  PROVE  CInv'
<1> DEFINE k == clone[c]
           r == run[c]
           m == run'[c]
           lf == left[c]
<1>1. /\ SubCarried(k, r, lf) /\ FilesCarried(k, r, lf) /\ Branched(k, r) /\ Like(m, r)
      /\ r.undone \subseteq m.undone /\ clone' = [clone EXCEPT ![c] = k]
  BY CarriedClone
<1>2. /\ r.pc = "look_up"
      /\ \/ m.pc = "idle"
         \/ m.pc = "checkout_base" /\ k.tips[r.lang] = NoBranch
  OBVIOUS
<1> HIDE DEF k, r, m, lf
<1>3. Carried(k, m, lf)
  BY <1>1, <1>2
     DEF Carried, SubCarried, FilesCarried, TipCarried, Branched, Like, MayMove, MayEdit, InTry, InOpenPR
<1> QED BY <1>1, <1>3, CarriedStep DEF k, m, lf

LEMMA CLookUp == ASSUME PInv, CInv, NEW c \in Clone, LookUp(c) PROVE CInv'
<1>0. Step(c) /\ UNCHANGED clone /\ run[c].pc = "look_up"
  BY DEF LookUp, Step, RunOnly, At
<1>1. PICK remote \in {origin[L(c)], NoBranch} :
        IF remote # NoBranch \/ clone[c].tips[L(c)] # NoBranch THEN End(c, "exists") ELSE Goto(c, "checkout_base")
  BY DEF LookUp
<1>2. CASE End(c, "exists")
  <2>1. run'[c].pc = "idle"
    BY <1>2 DEF End, PInv, TypeOK, RunType
  <2> QED BY <1>0, <2>1, CarriedLookUp
<1>3. CASE clone[c].tips[L(c)] = NoBranch /\ Goto(c, "checkout_base")
  <2>1. run'[c].pc = "checkout_base"
    BY <1>3 DEF Goto, PInv, TypeOK, RunType
  <2> QED BY <1>0, <1>3, <2>1, CarriedLookUp DEF L
<1> QED BY <1>1, <1>2, <1>3

LEMMA CCheckoutBase == ASSUME PInv, CInv, NEW c \in Clone, CheckoutBase(c) PROVE CInv'
<1> DEFINE k == clone[c]
           r == run[c]
           m == run'[c]
           lf == left[c]
           l == run[c].lang
           h == Head(k)
           q == [k EXCEPT !.head = l, !.tips[l] = Base, !.work = @ \ h.items, !.index = @ \ h.items,
                          !.links = [n \in Lang |-> IF @[n] = h.links[n] THEN "old" ELSE @[n]]]
<1>0. Step(c) /\ r.pc = "checkout_base"
  BY DEF CheckoutBase, Step, Propose, At
<1>1. /\ k \in CloneType /\ SubCarried(k, r, lf) /\ FilesCarried(k, r, lf) /\ Branched(k, r) /\ Like(m, r)
      /\ r.undone \subseteq m.undone /\ l \in Lang
  BY <1>0, CarriedClone
<1>2. CASE Leave(c, "failed") /\ UNCHANGED clone
  BY <1>0, <1>2, CarriedLeave DEF InTry
<1>3. CASE clone' = [clone EXCEPT ![c] = q] /\ Goto(c, "bump")
  <2>1. m.pc = "bump"
    BY <1>3 DEF Goto, PInv, TypeOK, RunType
  <2>2. clone' = [clone EXCEPT ![c] = q]
    BY <1>3
  <2> HIDE DEF h, k, r, m, lf
  <2>3. /\ q.head = l /\ q.tips[l] = Base /\ \A n \in Lang \ {l} : q.tips[n] = k.tips[n]
        /\ q.work = k.work \ h.items /\ q.index = k.index \ h.items /\ q.sub = k.sub
    BY <1>1 DEF CloneType
  <2> HIDE DEF q, l
  <2>4. SubCarried(q, m, lf)
    BY <1>1, <2>1, <2>3 DEF l, r, SubCarried, Has, Like, MayMove, InTry
  <2>5. FilesCarried(q, m, lf)
    BY <1>1, <2>1, <2>3 DEF l, r, h, FilesCarried, Like, MayEdit, InTry
  <2>6. TipCarried(q, m, lf) /\ Branched(q, m)
    BY <1>0, <1>1, <2>1, <2>3 DEF l, r, TipCarried, Branched, Like, InTry, InOpenPR
  <2> QED BY <1>0, <2>2, <2>4, <2>5, <2>6, CarriedStep DEF m, lf, Carried
<1> QED BY <1>2, <1>3 DEF CheckoutBase, L

\* A step inside of the try block that moves the run's submodule or edits files,
\* those of a bump in its own language only.
LEMMA CarriedEdit ==
  ASSUME PInv, CInv, NEW c \in Clone, Step(c), NEW q, clone' = [clone EXCEPT ![c] = q],
         run[c].pc \in {"bump", "snapshots", "agent"}, run'[c].pc \in {"snapshots", "test", "retest", "reset_index"},
         q.head = clone[c].head, q.tips = clone[c].tips, q.index = clone[c].index,
         \A m \in Lang \ {run[c].lang} : q.sub[m] = clone[c].sub[m] /\ (Bumped(m) \in q.work => Bumped(m) \in clone[c].work)
  PROVE  CInv'
<1> DEFINE k == clone[c]
           r == run[c]
           m == run'[c]
           lf == left[c]
<1>1. /\ SubCarried(k, r, lf) /\ FilesCarried(k, r, lf) /\ Branched(k, r) /\ Like(m, r)
      /\ r.undone \subseteq m.undone
  BY CarriedClone
<1>2. /\ r.pc \in {"bump", "snapshots", "agent"} /\ m.pc \in {"snapshots", "test", "retest", "reset_index"}
      /\ q.head = k.head /\ q.tips = k.tips /\ q.index = k.index
      /\ \A n \in Lang \ {r.lang} : q.sub[n] = k.sub[n] /\ (Bumped(n) \in q.work => Bumped(n) \in k.work)
  OBVIOUS
<1> HIDE DEF k, r, m, lf
<1>3. m.pc \in MayMove /\ m.pc \in MayEdit
  BY <1>2 DEF MayMove, MayEdit, InTry
<1>4. SubCarried(q, m, lf)
  BY <1>1, <1>2, <1>3 DEF SubCarried, Has, Like
<1>5. FilesCarried(q, m, lf)
  BY <1>1, <1>2, <1>3 DEF FilesCarried, Head, Like
<1>6. TipCarried(q, m, lf) /\ Branched(q, m)
  BY <1>1, <1>2 DEF TipCarried, Branched, Like, InTry, InOpenPR
<1> QED BY <1>4, <1>5, <1>6, CarriedStep DEF m, lf, Carried

LEMMA CBump == ASSUME PInv, CInv, NEW c \in Clone, Bump(c) PROVE CInv'
<1> DEFINE k == clone[c]
           l == run[c].lang
<1>1. k \in CloneType /\ l \in Lang /\ Step(c) /\ run[c].pc = "bump"
  BY InClone DEF Bump, At, RunType, Step, Propose
<1>2. CASE Leave(c, "failed") /\ UNCHANGED clone
  BY <1>1, <1>2, CarriedLeave DEF InTry
<1>3. ASSUME NEW staged \in {"old", "new"}, NEW edits \in SUBSET {<<L(c), "bump">>},
             clone' = [clone EXCEPT ![c].sub[L(c)] = "new",
                                    ![c].links[L(c)] = IF staged = "new" THEN "new" ELSE @,
                                    ![c].work = @ \cup edits],
             Goto(c, "snapshots")
      PROVE  CInv'
  <2> DEFINE q == [k EXCEPT !.sub[l] = "new", !.links[l] = IF staged = "new" THEN "new" ELSE @,
                            !.work = @ \cup edits]
  <2>1. clone' = [clone EXCEPT ![c] = q]
    BY <1>3 DEF L, PInv, TypeOK, CloneType
  <2>2. run'[c].pc = "snapshots"
    BY <1>3 DEF Goto, PInv, TypeOK, RunType
  <2> HIDE DEF k, l
  <2>3. /\ q.head = k.head /\ q.tips = k.tips /\ q.index = k.index /\ q.work = k.work \cup edits
        /\ \A m \in Lang \ {l} : q.sub[m] = k.sub[m]
    BY <1>1 DEF CloneType
  <2> HIDE DEF q
  <2>4. \A m \in Lang \ {l} : Bumped(m) \notin edits
    BY DEF Bumped, l, L
  <2>5. \A m \in Lang \ {l} : q.sub[m] = k.sub[m] /\ (Bumped(m) \in q.work => Bumped(m) \in k.work)
    BY <2>3, <2>4
  <2> QED BY <1>1, <2>1, <2>2, <2>3, <2>5, CarriedEdit DEF k, l
<1> QED BY <1>2, <1>3 DEF Bump

LEMMA CRegenerateSnapshots == ASSUME PInv, CInv, NEW c \in Clone, RegenerateSnapshots(c) PROVE CInv'
<1> DEFINE k == clone[c]
           l == run[c].lang
<1>1. k \in CloneType /\ l \in Lang /\ Step(c) /\ run[c].pc = "snapshots"
  BY InClone DEF RegenerateSnapshots, At, RunType, Step, Propose
<1>2. CASE Leave(c, "failed") /\ UNCHANGED clone
  BY <1>1, <1>2, CarriedLeave DEF InTry
<1>3. ASSUME NEW edits \in SUBSET {<<L(c), "bump">>}, NEW d,
             clone' = [clone EXCEPT ![c].work = @ \cup edits, ![c].dirt[L(c)] = d],
             Goto(c, "test")
      PROVE  CInv'
  <2> DEFINE q == [k EXCEPT !.work = @ \cup edits, !.dirt[l] = d]
  <2>1. clone' = [clone EXCEPT ![c] = q]
    BY <1>3 DEF L, PInv, TypeOK, CloneType
  <2>2. run'[c].pc = "test"
    BY <1>3 DEF Goto, PInv, TypeOK, RunType
  <2> HIDE DEF k, l
  <2>3. /\ q.head = k.head /\ q.tips = k.tips /\ q.index = k.index /\ q.work = k.work \cup edits
        /\ q.sub = k.sub
    BY <1>1 DEF CloneType
  <2> HIDE DEF q
  <2>4. \A m \in Lang \ {l} : Bumped(m) \notin edits
    BY DEF Bumped, l, L
  <2>5. \A m \in Lang \ {l} : q.sub[m] = k.sub[m] /\ (Bumped(m) \in q.work => Bumped(m) \in k.work)
    BY <2>3, <2>4
  <2> QED BY <1>1, <2>1, <2>2, <2>3, <2>5, CarriedEdit DEF k, l
<1> QED BY <1>2, <1>3 DEF RegenerateSnapshots

\* An agent that leaves alone what a bump writes.
BumpsKept == \A e \in Edits : \A m \in Lang : Bumped(m) \notin e

LEMMA CLanguageAgent == ASSUME BumpsKept, PInv, CInv, NEW c \in Clone, LanguageAgent(c) PROVE CInv'
<1> DEFINE k == clone[c]
           l == run[c].lang
<1>1. k \in CloneType /\ l \in Lang /\ Step(c) /\ run[c].pc = "agent"
  BY InClone DEF LanguageAgent, At, RunType, Step, Propose
<1>2. PICK edits \in Edits, d \in {k.dirt[l]} \cup Rewritten :
             clone' = [clone EXCEPT ![c].work = @ \cup edits, ![c].dirt[l] = d]
  BY DEF LanguageAgent, AgentEdits, L
<1> DEFINE q == [k EXCEPT !.work = @ \cup edits, !.dirt[l] = d]
<1>3. clone' = [clone EXCEPT ![c] = q]
  BY <1>2 DEF PInv, TypeOK, CloneType
<1>4. run'[c].pc \in {"retest", "reset_index"}
  BY DEF LanguageAgent, Goto, Leave, PInv, TypeOK, RunType
<1> HIDE DEF k, l
<1>5. /\ q.head = k.head /\ q.tips = k.tips /\ q.index = k.index /\ q.work = k.work \cup edits
      /\ q.sub = k.sub
  BY <1>1 DEF CloneType
<1> HIDE DEF q
<1>6. \A m \in Lang : Bumped(m) \notin edits
  BY DEF BumpsKept
<1>7. \A m \in Lang \ {l} : q.sub[m] = k.sub[m] /\ (Bumped(m) \in q.work => Bumped(m) \in k.work)
  BY <1>5, <1>6
<1> QED BY <1>1, <1>3, <1>4, <1>5, <1>7, CarriedEdit DEF k, l

LEMMA CTestLang == ASSUME PInv, CInv, NEW c \in Clone, TestLang(c) \/ Retest(c) PROVE CInv'
<1>1. Step(c) /\ UNCHANGED clone /\ run[c].pc \in {"test", "retest"}
  BY DEF TestLang, Retest, RunOnly, Step, Propose, At
<1>2. Green(c) \/ Leave(c, "failed") \/ Goto(c, "agent")
  BY DEF TestLang, Retest
<1>3. run'[c].pc \in {"agent", "add", "reset_index"}
  BY <1>2 DEF Green, Leave, Goto, PInv, TypeOK, RunType
<1> QED BY <1>1, <1>3, CarriedStay

LEMMA CAdd == ASSUME PInv, CInv, NEW c \in Clone, Add(c) PROVE CInv'
<1> DEFINE k == clone[c]
           r == run[c]
           m == run'[c]
           lf == left[c]
           q == [k EXCEPT !.index = k.work \ {Core}, !.links = k.sub]
<1>0. Step(c) /\ r.pc = "add"
  BY DEF Add, Step, Propose, At
<1>1. /\ k \in CloneType /\ SubCarried(k, r, lf) /\ FilesCarried(k, r, lf) /\ Branched(k, r) /\ Like(m, r)
  BY <1>0, CarriedClone
<1>2. CASE Leave(c, "failed") /\ UNCHANGED clone
  BY <1>0, <1>2, CarriedLeave DEF InTry
<1>3. CASE clone' = [clone EXCEPT ![c].index = clone[c].work \ {Core}, ![c].links = clone[c].sub]
           /\ Goto(c, "commit")
  <2>1. clone' = [clone EXCEPT ![c] = q]
    BY <1>3 DEF PInv, TypeOK, CloneType
  <2>2. m.pc = "commit"
    BY <1>3 DEF Goto, PInv, TypeOK, RunType
  <2> HIDE DEF k, r, m, lf
  <2>3. /\ q.head = k.head /\ q.tips = k.tips /\ q.work = k.work /\ q.sub = k.sub
        /\ q.index = k.work \ {Core} /\ q.links = k.sub
    BY <1>1 DEF CloneType
  <2> HIDE DEF q
  <2>4. SubCarried(q, m, lf)
    BY <1>1, <2>2, <2>3 DEF SubCarried, Has, Like, MayMove, InTry
  <2>5. FilesCarried(q, m, lf)
    BY <1>1, <2>2, <2>3 DEF FilesCarried, Head, Like, MayEdit, InTry
  <2>6. TipCarried(q, m, lf) /\ Branched(q, m)
    BY <1>0, <1>1, <2>2, <2>3 DEF TipCarried, Branched, Like, InTry, InOpenPR
  <2> QED BY <1>0, <2>1, <2>4, <2>5, <2>6, CarriedStep DEF m, lf, Carried
<1> QED BY <1>2, <1>3 DEF Add

LEMMA CCommit == ASSUME PInv, CInv, NEW c \in Clone, Commit(c) PROVE CInv'
<1> DEFINE k == clone[c]
           r == run[c]
           m == run'[c]
           lf == left[c]
           l == run[c].lang
           t == [items |-> k.index, links |-> k.links]
           q == [k EXCEPT !.tips[l] = t]
<1>0. Step(c) /\ r.pc = "commit"
  BY DEF Commit, Step, Propose, At
<1>1. /\ k \in CloneType /\ SubCarried(k, r, lf) /\ FilesCarried(k, r, lf) /\ Branched(k, r) /\ Like(m, r)
      /\ l \in Lang /\ KeepOK(k, r)
  BY <1>0, CarriedClone, InClone
<1>2. CASE Leave(c, "failed") /\ UNCHANGED clone
  BY <1>0, <1>2, CarriedLeave DEF InTry
<1>3. CASE clone' = [clone EXCEPT ![c].tips[L(c)] = [items |-> clone[c].index, links |-> clone[c].links]]
           /\ (Goto(c, "push") \/ Leave(c, "interrupted"))
  <2>1. clone' = [clone EXCEPT ![c] = q]
    BY <1>3 DEF PInv, TypeOK, CloneType, L
  <2>2. m.pc \in {"push", "reset_index"}
    BY <1>3 DEF Goto, Leave, PInv, TypeOK, RunType
  <2> HIDE DEF k, r, m, lf
  <2>3. /\ q.head = k.head /\ q.work = k.work /\ q.index = k.index /\ q.sub = k.sub
        /\ q.tips[l].items = k.index /\ q.tips[l].links = k.links
        /\ \A n \in Lang \ {l} : q.tips[n] = k.tips[n]
    BY <1>1 DEF CloneType
  <2> HIDE DEF q
  <2>4. /\ k.head = l /\ k.tips[l] = Base /\ l # "main"
        /\ k.index = k.work \ {Core} /\ k.links = k.sub
    BY <1>0, <1>1, ProposeAssumption DEF l, r, KeepOK, Branched, InTry
  <2>5. SubCarried(q, m, lf)
    <3>1. m.pc \in MayMove
      BY <2>2 DEF MayMove, InTry, InOpenPR
    <3> QED BY <1>1, <2>3, <3>1 DEF l, r, SubCarried, Has, Like
  <2>6. FilesCarried(q, m, lf)
    <3>1. Head(q).items = k.index
      BY <2>3, <2>4 DEF Head
    <3>2. \A n \in Lang : Bumped(n) # Core
      BY DEF Bumped, Core
    <3>3. \A n \in Lang : Bumped(n) \in q.work \cup q.index => Bumped(n) \in Head(q).items
      BY <2>3, <2>4, <3>1, <3>2
    <3> QED BY <3>3 DEF FilesCarried
  <2>7. TipCarried(q, m, lf)
    <3>1. \A n \in Lang \ {l} : q.tips[l].links[n] = "new" => Has(q, n) \/ <<n, "submodule">> \in lf
      BY <1>1, <2>3, <2>4 DEF l, r, SubCarried, Has
    <3>2. Head(k).items = {}
      BY <2>4 DEF Head, Base
    <3>3. \A n \in Lang \ {l} : Bumped(n) \in q.tips[l].items => <<n, "files">> \in lf
      BY <1>1, <2>3, <3>2 DEF l, r, FilesCarried
    <3> QED BY <1>1, <3>1, <3>3 DEF l, r, TipCarried, Like
  <2>8. Branched(q, m)
    BY <1>0, <1>1, <2>2, <2>3 DEF Branched, Like, InTry
  <2> QED BY <1>0, <2>1, <2>5, <2>6, <2>7, <2>8, CarriedStep DEF m, lf, Carried
<1> QED BY <1>2, <1>3 DEF Commit

\* The branch stays as it is in open_pr.
LEMMA CarriedOpenPR ==
  ASSUME PInv, CInv, NEW c \in Clone, Step(c) \/ Interrupt(c), run[c].pc \in InOpenPR,
         run'[c].pc \in {"create_pr", "idle"}, UNCHANGED clone
  PROVE  CInv'
<1> DEFINE k == clone[c]
           r == run[c]
           m == run'[c]
           lf == left[c]
<1>1. /\ SubCarried(k, r, lf) /\ FilesCarried(k, r, lf) /\ TipCarried(k, r, lf) /\ Branched(k, r) /\ Like(m, r)
      /\ r.undone \subseteq m.undone /\ clone' = [clone EXCEPT ![c] = k]
  BY CarriedClone
<1>2. Has(k, r.lang)
  BY Committed DEF Has
<1>3. r.pc \in InOpenPR /\ m.pc \in {"create_pr", "idle"}
  OBVIOUS
<1> HIDE DEF k, r, m, lf
<1>4. SubCarried(k, m, lf)
  BY <1>1, <1>2 DEF SubCarried, Like
<1>5. FilesCarried(k, m, lf)
  BY <1>1, <1>3 DEF FilesCarried, Like, MayEdit, InTry, InOpenPR
<1>6. TipCarried(k, m, lf) /\ Branched(k, m)
  BY <1>1, <1>3 DEF TipCarried, Branched, Like, InTry, InOpenPR
<1> QED BY <1>1, <1>4, <1>5, <1>6, CarriedStep DEF k, m, lf, Carried

LEMMA COpenPR == ASSUME PInv, CInv, NEW c \in Clone, OpenPR(c) PROVE CInv'
<1>1. Step(c) /\ UNCHANGED clone /\ run[c].pc \in InOpenPR
  BY DEF OpenPR, Push, CreatePR, Step, At, InOpenPR
<1>2. End(c, "failed") \/ End(c, "updated") \/ Goto(c, "create_pr")
  BY DEF OpenPR, Push, CreatePR
<1>3. run'[c].pc \in {"create_pr", "idle"}
  BY <1>2 DEF End, Goto, PInv, TypeOK, RunType
<1> QED BY <1>1, <1>3, CarriedOpenPR

\* A command of the reset that was given up.
LEMMA CarriedGaveUp ==
  ASSUME PInv, CInv, NEW c \in Clone, Step(c), NEW p, run[c].pc \in InReset,
         <<run[c].pc, p>> \in Following, GiveUp(c, p)
  PROVE  CInv'
<1> DEFINE k == clone[c]
           r == run[c]
           m == run'[c]
           lf == left[c]
<1>1. /\ SubCarried(k, r, lf) /\ FilesCarried(k, r, lf) /\ Branched(k, r) /\ Like(m, r)
      /\ r.undone \subseteq m.undone /\ clone' = [clone EXCEPT ![c] = k]
  BY CarriedClone DEF GiveUp
<1>2. m.pc = p /\ r.pc \in m.undone
  BY DEF GiveUp, NextReset, PInv, TypeOK, RunType
<1>3. r.pc \in InReset /\ <<r.pc, p>> \in Following
  OBVIOUS
<1> HIDE DEF k, r, m, lf
<1>4. SubCarried(k, m, lf)
  BY <1>1, <1>2, <1>3 DEF SubCarried, Like, MayMove, InReset, InTry, InOpenPR, Following
<1>5. FilesCarried(k, m, lf)
  BY <1>1, <1>2, <1>3 DEF FilesCarried, Like, MayEdit, InReset, InTry, Following
<1>6. TipCarried(k, m, lf) /\ Branched(k, m)
  BY <1>1, <1>2, <1>3 DEF TipCarried, Branched, Like, InReset, InTry, InOpenPR, Following
<1> QED BY <1>1, <1>4, <1>5, <1>6, CarriedStep DEF k, m, lf, Carried

LEMMA CResetIndex == ASSUME PInv, CInv, NEW c \in Clone, ResetIndex(c) PROVE CInv'
<1> DEFINE k == clone[c]
           r == run[c]
           m == run'[c]
           lf == left[c]
           h == Head(k)
           q == [k EXCEPT !.index = h.items, !.links = h.links]
<1>0. Step(c) /\ r.pc = "reset_index" /\ r.pc \in InReset
  BY DEF ResetIndex, Step, Reset, At, InReset
<1>1. /\ k \in CloneType /\ SubCarried(k, r, lf) /\ FilesCarried(k, r, lf) /\ Branched(k, r) /\ Like(m, r)
      /\ r.undone \subseteq m.undone
  BY <1>0, CarriedClone
<1>2. CASE Locked(c, "reset_files")
  BY <1>0, <1>2, CarriedGaveUp DEF Locked, Following
<1>3. CASE /\ clone' = [clone EXCEPT ![c].index = h.items, ![c].links = h.links]
           /\ NextReset(c, "reset_files", TRUE)
  <2>1. clone' = [clone EXCEPT ![c] = q]
    BY <1>3 DEF PInv, TypeOK, CloneType
  <2>2. m.pc = "reset_files"
    BY <1>3 DEF NextReset, PInv, TypeOK, RunType
  <2> HIDE DEF k, r, m, lf, h
  <2>3. q.head = k.head /\ q.tips = k.tips /\ q.work = k.work /\ q.sub = k.sub /\ q.index = h.items
    BY <1>1 DEF CloneType
  <2> HIDE DEF q
  <2>4. SubCarried(q, m, lf)
    BY <1>1, <2>2, <2>3 DEF SubCarried, Has, Like, MayMove
  <2>5. FilesCarried(q, m, lf)
    <3>1. Head(q) = h
      BY <2>3 DEF h, Head
    <3> QED BY <1>1, <2>2, <2>3, <3>1 DEF h, FilesCarried, Like, MayEdit
  <2>6. TipCarried(q, m, lf) /\ Branched(q, m)
    BY <1>0, <1>1, <2>2, <2>3 DEF TipCarried, Branched, Like, InTry, InOpenPR
  <2> QED BY <1>0, <2>1, <2>4, <2>5, <2>6, CarriedStep DEF m, lf, Carried
<1> QED BY <1>2, <1>3 DEF ResetIndex

LEMMA CResetFiles == ASSUME PInv, CInv, NEW c \in Clone, ResetFiles(c) PROVE CInv'
<1> DEFINE k == clone[c]
           r == run[c]
           m == run'[c]
           lf == left[c]
           q == [k EXCEPT !.work = (k.index \ {Core, Elsewhere}) \cup (@ \cap Untouched)]
<1>0. Step(c) /\ r.pc = "reset_files" /\ r.pc \in InReset
  BY DEF ResetFiles, Step, Reset, At, InReset
<1>1. /\ k \in CloneType /\ SubCarried(k, r, lf) /\ FilesCarried(k, r, lf) /\ Branched(k, r) /\ Like(m, r)
      /\ r.undone \subseteq m.undone /\ ResetOK(k, r)
  BY <1>0, CarriedClone, InClone
<1>2. CASE Locked(c, "reset_submodule")
  BY <1>0, <1>2, CarriedGaveUp DEF Locked, Following
<1>3. CASE /\ clone' = [clone EXCEPT ![c].work = (clone[c].index \ {Core, Elsewhere}) \cup (@ \cap Untouched)]
           /\ NextReset(c, "reset_submodule", TRUE)
  <2>1. clone' = [clone EXCEPT ![c] = q]
    BY <1>3 DEF PInv, TypeOK
  <2>2. m.pc = "reset_submodule"
    BY <1>3 DEF NextReset, PInv, TypeOK, RunType
  <2> HIDE DEF k, r, m, lf
  <2>3. /\ q.head = k.head /\ q.tips = k.tips /\ q.sub = k.sub /\ q.index = k.index
        /\ q.work \subseteq k.index \cup Untouched
    BY <1>1 DEF CloneType
  <2> HIDE DEF q
  <2>4. SubCarried(q, m, lf)
    BY <1>1, <2>2, <2>3 DEF SubCarried, Has, Like, MayMove
  <2>5. FilesCarried(q, m, lf)
    <3>1. \A n \in Lang : Bumped(n) \notin Untouched
      BY DEF Bumped, Untouched, Created, Core, Elsewhere
    <3>2. "reset_index" \notin r.undone => k.index = Head(k).items
      BY <1>0, <1>1 DEF ResetOK, IndexReset, InReset
    <3>3. Head(q) = Head(k)
      BY <2>3 DEF Head
    <3>4. \A n \in Lang : Bumped(n) \in q.work \cup q.index => Bumped(n) \in k.index
      BY <2>3, <3>1
    <3> QED BY <1>1, <3>2, <3>3, <3>4 DEF FilesCarried, Like
  <2>6. TipCarried(q, m, lf) /\ Branched(q, m)
    BY <1>0, <1>1, <2>2, <2>3 DEF TipCarried, Branched, Like, InTry, InOpenPR
  <2> QED BY <1>0, <2>1, <2>4, <2>5, <2>6, CarriedStep DEF m, lf, Carried
<1> QED BY <1>2, <1>3 DEF ResetFiles

LEMMA CResetSubmodule == ASSUME PInv, CInv, NEW c \in Clone, ResetSubmodule(c) PROVE CInv'
<1> DEFINE k == clone[c]
           r == run[c]
           m == run'[c]
           lf == left[c]
           l == run[c].lang
           q == [k EXCEPT !.sub[l] = run[c].old]
<1>0. Step(c) /\ r.pc = "reset_submodule" /\ r.pc \in InReset
  BY DEF ResetSubmodule, Step, Reset, At, InReset
<1>1. /\ k \in CloneType /\ SubCarried(k, r, lf) /\ FilesCarried(k, r, lf) /\ Branched(k, r) /\ Like(m, r)
      /\ r.undone \subseteq m.undone /\ l \in Lang
  BY <1>0, CarriedClone
<1>2. CASE GiveUp(c, "clean_submodule")
  BY <1>0, <1>2, CarriedGaveUp DEF Following
<1>3. CASE clone' = [clone EXCEPT ![c].sub[l] = run[c].old] /\ NextReset(c, "clean_submodule", TRUE)
  <2>1. clone' = [clone EXCEPT ![c] = q]
    BY <1>3 DEF PInv, TypeOK, CloneType
  <2>2. m.pc = "clean_submodule"
    BY <1>3 DEF NextReset, PInv, TypeOK, RunType
  <2>0. r.old = "old"
    BY <1>0, <1>1 DEF Branched
  <2> HIDE DEF k, m, lf
  <2>3. /\ q.head = k.head /\ q.tips = k.tips /\ q.work = k.work /\ q.index = k.index
        /\ q.sub[l] = "old" /\ \A n \in Lang \ {l} : q.sub[n] = k.sub[n]
    BY <1>1, <2>0 DEF CloneType
  <2> HIDE DEF q, r
  <2>4. SubCarried(q, m, lf)
    BY <1>1, <2>3 DEF r, SubCarried, Has, Like
  <2>5. FilesCarried(q, m, lf)
    BY <1>0, <1>1, <2>3 DEF FilesCarried, Head, Like, MayEdit, InTry
  <2>6. TipCarried(q, m, lf) /\ Branched(q, m)
    BY <1>0, <1>1, <2>2, <2>3 DEF TipCarried, Branched, Like, InTry, InOpenPR
  <2> QED BY <1>0, <2>1, <2>4, <2>5, <2>6, CarriedStep DEF m, lf, Carried
<1> QED BY <1>2, <1>3 DEF ResetSubmodule, Locked, L

LEMMA CCleanSubmodule == ASSUME PInv, CInv, NEW c \in Clone, CleanSubmodule(c) PROVE CInv'
<1> DEFINE k == clone[c]
           r == run[c]
           m == run'[c]
           lf == left[c]
           l == run[c].lang
           q == [k EXCEPT !.dirt[l] = "clean"]
<1>0. Step(c) /\ r.pc = "clean_submodule" /\ r.pc \in InReset
  BY DEF CleanSubmodule, Step, Reset, At, InReset
<1>1. /\ k \in CloneType /\ SubCarried(k, r, lf) /\ FilesCarried(k, r, lf) /\ Branched(k, r) /\ Like(m, r)
      /\ r.undone \subseteq m.undone
  BY <1>0, CarriedClone
<1>2. CASE GiveUp(c, "idle")
  BY <1>0, <1>2, CarriedGaveUp DEF Following
<1>3. CASE clone' = [clone EXCEPT ![c].dirt[l] = "clean"] /\ NextReset(c, "idle", TRUE)
  <2>1. clone' = [clone EXCEPT ![c] = q]
    BY <1>3 DEF PInv, TypeOK, CloneType
  <2>2. m.pc = "idle"
    BY <1>3 DEF NextReset, PInv, TypeOK, RunType
  <2> HIDE DEF k, r, m, lf, l
  <2>3. q.head = k.head /\ q.tips = k.tips /\ q.work = k.work /\ q.sub = k.sub /\ q.index = k.index
    BY <1>1 DEF CloneType
  <2> HIDE DEF q
  <2>4. SubCarried(q, m, lf)
    BY <1>0, <1>1, <2>3 DEF SubCarried, Has, Like, MayMove, InTry, InOpenPR
  <2>5. FilesCarried(q, m, lf)
    BY <1>0, <1>1, <2>3 DEF FilesCarried, Head, Like, MayEdit, InTry
  <2>6. TipCarried(q, m, lf) /\ Branched(q, m)
    BY <2>2 DEF TipCarried, Branched, InTry, InOpenPR
  <2> QED BY <1>0, <2>1, <2>4, <2>5, <2>6, CarriedStep DEF m, lf, Carried
<1> QED BY <1>2, <1>3 DEF CleanSubmodule, Locked, L

LEMMA CInterrupt == ASSUME PInv, CInv, NEW c \in Clone, Interrupt(c) PROVE CInv'
<1>0. UNCHANGED clone
  BY DEF Interrupt, RunOnly
<1>1. CASE At(c, "look_up") /\ End(c, "none")
  <2>1. run[c].pc = "look_up" /\ run'[c].pc = "idle"
    BY <1>1 DEF At, End, PInv, TypeOK, RunType
  <2> QED BY <1>0, <2>1, CarriedLookUp
<1>2. CASE run[c].pc \in InTry /\ Leave(c, "interrupted")
  BY <1>0, <1>2, CarriedLeave
<1>3. CASE run[c].pc \in InOpenPR /\ End(c, "interrupted")
  <2>1. run'[c].pc = "idle"
    BY <1>3 DEF End, PInv, TypeOK, RunType
  <2> QED BY <1>0, <1>3, <2>1, CarriedOpenPR
<1>4. CASE CutShort(c)
  <2> DEFINE k == clone[c]
             r == run[c]
             m == run'[c]
             lf == left[c]
  <2>1. /\ SubCarried(k, r, lf) /\ FilesCarried(k, r, lf) /\ Branched(k, r) /\ Like(m, r)
        /\ r.undone \subseteq m.undone /\ clone' = [clone EXCEPT ![c] = k]
    BY <1>0, CarriedClone
  <2>2. r.pc \in InReset /\ m.pc = "idle" /\ From[r.pc] \subseteq m.undone
    BY <1>4 DEF CutShort, PInv, TypeOK, RunType
  <2> HIDE DEF k, r, m, lf
  <2>3. /\ r.pc \in {"reset_index", "reset_files"} => "reset_files" \in m.undone
        /\ r.pc \in {"reset_index", "reset_files", "reset_submodule"} => "reset_submodule" \in m.undone
    BY <2>2 DEF From, InReset
  <2>4. SubCarried(k, m, lf)
    BY <2>1, <2>2, <2>3 DEF SubCarried, Like, MayMove, InReset, InTry, InOpenPR
  <2>5. FilesCarried(k, m, lf)
    BY <2>1, <2>2, <2>3 DEF FilesCarried, Like, MayEdit, InReset, InTry
  <2>6. TipCarried(k, m, lf) /\ Branched(k, m)
    BY <2>2 DEF TipCarried, Branched, InTry, InOpenPR
  <2> QED BY <2>1, <2>4, <2>5, <2>6, CarriedStep DEF k, m, lf, Carried
<1> QED BY <1>1, <1>2, <1>3, <1>4 DEF Interrupt

\* A new clone has nothing of another language.
LEMMA CarriedNew ==
  ASSUME NEW r, NEW lf, r.pc \in {"idle", "look_up", "bump"}, r.pc # "idle" => r.old = "old",
         r.pc = "bump" => ~Keep(r.args)
  PROVE  Carried(NewClone, r, lf)
<1>1. NewClone.sub = [l \in Lang |-> "old"] /\ NewClone.work = {} /\ NewClone.index = {}
  BY DEF NewClone, Base
<1>2. SubCarried(NewClone, r, lf) /\ FilesCarried(NewClone, r, lf)
  BY <1>1 DEF SubCarried, FilesCarried
<1>3. TipCarried(NewClone, r, lf) /\ Branched(NewClone, r)
  BY DEF TipCarried, Branched, InTry, InOpenPR
<1> QED BY <1>2, <1>3 DEF Carried

LEMMA CKill == ASSUME PInv, CInv, NEW c \in Clone, Kill(c) PROVE CInv'
<1>1. run'[c].pc = "idle"
  BY DEF Kill, End, PInv, TypeOK, RunType
<1>2. Carried(NewClone, run'[c], left[c])
  BY <1>1, CarriedNew
<1> QED BY <1>2, CarriedStep DEF Kill

LEMMA NotResetIs ==
  ASSUME NEW u
  PROVE  /\ NotReset(u) \subseteq {"submodule", "files"}
         /\ "reset_submodule" \in u => "submodule" \in NotReset(u)
         /\ "reset_index" \in u \/ "reset_files" \in u => "files" \in NotReset(u)
<1>1. DOMAIN Parts = {"submodule", "files"}
  BY DEF Parts
<1>2. Parts["submodule"] = {"reset_submodule"} /\ Parts["files"] = {"reset_index", "reset_files"}
  BY DEF Parts
<1> QED BY <1>1, <1>2 DEF NotReset

\* A run that starts takes what the resets of its clone left for granted.
LEMMA CStart ==
  ASSUME PInv, CInv, NEW c \in Clone, NEW l \in Lang, NEW a \in Args, Start(c, l, a)
  PROVE  CInv'
<1> DEFINE k == clone[c]
           r == run[c]
           m == run'[c]
           lf == left[c]
           gone == {r.lang} \X NotReset(r.undone)
<1>1. /\ r.pc = "idle" /\ r.lang \in Lang
      /\ SubCarried(k, r, lf) /\ FilesCarried(k, r, lf)
      /\ NotReset(r.undone) \subseteq {"submodule", "files"}
  BY NotResetIs DEF Start, At, PInv, TypeOK, RunType, CInv, Carried
<1>2. \A d \in Clone \ {c} : clone'[d] = clone[d] /\ run'[d] = run[d] /\ left'[d] = left[d]
  BY DEF Start, PInv, TypeOK, CInv
<1>3. m.pc \in {"idle", "look_up", "bump"} /\ (m.pc # "idle" => m.old = "old") /\ (m.pc = "bump" => ~Keep(m.args))
  <2> DEFINE i == [Idle EXCEPT !.lang = l, !.args = a, !.old = clone'[c].sub[l]]
             p == IF Keep(a) THEN "look_up" ELSE "bump"
             s == [i EXCEPT !.status = "no_tags"]
             j == [i EXCEPT !.pc = p]
  <2>1. m = s \/ (i.old = "old" /\ m = j)
    BY DEF Start, PInv, TypeOK
  <2>2. s.pc = "idle" /\ j.pc = p /\ j.args = a /\ j.old = i.old
    BY DEF Idle
  <2> HIDE DEF i, j, m, s
  <2>3. p \in {"look_up", "bump"} /\ (p = "bump" => ~Keep(a))
    OBVIOUS
  <2> HIDE DEF p
  <2>4. CASE m = s
    BY <2>2, <2>4
  <2>5. CASE i.old = "old" /\ m = j
    BY <2>2, <2>3, <2>5
  <2> QED BY <2>1, <2>4, <2>5
<1>4. CASE Fresh
  <2>1. clone'[c] = NewClone /\ left'[c] = {} /\ left' = [left EXCEPT ![c] = {}]
    BY <1>4 DEF Start, PInv, TypeOK, CInv
  <2>2. Carried(NewClone, m, {})
    BY <1>3, CarriedNew
  <2> QED BY <1>2, <2>1, <2>2 DEF CInv
<1>5. CASE ~Fresh
  <2>1. clone'[c] = k /\ left'[c] = lf \cup gone /\ left' = [left EXCEPT ![c] = lf \cup gone]
    BY <1>5 DEF Start, PInv, TypeOK, CInv, L
  <2> HIDE DEF k, r, m
  <2>2. SubCarried(k, m, lf \cup gone)
    BY <1>1, NotResetIs DEF SubCarried, MayMove, InTry, InOpenPR
  <2>3. FilesCarried(k, m, lf \cup gone)
    BY <1>1, NotResetIs DEF FilesCarried, MayEdit, InTry
  <2>4. TipCarried(k, m, lf \cup gone) /\ Branched(k, m)
    BY <1>3 DEF TipCarried, Branched, InTry, InOpenPR
  <2>5. lf \cup gone \in SUBSET (Lang \X {"submodule", "files"})
    BY <1>1 DEF CInv
  <2> QED BY <1>2, <2>1, <2>2, <2>3, <2>4, <2>5 DEF m, CInv, Carried
<1> QED BY <1>4, <1>5

LEMMA InitCInv == Init => CInv
<1> SUFFICES ASSUME Init PROVE CInv
  OBVIOUS
<1>1. Idle.pc = "idle"
  BY DEF Idle
<1>2. Carried(NewClone, Idle, {})
  BY <1>1, CarriedNew
<1> QED BY <1>2 DEF Init, CInv

LEMMA NextCInv == ASSUME BumpsKept PROVE PInv /\ CInv /\ [Next]_vars => CInv'
<1> SUFFICES ASSUME PInv, CInv, [Next]_vars PROVE CInv'
  OBVIOUS
<1>1. CASE UNCHANGED vars
  BY <1>1 DEF vars, CInv
<1>2. ASSUME NEW c \in Clone, \E l \in Lang, a \in Args : Start(c, l, a) PROVE CInv'
  BY <1>2, CStart
<1>3. ASSUME NEW c \in Clone, Propose(c) PROVE CInv'
  BY <1>3, CCheckoutBase, CBump, CRegenerateSnapshots, CTestLang, CLanguageAgent, CAdd, CCommit DEF Propose
<1>4. ASSUME NEW c \in Clone, Reset(c) PROVE CInv'
  BY <1>4, CResetIndex, CResetFiles, CResetSubmodule, CCleanSubmodule DEF Reset
<1>5. ASSUME NEW c \in Clone, Step(c) PROVE CInv'
  BY <1>3, <1>4, <1>5, CLookUp, COpenPR DEF Step
<1> QED BY <1>1, <1>2, <1>5, CInterrupt, CKill DEF Next

\* What is pushed has of another language only what was committed in the same
\* clone or what a reset left, whatever fails and is reset: as long as the agent
\* edits no other language's files of a bump.
THEOREM NothingLeaks == ASSUME BumpsKept PROVE Spec => CarriedOver
<1> DEFINE Only(l) ==
      \E c \in Clone :
        /\ run[c].lang = l /\ At(c, "push")
        /\ \A m \in Lang \ {l} :
             /\ origin'[l].links[m] = "new" =>
                  clone[c].tips[m] \notin {NoBranch, Base} \/ <<m, "submodule">> \in left[c]
             /\ <<m, "bump">> \in origin'[l].items => <<m, "files">> \in left[c]
<1>1. PInv /\ CInv /\ [Next]_vars => [\A l \in Lang : origin'[l] # origin[l] => Only(l)]_vars
  <2> SUFFICES ASSUME PInv, CInv, Next, NEW l \in Lang, origin'[l] # origin[l]
               PROVE  Only(l)
    OBVIOUS
  <2>1. PICK c \in Clone : Push(c)
    BY OnlyOpenPR DEF CreatePR
  <2>2. origin' = [origin EXCEPT ![L(c)] = clone[c].tips[L(c)]] /\ At(c, "push")
    BY <2>1 DEF Push
  <2>3. l = run[c].lang /\ origin'[l] = clone[c].tips[l]
    BY <2>2 DEF PInv, TypeOK, L
  <2>4. TipCarried(clone[c], run[c], left[c])
    BY DEF CInv, Carried
  <2> QED BY <2>2, <2>3, <2>4 DEF TipCarried, Has, Bumped, InOpenPR, At
<1>2. Spec => []CInv
  BY InitCInv, NextCInv, PInvHolds, PTL DEF Spec
<1> QED BY <1>1, <1>2, PInvHolds, PTL DEF CarriedOver, Spec
=============================================================================
