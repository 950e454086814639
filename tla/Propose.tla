------------------------------- MODULE Propose ------------------------------
(***************************************************************************)
(* scripts/propose-grammar-update: invocations that bump the grammar of a  *)
(* language in a clone of the repository, test it, and either put the      *)
(* clone back (classify-only) or commit the result on the branch           *)
(* grammar-update/<lang>/<tag>, push it and open a PR.                     *)
(*                                                                         *)
(* A clone is what git knows of it: the branch checked out, the tips of    *)
(* the proposal branches, the files that differ from origin/main in the    *)
(* work tree and in the index, and for every submodule its HEAD, its       *)
(* gitlink in the index and what its own work tree has modified.  Every    *)
(* command git or gh runs may fail.  Upstream has one newer stable tag for *)
(* each language, "new"; PRs are not merged, so origin/main stays Base.    *)
(***************************************************************************)
EXTENDS Naturals, FiniteSets

CONSTANTS
  Lang,       (* languages                                                 *)
  Clone,      (* clones of the repository, each used by one run at a time  *)
  Args,       (* the command lines used: sets of "open_pr" and "dry_run"   *)
  Edits,      (* sets of files that an agent edits; it is told to keep to  *)
              (* its language, and nothing holds it to that                *)
  Fresh,      (* every run has a new clone, as a job of the workflow does  *)
  Inherited,  (* the upstream corpus, which the wrapper reaches through    *)
              (* test/corpus/inherited, is rewritten: by tree-sitter       *)
              (* test --update, or by the agent                            *)
  IndexLock,  (* another process may hold index.lock through all retries   *)
  MaxRuns     (* bound of the number of runs                               *)

Core      == <<"core", "edited">>        (* core/, which is never staged *)
Elsewhere == <<"elsewhere", "edited">>   (* outside of lang/ and core/   *)
Item == (Lang \X {"bump", "tests", "created"}) \cup {Core, Elsewhere}

ASSUME ProposeAssumption ==
  /\ Lang # {} /\ "main" \notin Lang
  /\ Args \subseteq SUBSET {"open_pr", "dry_run"}
  /\ Edits \subseteq SUBSET Item
  /\ {Fresh, Inherited, IndexLock} \subseteq BOOLEAN
  /\ MaxRuns \in Nat

VARIABLES
  clone,    (* the local state of every clone                              *)
  run,      (* the run in every clone                                      *)
  origin,   (* the proposal branch of every language on origin             *)
  prs,      (* the number of PRs opened for it                             *)
  started,  (* the number of runs so far                                   *)
  left      (* history: what the resets of earlier runs in a clone did not *)
            (* put back, "submodule" or "files" of a language              *)

vars == <<clone, run, origin, prs, started, left>>

\* What git checkout -- lang leaves alone: files that HEAD does not know, and
\* those that are not below lang/.
Created   == Lang \X {"created"}
Untouched == Created \cup {Core, Elsewhere}

Base     == [items |-> {}, links |-> [l \in Lang |-> "old"]]
NoBranch == [items |-> {}, links |-> [l \in Lang |-> "none"]]

NewClone ==
  [head |-> "main", tips |-> [l \in Lang |-> NoBranch],
   work |-> {}, index |-> {},
   sub |-> Base.links, links |-> Base.links, dirt |-> [l \in Lang |-> "clean"]]

\* The commit that HEAD of the clone k points to.
Head(k) == IF k.head = "main" THEN Base ELSE k.tips[k.head]

\* What the last green test-lang of a run has seen.
NotTested == [items |-> {}, links |-> Base.links, dirt |-> "clean"]

Idle == [pc |-> "idle", lang |-> CHOOSE l \in Lang : TRUE, args |-> {}, old |-> "old",
         status |-> "none", tested |-> NotTested, undone |-> {}]

Init ==
  /\ clone = [c \in Clone |-> NewClone]
  /\ run = [c \in Clone |-> Idle]
  /\ origin = [l \in Lang |-> NoBranch]
  /\ prs = [l \in Lang |-> 0]
  /\ started = 0
  /\ left = [c \in Clone |-> {}]

-----------------------------------------------------------------------------
(* Steps of the run in clone c *)

L(c)  == run[c].lang
At(c, p) == run[c].pc = p

Goto(c, p) == run' = [run EXCEPT ![c].pc = p]
End(c, s)  == run' = [run EXCEPT ![c].pc = "idle", ![c].status = s, ![c].tested = NotTested]

\* An early return or an exception in the try block of propose: the finally
\* clause resets the clone.
Leave(c, s) == run' = [run EXCEPT ![c].pc = "reset_index", ![c].status = s]

InTry     == {"checkout_base", "bump", "snapshots", "test", "agent", "retest", "add", "commit"}
InOpenPR  == {"push", "create_pr"}
InReset   == {"reset_index", "reset_files", "reset_submodule", "clean_submodule"}

Local   == UNCHANGED <<origin, prs, started, left>>
RunOnly == UNCHANGED <<clone, origin, prs, started, left>>

Keep(a) == "open_pr" \in a /\ "dry_run" \notin a

\* The parts that commands of the reset put back, and those that were not.
Parts == [submodule |-> {"reset_submodule"}, files |-> {"reset_index", "reset_files"}]
NotReset(undone) == {p \in DOMAIN Parts : undone \cap Parts[p] # {}}

\* main up to propose: the target is the newest stable tag newer than HEAD of
\* the submodule, if there is one and it can be fetched.
Start(c, l, a) ==
  /\ At(c, "idle") /\ started < MaxRuns
  /\ started' = started + 1
  /\ clone' = IF Fresh THEN [clone EXCEPT ![c] = NewClone] ELSE clone
  /\ left' = [left EXCEPT ![c] = IF Fresh THEN {} ELSE @ \cup ({L(c)} \X NotReset(run[c].undone))]
  /\ LET r == [Idle EXCEPT !.lang = l, !.args = a, !.old = clone'[c].sub[l]]
     IN  \/ run' = [run EXCEPT ![c] = [r EXCEPT !.status = "no_tags"]]
         \/ /\ r.old = "old"
            /\ run' = [run EXCEPT ![c] =
                         [r EXCEPT !.pc = IF Keep(a) THEN "look_up" ELSE "bump"]]
  /\ UNCHANGED <<origin, prs>>

\* existing_proposal: the branch is looked up on origin, then in the clone.  A
\* git ls-remote that fails prints nothing, as if there were no branch.
LookUp(c) ==
  /\ At(c, "look_up")
  /\ \E remote \in {origin[L(c)], NoBranch} :
       IF remote # NoBranch \/ clone[c].tips[L(c)] # NoBranch
       THEN End(c, "exists") ELSE Goto(c, "checkout_base")
  /\ RunOnly

\* Mutant: git checkout -B branch, from where HEAD is.
CheckoutHere(c) ==
  /\ At(c, "checkout_base")
  /\ clone' = [clone EXCEPT ![c].head = L(c), ![c].tips[L(c)] = Head(clone[c])]
  /\ Goto(c, "bump")
  /\ Local

\* git fetch, git checkout -B branch origin/main.  Local changes are carried
\* over; submodules are left as they are.
CheckoutBase(c) ==
  /\ At(c, "checkout_base")
  /\ \/ Leave(c, "failed") /\ UNCHANGED clone
     \/ LET k == clone[c]
            h == Head(k)
        IN  /\ h.items \subseteq k.work \cap k.index
            /\ clone' = [clone EXCEPT ![c] =
                 [k EXCEPT !.head = L(c), !.tips[L(c)] = Base,
                           !.work = @ \ h.items, !.index = @ \ h.items,
                           !.links = [l \in Lang |-> IF @[l] = h.links[l] THEN "old" ELSE @[l]]]]
            /\ Goto(c, "bump")
  /\ Local

\* update-grammar --skip-release: it fails before the submodule moves, or
\* moves it and fails to stage it (git add is not retried), or goes on to edit
\* languages-* and remove stale parsers.  Its own test-lang is not relied on.
Bump(c) ==
  /\ At(c, "bump")
  /\ \/ Leave(c, "failed") /\ UNCHANGED clone
     \/ /\ clone[c].dirt[L(c)] # "conflicting"
        /\ \E staged \in {"old", "new"}, edits \in SUBSET {<<L(c), "bump">>} :
             /\ staged = "old" => edits = {}
             /\ clone' = [clone EXCEPT ![c].sub[L(c)] = "new",
                                       ![c].links[L(c)] = IF staged = "new" THEN "new" ELSE @,
                                       ![c].work = @ \cup edits]
        /\ Goto(c, "snapshots")
  /\ Local

Rewritten == IF Inherited THEN {"modified", "conflicting"} ELSE {}

\* regenerate_snapshots, which raises when a dialect has another pin.
RegenerateSnapshots(c) ==
  /\ At(c, "snapshots")
  /\ \/ Leave(c, "failed") /\ UNCHANGED clone
     \/ /\ \E edits \in SUBSET {<<L(c), "bump">>},
              d \in {"clean"} \cup Rewritten :
             clone' = [clone EXCEPT ![c].work = @ \cup edits, ![c].dirt[L(c)] = d]
        /\ Goto(c, "test")
  /\ Local

\* A green test-lang, of what is in the work trees.  In a dry run main then
\* calls open_pr, which changes nothing but the status.
Green(c) ==
  run' = [run EXCEPT
    ![c].tested = [items |-> clone[c].work, links |-> clone[c].sub,
                   dirt |-> clone[c].dirt[L(c)]],
    ![c].status = IF "dry_run" \in run[c].args THEN "dry_run" ELSE "updated",
    ![c].pc = IF Keep(run[c].args) THEN "add" ELSE "reset_index"]

TestLang(c) ==
  /\ At(c, "test")
  /\ \/ Green(c)
     \/ Leave(c, "failed")
     \/ Goto(c, "agent")
  /\ RunOnly

\* The agent edits files anywhere, some of them, in the corpus, upstream's.
AgentEdits(c) ==
  \E edits \in Edits, d \in {clone[c].dirt[L(c)]} \cup Rewritten :
    clone' = [clone EXCEPT ![c].work = @ \cup edits, ![c].dirt[L(c)] = d]

\* Mutant: the status the agent reports is taken for the result of test-lang.
AgentTrusted(c) ==
  /\ At(c, "agent") /\ AgentEdits(c)
  /\ run' = [run EXCEPT ![c].status = "updated",
                        ![c].pc = IF Keep(run[c].args) THEN "add" ELSE "reset_index"]
  /\ Local

\* run_language_agent: errors of the SDK end it early, others are exceptions.
LanguageAgent(c) ==
  /\ At(c, "agent") /\ AgentEdits(c)
  /\ Goto(c, "retest") \/ Leave(c, "failed")
  /\ Local

\* Mutant: the agent is dispatched until test-lang passes.
RetestForever(c) ==
  /\ At(c, "retest")
  /\ Green(c) \/ Goto(c, "agent")
  /\ RunOnly

Retest(c) ==
  /\ At(c, "retest")
  /\ Green(c) \/ Leave(c, "failed")
  /\ RunOnly

\* git add -A, in the whole repository: everything but core/ and the result
\* artifact.
Add(c) ==
  /\ At(c, "add")
  /\ \/ Leave(c, "failed") /\ UNCHANGED clone
     \/ /\ clone' = [clone EXCEPT ![c].index = clone[c].work \ {Core}, ![c].links = clone[c].sub]
        /\ Goto(c, "commit")
  /\ Local

\* An interrupt that comes when the commit is made, but before the variable
\* committed says so, is followed by the reset.
Commit(c) ==
  /\ At(c, "commit")
  /\ \/ Leave(c, "failed") /\ UNCHANGED clone
     \/ /\ clone' = [clone EXCEPT ![c].tips[L(c)] =
                       [items |-> clone[c].index, links |-> clone[c].links]]
        /\ Goto(c, "push") \/ Leave(c, "interrupted")
  /\ Local

-----------------------------------------------------------------------------
(* open_pr *)

\* Mutant: git push --force.
PushForced(c) ==
  /\ At(c, "push")
  /\ origin' = [origin EXCEPT ![L(c)] = clone[c].tips[L(c)]]
  /\ Goto(c, "create_pr")
  /\ UNCHANGED <<clone, prs, started, left>>

\* origin refuses a branch that somebody else has pushed meanwhile.  An
\* exception in open_pr is caught by main, outside of the finally clause.
Push(c) ==
  /\ At(c, "push")
  /\ \/ End(c, "failed") /\ UNCHANGED origin
     \/ /\ origin[L(c)] = NoBranch
        /\ origin' = [origin EXCEPT ![L(c)] = clone[c].tips[L(c)]]
        /\ Goto(c, "create_pr")
  /\ UNCHANGED <<clone, prs, started, left>>

\* Mutant: the exit status of gh is not looked at.
CreatePRUnchecked(c) ==
  /\ At(c, "create_pr")
  /\ End(c, "updated")
  /\ prs' = [prs EXCEPT ![L(c)] = @ + 1] \/ UNCHANGED prs
  /\ UNCHANGED <<clone, origin, started, left>>

CreatePR(c) ==
  /\ At(c, "create_pr")
  /\ \/ End(c, "failed") /\ UNCHANGED prs
     \/ End(c, "updated") /\ prs' = [prs EXCEPT ![L(c)] = @ + 1]
  /\ UNCHANGED <<clone, origin, started, left>>

-----------------------------------------------------------------------------
(* reset_language_state: five commands, each retried while index.lock is    *)
(* held by somebody else and then given up without an error                 *)

NextReset(c, p, ok) ==
  run' = [run EXCEPT ![c].pc = p, ![c].tested = NotTested,
                     ![c].undone = IF ok THEN @ ELSE @ \cup {run[c].pc}]

GiveUp(c, p)  == NextReset(c, p, FALSE) /\ UNCHANGED clone
Locked(c, p)  == IndexLock /\ GiveUp(c, p)

\* Mutant: the index is left as git add -A made it.
ResetIndexSkipped(c) ==
  /\ At(c, "reset_index")
  /\ NextReset(c, "reset_files", TRUE)
  /\ RunOnly

\* git restore --staged .
ResetIndex(c) ==
  /\ At(c, "reset_index")
  /\ \/ Locked(c, "reset_files")
     \/ /\ clone' = [clone EXCEPT ![c].index = Head(clone[c]).items,
                                  ![c].links = Head(clone[c]).links]
        /\ NextReset(c, "reset_files", TRUE)
  /\ Local

\* git checkout -- lang, from the index.
ResetFiles(c) ==
  /\ At(c, "reset_files")
  /\ \/ Locked(c, "reset_submodule")
     \/ /\ clone' = [clone EXCEPT ![c].work = (clone[c].index \ {Core, Elsewhere}) \cup (@ \cap Untouched)]
        /\ NextReset(c, "reset_submodule", TRUE)
  /\ Local

Overwrites(c) == clone[c].dirt[L(c)] = "conflicting" /\ clone[c].sub[L(c)] # run[c].old

\* git checkout old_sha, in the submodule; git refuses when that would
\* overwrite local modifications.
ResetSubmodule(c) ==
  /\ At(c, "reset_submodule")
  /\ \/ Locked(c, "clean_submodule")
     \/ Overwrites(c) /\ GiveUp(c, "clean_submodule")
     \/ /\ ~Overwrites(c)
        /\ clone' = [clone EXCEPT ![c].sub[L(c)] = run[c].old]
        /\ NextReset(c, "clean_submodule", TRUE)
  /\ Local

\* git checkout -- . and git clean -fdq, in the submodule.
CleanSubmodule(c) ==
  /\ At(c, "clean_submodule")
  /\ \/ Locked(c, "idle")
     \/ /\ clone' = [clone EXCEPT ![c].dirt[L(c)] = "clean"]
        /\ NextReset(c, "idle", TRUE)
  /\ Local

-----------------------------------------------------------------------------
(* Interrupts and kills                                                     *)

\* The commands of the reset from p on.
From == [reset_index     |-> InReset,
         reset_files     |-> InReset \ {"reset_index"},
         reset_submodule |-> {"reset_submodule", "clean_submodule"},
         clean_submodule |-> {"clean_submodule"}]

\* Nothing catches an interrupt of the finally clause itself, while a command
\* runs or index.lock is waited for: the rest of the reset is not done.
CutShort(c) ==
  /\ run[c].pc \in InReset
  /\ run' = [run EXCEPT ![c].pc = "idle", ![c].status = "interrupted", ![c].tested = NotTested,
                        ![c].undone = @ \cup From[run[c].pc]]

\* KeyboardInterrupt: not an Exception, so only the finally clause runs.
Interrupt(c) ==
  /\ \/ At(c, "look_up") /\ End(c, "none")
     \/ run[c].pc \in InTry /\ Leave(c, "interrupted")
     \/ run[c].pc \in InOpenPR /\ End(c, "interrupted")
     \/ CutShort(c)
  /\ RunOnly

\* External: the job of the workflow is killed, at its timeout for one, and
\* its clone is gone.
Kill(c) ==
  /\ Fresh /\ ~At(c, "idle")
  /\ End(c, "killed")
  /\ clone' = [clone EXCEPT ![c] = NewClone]
  /\ Local

Propose(c) == CheckoutBase(c) \/ Bump(c) \/ RegenerateSnapshots(c) \/ TestLang(c)
                \/ LanguageAgent(c) \/ Retest(c) \/ Add(c) \/ Commit(c)
OpenPR(c)  == Push(c) \/ CreatePR(c)
Reset(c)   == ResetIndex(c) \/ ResetFiles(c) \/ ResetSubmodule(c) \/ CleanSubmodule(c)

Step(c) == LookUp(c) \/ Propose(c) \/ OpenPR(c) \/ Reset(c)

Next == \E c \in Clone :
  \/ \E l \in Lang, a \in Args : Start(c, l, a)
  \/ Step(c) \/ Interrupt(c) \/ Kill(c)

Spec == Init /\ [][Next]_vars

\* A command that was started ends: git and gh with an answer, the agent by
\* the caps of its runner.
FairSpec == Spec /\ \A c \in Clone : WF_vars(Step(c))

-----------------------------------------------------------------------------
(* Properties *)

\* "The validated tree": what reaches origin is what the last green test-lang
\* of that run has seen, edits of the agent included (submodules by commit),
\* except for core/: what is edited there is tested and not committed.
PushedIsTested ==
  [][\A l \in Lang : origin'[l] # origin[l] =>
       \E c \in Clone : /\ run[c].lang = l /\ ~At(c, "idle")
                        /\ run[c].tested.items \ {Core} = origin'[l].items
                        /\ run[c].tested.links = origin'[l].links]_vars

\* Two runs that propose the same tag at the same time, or one after a crash
\* of another: one branch, never replaced, and at most one PR.
OneProposal ==
  [][\A l \in Lang : /\ origin[l] # NoBranch => origin'[l] = origin[l]
                     /\ prs'[l] # prs[l] => prs[l] = 0 /\ origin[l] # NoBranch]_vars

\* Status "updated" of a run that was to open a PR: the PR is open and the
\* clone is on the branch that is on origin.
UpdatedMeansPR ==
  \A c \in Clone :
    At(c, "idle") /\ run[c].status = "updated" /\ Keep(run[c].args) =>
      /\ prs[run[c].lang] = 1
      /\ clone[c].head = run[c].lang
      /\ origin[run[c].lang] = clone[c].tips[run[c].lang]

\* A run that ends without a commit, by an exception or an interrupt of its try
\* block too, resets its clone, and whatever a command of the reset put back
\* stays so when others are given up or cut short by one more interrupt: the
\* index is HEAD's; tracked files of lang/ are those of the index; the
\* submodule is at the commit it had; it has no modification.
Restored ==
  \A c \in Clone :
    LET k == clone[c]
        committed == k.tips[L(c)] \notin {NoBranch, Base} /\ Keep(run[c].args)
        put(step) == step \notin run[c].undone
    IN  At(c, "idle") /\ run[c].status \in {"updated", "dry_run", "failed", "interrupted"} /\ ~committed =>
        /\ put("reset_index") => k.index = Head(k).items /\ k.links = Head(k).links
        /\ put("reset_files") => k.work \ Untouched = k.index \ Untouched
        /\ put("reset_submodule") => k.sub[L(c)] = run[c].old
        /\ put("clean_submodule") => k.dirt[L(c)] = "clean"

\* Several runs in one clone: git checkout -B leaves the submodules of earlier
\* runs where they are, and carries local changes over.  What is pushed has of
\* another language only a submodule whose own update was committed in the same
\* clone, or which its reset did not put back, and files of its bump only if
\* their reset was not done: what failed and was reset never leaks.
CarriedOver ==
  [][\A l \in Lang : origin'[l] # origin[l] =>
       \E c \in Clone :
         /\ run[c].lang = l /\ At(c, "push")
         /\ \A m \in Lang \ {l} :
              /\ origin'[l].links[m] = "new" =>
                   clone[c].tips[m] \notin {NoBranch, Base} \/ <<m, "submodule">> \in left[c]
              /\ <<m, "bump">> \in origin'[l].items => <<m, "files">> \in left[c]]_vars

\* Every run ends, whatever fails: the agent is dispatched once.
RunsEnd == \A c \in Clone : ~At(c, "idle") ~> At(c, "idle")
=============================================================================
