------------------------------ MODULE Release ------------------------------
(***************************************************************************)
(* From a new commit of a grammar to the generated parser in the downstream *)
(* repositories: scripts/update-grammar, lang/release, and the release part *)
(* of scripts/propose-grammar-update, on one language with its dialects.   *)
(*                                                                         *)
(* A developer (or a job of the workflow, then in clones of its own) runs  *)
(* one command at a time; every step of one can fail, which ends it, and   *)
(* it can be killed.  The content of a commit of this repository is the    *)
(* commit of the grammar's submodule and the version lists under lang/.    *)
(* A commit downstream says which content it was released from, and has    *)
(* the parser of a grammar.json, which is no part of this repository: it   *)
(* stays in a clone as it was built there last.                            *)
(***************************************************************************)
EXTENDS Naturals, Sequences, FiniteSets, SequencesExt

CONSTANTS
  Commits, FirstCommit,    (* of the submodule                             *)
  Versions, FirstVersion,  (* of tree-sitter                               *)
  Language, ListName,      (* as given, and as listed in languages-*       *)
  Dialects,                (* LANGUAGE_VARIANTS of the list name           *)
  Repos,                   (* the dialects with a downstream repository    *)
  MaxJobs, MaxEvents       (* commands, and what happens elsewhere         *)

ASSUME ReleaseAssumption ==
  /\ FirstCommit \in Commits /\ FirstVersion \in Versions
  /\ Language \in Repos /\ Repos \subseteq Dialects
  /\ IsFiniteSet(Versions) /\ {MaxJobs, MaxEvents} \subseteq Nat

VARIABLES
  own,       (* whether each job has clones of its own                     *)
  branches,  (* of this repository, in the clone: name to content          *)
  head,      (* the branch that is checked out                             *)
  work,      (* the content of the work tree                               *)
  built,     (* the submodule's commit that grammar.json was built from    *)
  origin,    (* the branches of this repository on GitHub                  *)
  export,    (* the clones under lang/export                               *)
  remote,    (* the downstream repositories: dialect to branch to history  *)
  prs,       (* pull requests downstream: dialect and branch               *)
  job,       (* the command that runs                                      *)
  tested,    (* the contents that passed test-lang                         *)
  reported,  (* what propose-grammar-update --release said is released     *)
  jobs, events

outer == <<branches, head, work>>
vars  == <<own, outer, built, origin, export, remote, prs, job, tested, reported, jobs, events>>

Families == {"languages", "variants"}
Names(family) == IF family = "languages" THEN {ListName} ELSE Dialects

Main        == <<"main">>
Update(c)   == <<"update", c>>           \* $USER/update-<lang>-<sha>
Proposal(c) == <<"grammar-update", c>>   \* grammar-update/<lang>/<tag>

Lists(version) ==
  [family \in Families |->
     [v \in Versions |-> IF v = version THEN Names(family) ELSE {}]]

Content(c, version) == [pin |-> c, lists |-> Lists(version)]
First == Content(FirstCommit, FirstVersion)

NotBuilt == "not built"

\* Downstream: the files of a content and of a grammar, and back.
From(content, g) == [pin |-> content.pin, lists |-> content.lists, grammar |-> g]
Tree(files)      == [pin |-> files.pin, lists |-> files.lists]
Mixed == [From(First, FirstCommit) EXCEPT !.pin = "mixed"]   \* files of two releases

Idle == [pc |-> "idle", caller |-> "user", ref |-> FirstCommit, version |-> FirstVersion,
         skip |-> FALSE, family |-> "languages", dialect |-> Language, todo |-> {},
         branch |-> Main, named |-> FALSE, dry |-> FALSE]

Init ==
  /\ own \in BOOLEAN
  /\ branches = [b \in {Main} |-> First] /\ head = Main /\ work = First
  /\ origin = [b \in {Main} |-> First]
  /\ export = <<>>
  /\ remote = [d \in Repos |-> [b \in {Main} |-> <<From(First, FirstCommit)>>]]
  /\ built = NotBuilt
  /\ prs = {} /\ job = Idle /\ tested = {First} /\ reported = {}
  /\ jobs = 0 /\ events = 0

Put(f, x, y) == [z \in DOMAIN f \cup {x} |-> IF z = x THEN y ELSE f[z]]

\* git status --porcelain is not empty
Dirty == work # branches[head]

-----------------------------------------------------------------------------
(* update-grammar *)

\* mutant: nobody looks at the work tree
require_clean_worktreeNot == TRUE

require_clean_worktree == ~Dirty

update_grammar(ref, version, skip) ==
  /\ ~own /\ job.pc = "idle" /\ jobs < MaxJobs
  /\ skip \/ require_clean_worktree
  /\ job' = [Idle EXCEPT !.pc = "submodule", !.caller = "update", !.ref = ref,
                         !.version = version, !.skip = skip]
  /\ jobs' = jobs + 1
  /\ UNCHANGED <<own, outer, built, origin, export, remote, prs, tested, reported, events>>

update_submodule ==
  /\ job.pc = "submodule"
  /\ work' = [work EXCEPT !.pin = job.ref]
  /\ job' = [job EXCEPT !.pc = IF job.skip THEN "sync" ELSE "branch"]
  /\ UNCHANGED <<own, branches, head, built, origin, export, remote, prs, tested, reported, jobs, events>>

\* git checkout keeps a submodule that was moved, if the branches agree on
\* it or the new one has it as it is.
can_checkout(b) ==
  /\ work.lists = branches[head].lists
  /\ work.pin \in {branches[head].pin, branches[b].pin} \/ branches[head].pin = branches[b].pin

ensure_on_branch ==
  LET b == Update(job.ref)
  IN  /\ job.pc = "branch"
      /\ b \in DOMAIN branches => can_checkout(b)
      /\ branches' = IF b \in DOMAIN branches THEN branches ELSE Put(branches, b, branches[head])
      /\ head' = b
      /\ work' = [work EXCEPT !.lists = branches'[b].lists]
      /\ job' = [job EXCEPT !.pc = "sync"]
      /\ UNCHANGED <<own, built, origin, export, remote, prs, tested, reported, jobs, events>>

\* the files other than the version's own that list one of the names
others(family) ==
  {v \in Versions \ {job.version} : work.lists[family][v] \cap Names(family) # {}}

\* mutant: the name is moved in both files, the other dialects in none
sync_membershipListName ==
  LET fam    == job.family
      listed == {v \in others(fam) : ListName \in work.lists[fam][v]}
  IN  /\ job.pc = "sync"
      /\ IF listed # {}
         THEN /\ \E v \in listed : work' = [work EXCEPT !.lists[fam][v] = @ \ {ListName}]
              /\ UNCHANGED job
         ELSE /\ work' = [work EXCEPT !.lists[fam][job.version] = @ \cup {ListName}]
              /\ job' = IF fam = "languages" THEN [job EXCEPT !.family = "variants"]
                                             ELSE [job EXCEPT !.pc = "test"]
      /\ UNCHANGED <<own, branches, head, built, origin, export, remote, prs, tested, reported, jobs, events>>

\* One write of sync_membership: a name is taken out of another file, or, at
\* last, all names are put into the file of the version.
sync_membership ==
  LET fam == job.family
  IN  /\ job.pc = "sync"
      /\ IF others(fam) # {}
         THEN /\ \E v \in others(fam) : \E n \in work.lists[fam][v] \cap Names(fam) :
                   work' = [work EXCEPT !.lists[fam][v] = @ \ {n}]
              /\ UNCHANGED job
         ELSE /\ work' = [work EXCEPT !.lists[fam][job.version] = @ \cup Names(fam)]
              /\ job' = IF fam = "languages" THEN [job EXCEPT !.family = "variants"]
                                             ELSE [job EXCEPT !.pc = "test"]
      /\ UNCHANGED <<own, branches, head, built, origin, export, remote, prs, tested, reported, jobs, events>>

pins(lists, name) == {v \in Versions : \E fam \in Families : name \in lists[fam][v]}

version_for_lang(lists, name) == Cardinality(pins(lists, name)) = 1

\* The extended parser is built from nothing, and its tests pass.
build_grammar ==
  /\ job.pc = "test"
  /\ built' = work.pin
  /\ job' = [job EXCEPT !.pc = "test_langs"]
  /\ UNCHANGED <<own, outer, origin, export, remote, prs, tested, reported, jobs, events>>

test_lang ==
  /\ job.pc = "test_langs"
  /\ \A n \in {ListName} \cup Dialects : version_for_lang(work.lists, n)
  /\ tested' = tested \cup {work}
  /\ job' = IF job.skip THEN Idle ELSE [job EXCEPT !.pc = "commit"]
  /\ UNCHANGED <<own, outer, built, origin, export, remote, prs, reported, jobs, events>>

commit_changes ==
  /\ job.pc = "commit"
  /\ branches' = [branches EXCEPT ![head] = work]
  /\ job' = [job EXCEPT !.pc = "release", !.branch = head, !.named = TRUE]
  /\ UNCHANGED <<own, head, work, built, origin, export, remote, prs, tested, reported, jobs, events>>

-----------------------------------------------------------------------------
(* lang/release.  A clone has the branch that is checked out, its local    *)
(* branches and what it knows of those of the repository, and the content  *)
(* that its files were generated from.                                     *)

\* make -C semgrep-grammars: what was built from another commit is up to date.
make_grammars ==
  /\ ~own /\ job.pc = "idle"
  /\ built = NotBuilt
  /\ built' = work.pin
  /\ UNCHANGED <<own, outer, origin, export, remote, prs, job, tested, reported, jobs, events>>

\* That test-lang was run is not looked at.
release(d, b, named, dry) ==
  /\ ~own /\ job.pc = "idle" /\ jobs < MaxJobs
  /\ job' = [Idle EXCEPT !.pc = "release", !.dialect = d, !.branch = b, !.named = named, !.dry = dry]
  /\ jobs' = jobs + 1
  /\ UNCHANGED <<own, outer, built, origin, export, remote, prs, tested, reported, events>>

clone ==
  LET d == job.dialect
  IN  /\ job.pc = "release"
      /\ job.dry \/ require_clean_worktree
      /\ export' = IF d \in DOMAIN export THEN export
                   ELSE Put(export, d, [head |-> Main, local |-> [b \in {Main} |-> remote[d][Main]],
                                        known |-> remote[d], files |-> Last(remote[d][Main])])
      /\ job' = [job EXCEPT !.pc = "checkout"]
      /\ UNCHANGED <<own, outer, built, origin, remote, prs, tested, reported, jobs, events>>

Changed(e) == e.files # Last(e.local[e.head])

\* git pull --ff-only: into files that were changed, nothing can be pulled.
pulled(e, b, history) ==
  IF IsPrefix(history, e.local[b]) THEN e
  ELSE [e EXCEPT !.local[b] = history, !.files = Last(history)]

can_pull(e, b, history) ==
  \/ IsPrefix(history, e.local[b])
  \/ IsPrefix(e.local[b], history) /\ ~Changed(e)

\* git checkout of a branch that is known, which makes a local one
switched(e, b) ==
  LET local == IF b \in DOMAIN e.local THEN e.local ELSE Put(e.local, b, e.known[b])
  IN  [e EXCEPT !.head = b, !.local = local,
                !.files = IF Changed(e) THEN e.files ELSE Last(local[b])]

can_switch(e, b) ==
  \/ ~Changed(e)
  \/ Last(e.local[e.head]) = Last(IF b \in DOMAIN e.local THEN e.local[b] ELSE e.known[b])

checkout_existing ==
  LET d == job.dialect
      e == export[d]
      b == IF job.named THEN job.branch ELSE e.head
  IN  /\ job.pc = "checkout"
      /\ job.named => b \in DOMAIN e.known /\ can_switch(e, b)
      /\ b \in DOMAIN remote[d]
      /\ LET at == IF job.named THEN switched(e, b) ELSE e
         IN  /\ can_pull(at, b, remote[d][b])
             /\ export' = [export EXCEPT ![d] =
                             [pulled(at, b, remote[d][b]) EXCEPT !.known = Put(@, b, remote[d][b])]]
      /\ job' = [job EXCEPT !.pc = "gen", !.branch = b]
      /\ UNCHANGED <<own, outer, built, origin, remote, prs, tested, reported, jobs, events>>

\* git checkout -b fails if there is such a branch.
checkout_new ==
  LET d == job.dialect
      e == export[d]
      b == job.branch
  IN  /\ job.pc = "checkout" /\ job.named
      /\ b \notin DOMAIN e.known \cup DOMAIN e.local
      /\ export' = [export EXCEPT ![d] = [e EXCEPT !.head = b, !.local = Put(@, b, e.local[e.head])]]
      /\ job' = [job EXCEPT !.pc = "gen"]
      /\ UNCHANGED <<own, outer, built, origin, remote, prs, tested, reported, jobs, events>>

gen_and_copy ==
  /\ job.pc = "gen"
  /\ built # NotBuilt
  /\ version_for_lang(work.lists, job.dialect)
  /\ export' = [export EXCEPT ![job.dialect].files = From(work, built)]
  /\ job' = [job EXCEPT !.pc = "commit_release"]
  /\ UNCHANGED <<own, outer, built, origin, remote, prs, tested, reported, jobs, events>>

\* The end of a release that did not fail.
released(j) == IF j.caller = "propose" THEN [j EXCEPT !.pc = "pr"] ELSE Idle

commit_release ==
  LET d == job.dialect
      e == export[d]
  IN  /\ job.pc = "commit_release"
      /\ IF Changed(e) /\ ~job.dry
         THEN /\ export' = [export EXCEPT ![d].local[e.head] = Append(@, e.files)]
              /\ job' = [job EXCEPT !.pc = "push"]
         ELSE job' = released(job) /\ UNCHANGED export
      /\ UNCHANGED <<own, outer, built, origin, remote, prs, tested, reported, jobs, events>>

push ==
  LET d == job.dialect
      b == job.branch
      h == export[d].local[b]
  IN  /\ job.pc = "push"
      /\ b \in DOMAIN remote[d] => IsPrefix(remote[d][b], h)
      /\ remote' = [remote EXCEPT ![d] = Put(@, b, h)]
      /\ export' = [export EXCEPT ![d].known = Put(@, b, h)]
      /\ job' = released(job)
      /\ UNCHANGED <<own, outer, built, origin, prs, tested, reported, jobs, events>>

-----------------------------------------------------------------------------
(* propose-grammar-update --release --result *)

\* mutant: the dialects are looked up by the wrong name
release_dialectsSelf == {Language}

release_dialects == Dialects \cap Repos

\* git fetch, git checkout: a local branch of the name is taken as it is.
run_release(c, dry) ==
  LET b    == Proposal(c)
      at   == IF own THEN [branches |-> [n \in {Main} |-> origin[Main]], head |-> Main,
                           work |-> origin[Main], export |-> <<>>]
              ELSE [branches |-> branches, head |-> head, work |-> work, export |-> export]
  IN  /\ job.pc = "idle" /\ jobs < MaxJobs
      /\ b \in DOMAIN origin
      /\ own \/ (b \in DOMAIN branches => can_checkout(b))
      /\ branches' = IF b \in DOMAIN at.branches THEN at.branches ELSE Put(at.branches, b, origin[b])
      /\ head' = b
      /\ work' = branches'[b]   \* git submodule update
      /\ export' = at.export
      /\ built' = IF own THEN NotBuilt ELSE built
      /\ \E d \in release_dialects :
           job' = [Idle EXCEPT !.pc = "release", !.caller = "propose", !.ref = c, !.dialect = d,
                               !.todo = release_dialects \ {d}, !.branch = b, !.named = TRUE, !.dry = dry]
      /\ jobs' = jobs + 1
      /\ UNCHANGED <<own, origin, remote, prs, tested, reported, events>>

\* gh pr create needs a branch that has something that the main one has not.
open_downstream_pr ==
  LET d == job.dialect
      b == job.branch
  IN  /\ job.pc = "pr"
      /\ \/ job.dry /\ UNCHANGED prs
         \/ <<d, b>> \in prs /\ UNCHANGED prs
         \/ /\ ~job.dry /\ <<d, b>> \notin prs
            /\ b \in DOMAIN remote[d] /\ ~IsPrefix(remote[d][b], remote[d][Main])
            /\ prs' = prs \cup {<<d, b>>}
      /\ IF job.todo = {}
         THEN /\ job' = Idle
              /\ reported' = IF job.dry THEN reported ELSE reported \cup {<<b, branches[head]>>}
         ELSE /\ \E next \in job.todo :
                   job' = [job EXCEPT !.pc = "release", !.dialect = next, !.todo = @ \ {next}]
              /\ UNCHANGED reported
      /\ UNCHANGED <<own, outer, built, origin, export, remote, tested, jobs, events>>

-----------------------------------------------------------------------------
(* What happens to a command, and elsewhere *)

\* A step fails, or the command is killed, maybe when some files are copied.
fail ==
  /\ job.pc # "idle"
  /\ job' = Idle
  /\ \/ UNCHANGED export
     \/ job.pc = "gen" /\ built # NotBuilt /\ export' = [export EXCEPT ![job.dialect].files = Mixed]
  /\ built' \in IF job.pc = "test" THEN {built, NotBuilt, work.pin} ELSE {built}
  /\ UNCHANGED <<own, outer, origin, remote, prs, tested, reported, jobs, events>>

\* The developer undoes what a command left.
tidy ==
  /\ job.pc = "idle" /\ (Dirty \/ head # Main)
  /\ \E b \in {head, Main} : head' = b /\ work' = branches[b]
  /\ UNCHANGED <<own, branches, built, origin, export, remote, prs, job, tested, reported, jobs, events>>

\* A proposal is validated and pushed by a job of propose-grammar-update.
publish(c, version) ==
  /\ events < MaxEvents
  /\ origin' = Put(origin, Proposal(c), Content(c, version))
  /\ tested' = tested \cup {Content(c, version)}
  /\ events' = events + 1
  /\ UNCHANGED <<own, outer, built, export, remote, prs, job, reported, jobs>>

\* Somebody else pushes downstream: a merge, or a release from another clone.
other_push(d, b) ==
  /\ events < MaxEvents
  /\ b \in DOMAIN remote[d]
  /\ \E x \in {From(y, y.pin) : y \in tested} \ {Last(remote[d][b])} :
       remote' = [remote EXCEPT ![d][b] = Append(@, x)]
  /\ events' = events + 1
  /\ UNCHANGED <<own, outer, built, origin, export, prs, job, tested, reported, jobs>>

Next ==
  \/ \E ref \in Commits, version \in Versions, skip \in BOOLEAN : update_grammar(ref, version, skip)
  \/ update_submodule \/ ensure_on_branch \/ sync_membership \/ build_grammar \/ test_lang \/ commit_changes
  \/ \E d \in Repos, dry \in BOOLEAN :
       \/ release(d, Main, FALSE, dry)
       \/ \E c \in Commits : release(d, Update(c), TRUE, dry)
  \/ make_grammars \/ clone \/ checkout_existing \/ checkout_new \/ gen_and_copy \/ commit_release \/ push
  \/ \E c \in Commits, dry \in BOOLEAN : run_release(c, dry)
  \/ open_downstream_pr
  \/ fail \/ tidy
  \/ \E c \in Commits, version \in Versions : publish(c, version)
  \/ \E d \in Repos : \E b \in DOMAIN remote[d] : other_push(d, b)

Spec == Init /\ [][Next]_vars

-----------------------------------------------------------------------------
(* Properties *)

\* Whatever commands were killed and run again before, every commit of this
\* repository pins each name of the language to one version, and all of them
\* to the same.
OnePin ==
  \A b \in DOMAIN branches :
    \E v \in Versions : \A n \in {ListName} \cup Dialects : pins(branches[b].lists, n) = {v}

\* Everything downstream says that it was released from what test-lang has
\* passed on, never from what a command left half done in a work tree or in a
\* clone; and what update-grammar releases has the parser of that grammar,
\* since test-lang builds it.
ReleasedWasTested ==
  /\ \A d \in Repos : \A b \in DOMAIN remote[d] : \A k \in DOMAIN remote[d][b] :
       Tree(remote[d][b][k]) \in tested
  /\ job.caller = "update" /\ job.pc \in {"commit_release", "push"} =>
       export[job.dialect].files = From(work, work.pin)

\* What propose-grammar-update says is released has a pull request in the
\* repository of every dialect, for the branch that the commit of the grammar
\* is named in, and was committed in the clone of that repository.
ReportedIsReleased ==
  \A r \in reported : \A d \in Repos :
    /\ <<d, r[1]>> \in prs
    /\ r[2].pin = r[1][2]
    /\ \E k \in DOMAIN export[d].local[r[1]] : Tree(export[d].local[r[1]][k]) = r[2]

\* What propose-grammar-update releases is generated from the tree that it
\* checked out (scripts/propose-grammar-update:1563-1567).
RegeneratesThisTree ==
  job.caller = "propose" /\ job.pc = "gen" => built = work.pin
=============================================================================
