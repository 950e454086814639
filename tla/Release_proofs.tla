---------------------------- MODULE Release_proofs ---------------------------
(***************************************************************************)
(* Every commit pins one version, what Release has downstream was tested,  *)
(* and what it reports is downstream: for every grammar, every set of      *)
(* versions, commits and dialects, and any number of commands that fail or *)
(* are killed and are run again.                                           *)
(***************************************************************************)
EXTENDS Release, FiniteSetTheorems, TLAPS

AllNames    == {ListName} \cup Dialects
ListsType   == [Families -> [Versions -> SUBSET AllNames]]
ContentType == [pin : Commits, lists : ListsType]

OneVersion(lists) == \E v \in Versions : \A n \in AllNames : pins(lists, n) = {v}

GoodBranches(f) ==
  /\ Main \in DOMAIN f
  /\ \A b \in DOMAIN f : f[b] \in ContentType /\ OneVersion(f[b].lists)

Places == {"idle", "submodule", "branch", "sync", "test", "test_langs", "commit",
           "release", "checkout", "gen", "commit_release", "push", "pr"}

\* Of what decides nothing about versions, only that it is a field.
JobType == [pc : Places, caller : {"user", "update", "propose"}, ref : Commits,
            version : Versions, skip : BOOLEAN, family : Families,
            dialect : {job.dialect}, todo : {job.todo}, branch : {job.branch},
            named : {job.named}, dry : {job.dry}]

\* The names of a family are written to the file of the version.
Written(family) == Names(family) \subseteq work.lists[family][job.version]

InvJob == job \in JobType
InvWork == head \in DOMAIN branches /\ work \in ContentType
InvSync ==
  /\ job.pc \in {"submodule", "branch"} => job.family = "languages"
  /\ job.pc = "sync" /\ job.family = "variants" => Written("languages")
  /\ job.pc \in {"test", "test_langs"} => Written("languages") /\ Written("variants")
  /\ job.pc = "commit" => OneVersion(work.lists)

IInv == /\ InvJob /\ InvWork /\ InvSync
        /\ GoodBranches(branches) /\ GoodBranches(origin)

-----------------------------------------------------------------------------
USE ReleaseAssumption

\* The lists of a content that was made for a version have that version.
LEMMA ContentGood ==
  ASSUME NEW c \in Commits, NEW version \in Versions
  PROVE  Content(c, version) \in ContentType /\ OneVersion(Content(c, version).lists)
<1>1. \A f \in Families : Names(f) \subseteq AllNames
  BY DEF Names, AllNames
<1>2. Lists(version) \in ListsType
  BY <1>1 DEF Lists, ListsType
<1>3. \A n \in AllNames : pins(Lists(version), n) = {version}
  <2> TAKE n \in AllNames
  <2>1. \E f \in Families : n \in Names(f)
    BY DEF AllNames, Names, Families
  <2>2. \A v \in Versions, f \in Families :
          n \in Lists(version)[f][v] <=> v = version /\ n \in Names(f)
    BY DEF Lists
  <2> QED BY <2>1, <2>2 DEF pins
<1> QED BY <1>2, <1>3 DEF Content, ContentType, OneVersion

\* What test-lang asks of each name, and what sync_membership has written,
\* make the versions of all names one.
LEMMA TestedGood ==
  ASSUME work \in ContentType, job.version \in Versions,
         Written("languages"), Written("variants"),
         \A n \in AllNames : version_for_lang(work.lists, n)
  PROVE  OneVersion(work.lists)
<1> SUFFICES ASSUME NEW n \in AllNames PROVE pins(work.lists, n) = {job.version}
  BY DEF OneVersion
<1>1. job.version \in pins(work.lists, n)
  BY DEF Written, pins, Names, AllNames, Families
<1>2. IsFiniteSet(pins(work.lists, n))
  <2>1. pins(work.lists, n) \in SUBSET Versions
    BY DEF pins
  <2> QED BY <2>1, FS_Subset
<1>3. Cardinality(pins(work.lists, n)) = 1
  BY DEF version_for_lang
<1>4. \E x : pins(work.lists, n) = {x}
  BY <1>2, <1>3, FS_Singleton
<1> QED BY <1>1, <1>4

LEMMA PutGood ==
  ASSUME NEW f, GoodBranches(f), NEW b, NEW x \in ContentType, OneVersion(x.lists)
  PROVE  GoodBranches(Put(f, b, x))
BY DEF GoodBranches, Put

\* A step that leaves the repository alone, and goes to a place where nothing
\* is asked of the work tree.
LEMMA Frame ==
  ASSUME IInv, UNCHANGED <<branches, head, work, origin>>,
         InvJob', job'.pc \notin {"submodule", "branch", "sync", "test", "test_langs", "commit"}
  PROVE  IInv'
<1>1. InvWork' BY DEF IInv, InvWork
<1>2. InvSync' BY DEF InvSync
<1>3. GoodBranches(branches') BY DEF IInv
<1>4. GoodBranches(origin') BY DEF IInv
<1> QED BY <1>1, <1>2, <1>3, <1>4 DEF IInv

LEMMA InitIInv == Init => IInv
<1> SUFFICES ASSUME Init PROVE IInv
  OBVIOUS
<1>1. First \in ContentType /\ OneVersion(First.lists)
  BY ContentGood DEF First
<1>2. GoodBranches(branches) /\ GoodBranches(origin)
  BY <1>1 DEF Init, GoodBranches
<1>3. InvJob
  BY DEF Init, Idle, InvJob, JobType, Places, Families
<1>4. InvWork /\ InvSync
  BY <1>1 DEF Init, InvWork, InvSync, Idle
<1> QED BY <1>2, <1>3, <1>4 DEF IInv

-----------------------------------------------------------------------------
(* The steps that change the repository, or ask something of the work tree *)

LEMMA UpdateGrammar ==
  ASSUME IInv, NEW ref \in Commits, NEW version \in Versions, NEW skip \in BOOLEAN,
         update_grammar(ref, version, skip)
  PROVE  IInv'
<1>1. InvJob'
  BY DEF update_grammar, Idle, InvJob, JobType, Places, Families
<1>2. job'.pc = "submodule" /\ job'.family = "languages"
  BY DEF update_grammar, Idle
<1>3. InvWork' /\ GoodBranches(branches') /\ GoodBranches(origin')
  BY DEF update_grammar, outer, IInv, InvWork
<1>4. InvSync'
  BY <1>2 DEF InvSync
<1> QED BY <1>1, <1>3, <1>4 DEF IInv

LEMMA UpdateSubmodule == ASSUME IInv, update_submodule PROVE IInv'
<1>1. InvJob'
  BY DEF IInv, InvJob, JobType, Places, update_submodule
<1>2. job'.pc \in {"sync", "branch"} /\ job'.family = "languages"
  BY DEF IInv, InvJob, JobType, InvSync, update_submodule
<1>3. work' \in ContentType
  BY DEF IInv, InvJob, JobType, InvWork, ContentType, update_submodule
<1>4. InvWork' /\ GoodBranches(branches') /\ GoodBranches(origin')
  BY <1>3 DEF update_submodule, IInv, InvWork
<1>5. InvSync'
  BY <1>2 DEF InvSync
<1> QED BY <1>1, <1>4, <1>5 DEF IInv

LEMMA EnsureOnBranch == ASSUME IInv, ensure_on_branch PROVE IInv'
<1> DEFINE b == Update(job.ref)
<1>1. GoodBranches(branches') /\ b \in DOMAIN branches'
  <2>1. CASE b \in DOMAIN branches
    BY <2>1 DEF ensure_on_branch, IInv
  <2>2. CASE b \notin DOMAIN branches
    <3>1. branches' = Put(branches, b, branches[head])
      BY <2>2 DEF ensure_on_branch
    <3>2. branches[head] \in ContentType /\ OneVersion(branches[head].lists)
      BY DEF IInv, InvWork, GoodBranches
    <3>3. b \in DOMAIN Put(branches, b, branches[head])
      BY DEF Put
    <3> QED BY <3>1, <3>2, <3>3, PutGood DEF IInv
  <2> QED BY <2>1, <2>2
<1>2. head' = b /\ work' = [work EXCEPT !.lists = branches'[b].lists] /\ origin' = origin
  BY DEF ensure_on_branch
<1>3. work' \in ContentType
  BY <1>1, <1>2 DEF GoodBranches, ContentType, IInv, InvWork
<1>4. InvJob'
  BY DEF IInv, InvJob, JobType, Places, ensure_on_branch
<1>5. job'.pc = "sync" /\ job'.family = "languages"
  BY DEF IInv, InvJob, JobType, InvSync, ensure_on_branch
<1>6. InvSync'
  BY <1>5 DEF InvSync
<1> QED BY <1>1, <1>2, <1>3, <1>4, <1>6 DEF IInv, InvWork

LEMMA WriteType ==
  ASSUME NEW w \in ContentType, NEW f \in Families, NEW v \in Versions, NEW names \in SUBSET AllNames
  PROVE  [w EXCEPT !.lists[f][v] = names] \in ContentType
<1> DEFINE row   == [w.lists[f] EXCEPT ![v] = names]
           lists == [w.lists EXCEPT ![f] = row]
<1>1. row \in [Versions -> SUBSET AllNames]
  BY DEF ContentType, ListsType
<1>2. lists \in ListsType
  BY <1>1 DEF ContentType, ListsType
<1>3. [w EXCEPT !.lists[f][v] = names] = [w EXCEPT !.lists = lists]
  OBVIOUS
<1> HIDE DEF lists
<1> QED BY <1>2, <1>3 DEF ContentType

\* A write keeps what was written to the file of the version.
LEMMA SyncMembership == ASSUME IInv, sync_membership PROVE IInv'
<1> DEFINE fam == job.family
<1>1. work \in ContentType /\ fam \in Families /\ job.version \in Versions /\ job.pc = "sync"
  BY DEF IInv, InvWork, InvJob, JobType, sync_membership
<1>2. Names(fam) \subseteq AllNames
  BY DEF Names, AllNames
<1>3. UNCHANGED <<branches, head, origin>>
  BY DEF sync_membership
<1>4. CASE others(fam) # {}
  <2>1. PICK v \in Versions \ {job.version} :
          \E n \in work.lists[fam][v] \cap Names(fam) : work' = [work EXCEPT !.lists[fam][v] = @ \ {n}]
    BY <1>4 DEF sync_membership, others
  <2>2. PICK n : work' = [work EXCEPT !.lists[fam][v] = @ \ {n}]
    BY <2>1
  <2>3. work' \in ContentType
    <3>1. work.lists[fam][v] \ {n} \in SUBSET AllNames
      BY <1>1 DEF ContentType, ListsType
    <3> QED BY <1>1, <2>2, <3>1, WriteType
  <2>4. \A f \in Families : work'.lists[f][job.version] = work.lists[f][job.version]
    BY <1>1, <2>2 DEF ContentType, ListsType
  <2>5. job' = job
    BY <1>4 DEF sync_membership
  <2>6. InvSync'
    BY <1>1, <2>4, <2>5 DEF IInv, InvSync, Written, Families
  <2>7. InvJob'
    BY <2>5 DEF IInv, InvJob, JobType
  <2> QED BY <1>3, <2>3, <2>6, <2>7 DEF IInv, InvWork
<1>5. CASE others(fam) = {}
  <2>1. work' = [work EXCEPT !.lists[fam][job.version] = @ \cup Names(fam)]
    BY <1>5 DEF sync_membership
  <2>2. job' = IF fam = "languages" THEN [job EXCEPT !.family = "variants"]
                                    ELSE [job EXCEPT !.pc = "test"]
    BY <1>5 DEF sync_membership
  <2>3. work' \in ContentType
    <3>1. work.lists[fam][job.version] \cup Names(fam) \in SUBSET AllNames
      BY <1>1, <1>2 DEF ContentType, ListsType
    <3> QED BY <1>1, <2>1, <3>1, WriteType
  <2>4. /\ Names(fam) \subseteq work'.lists[fam][job.version]
        /\ \A f \in Families : work.lists[f][job.version] \subseteq work'.lists[f][job.version]
    BY <1>1, <2>1 DEF ContentType, ListsType
  <2>5. InvJob'
    BY <2>2 DEF IInv, InvJob, JobType, Places, Families
  <2>6. /\ job'.version = job.version
        /\ fam = "languages" => job'.pc = "sync" /\ job'.family = "variants"
        /\ fam # "languages" => job'.pc = "test"
    BY <1>1, <2>2 DEF IInv, InvJob, JobType
  <2>7. InvSync'
    <3>1. CASE fam = "languages"
      BY <3>1, <2>4, <2>6 DEF InvSync, Written
    <3>2. CASE fam = "variants"
      <4>1. Names("languages") \subseteq work.lists["languages"][job.version]
        BY <1>1, <3>2 DEF IInv, InvSync, Written
      <4> QED BY <3>2, <4>1, <2>4, <2>6 DEF InvSync, Written, Families
    <3> QED BY <1>1, <3>1, <3>2 DEF Families
  <2> QED BY <1>3, <2>3, <2>5, <2>7 DEF IInv, InvWork
<1> QED BY <1>4, <1>5

LEMMA BuildGrammar == ASSUME IInv, build_grammar PROVE IInv'
<1>1. UNCHANGED <<branches, head, work, origin>>
  BY DEF build_grammar, outer
<1>2. job' = [job EXCEPT !.pc = "test_langs"] /\ job.pc = "test"
  BY DEF build_grammar
<1>3. InvJob' /\ job'.pc = "test_langs" /\ job'.version = job.version
  BY <1>2 DEF IInv, InvJob, JobType, Places
<1>4. InvSync'
  BY <1>1, <1>2, <1>3 DEF IInv, InvSync, Written
<1> QED BY <1>1, <1>3, <1>4 DEF IInv, InvWork

LEMMA TestLang == ASSUME IInv, test_lang PROVE IInv'
<1>1. OneVersion(work.lists)
  <2>1. \A n \in AllNames : version_for_lang(work.lists, n)
    BY DEF test_lang, AllNames
  <2> QED BY <2>1, TestedGood DEF IInv, InvWork, InvJob, JobType, InvSync, test_lang
<1>2. UNCHANGED <<branches, head, work, origin>>
  BY DEF test_lang, outer
<1>3. InvJob'
  BY DEF IInv, InvJob, JobType, Places, Families, Idle, test_lang
<1>4. job'.pc \in {"idle", "commit"}
  BY DEF IInv, InvJob, JobType, Idle, test_lang
<1>5. InvSync'
  BY <1>1, <1>2, <1>4 DEF InvSync
<1> QED BY <1>2, <1>3, <1>5 DEF IInv, InvWork

LEMMA CommitChanges == ASSUME IInv, commit_changes PROVE IInv'
<1>1. work \in ContentType /\ OneVersion(work.lists)
  BY DEF IInv, InvWork, InvSync, commit_changes
<1>2. GoodBranches(branches')
  BY <1>1 DEF IInv, GoodBranches, commit_changes
<1>3. InvJob'
  BY DEF IInv, InvJob, JobType, Places, commit_changes
<1>4. job'.pc = "release"
  BY DEF IInv, InvJob, JobType, commit_changes
<1>5. InvSync'
  BY <1>4 DEF InvSync
<1>6. InvWork' /\ origin' = origin
  BY DEF IInv, InvWork, commit_changes
<1> QED BY <1>2, <1>3, <1>5, <1>6 DEF IInv

LEMMA RunRelease ==
  ASSUME IInv, NEW c \in Commits, NEW dry \in BOOLEAN, run_release(c, dry)
  PROVE  IInv'
<1> DEFINE b  == Proposal(c)
           bs == IF own THEN [n \in {Main} |-> origin[Main]] ELSE branches
<1>1. origin' = origin /\ b \in DOMAIN origin /\ head' = b /\ work' = branches'[b]
  BY DEF run_release
<1>2. branches' = IF b \in DOMAIN bs THEN bs ELSE Put(bs, b, origin[b])
  BY DEF run_release
<1>3. GoodBranches(bs)
  BY DEF IInv, GoodBranches
<1>4. GoodBranches(branches') /\ b \in DOMAIN branches'
  <2>1. origin[b] \in ContentType /\ OneVersion(origin[b].lists)
    BY <1>1 DEF IInv, GoodBranches
  <2>2. GoodBranches(Put(bs, b, origin[b])) /\ b \in DOMAIN Put(bs, b, origin[b])
    BY <1>3, <2>1, PutGood DEF Put
  <2> QED BY <1>2, <1>3, <2>2
<1>5. InvWork'
  BY <1>1, <1>4 DEF InvWork, GoodBranches
<1>6. InvJob' /\ job'.pc = "release"
  BY DEF run_release, InvJob, JobType, Places, Idle, Families
<1>7. InvSync'
  BY <1>6 DEF InvSync
<1> QED BY <1>1, <1>4, <1>5, <1>6, <1>7 DEF IInv

LEMMA Tidy == ASSUME IInv, tidy PROVE IInv'
<1>1. PICK b \in {head, Main} : head' = b /\ work' = branches[b]
  BY DEF tidy
<1>2. UNCHANGED <<branches, origin, job>> /\ job.pc = "idle"
  BY DEF tidy
<1>3. InvWork'
  BY <1>1, <1>2 DEF IInv, InvWork, GoodBranches
<1>4. InvJob' /\ InvSync'
  BY <1>2 DEF IInv, InvJob, JobType, InvSync
<1> QED BY <1>2, <1>3, <1>4 DEF IInv

LEMMA Publish ==
  ASSUME IInv, NEW c \in Commits, NEW version \in Versions, publish(c, version)
  PROVE  IInv'
<1>1. GoodBranches(origin')
  BY ContentGood, PutGood DEF IInv, publish
<1>2. UNCHANGED <<branches, head, work, job>>
  BY DEF publish, outer
<1> QED BY <1>1, <1>2 DEF IInv, InvJob, JobType, InvWork, InvSync, Written

-----------------------------------------------------------------------------
(* All other steps *)

LEMMA OtherSteps ==
  ASSUME IInv,
         \/ \E d \in Repos, dry \in BOOLEAN :
              \/ release(d, Main, FALSE, dry)
              \/ \E c \in Commits : release(d, Update(c), TRUE, dry)
         \/ make_grammars \/ clone \/ checkout_existing \/ checkout_new \/ gen_and_copy
         \/ commit_release \/ push \/ open_downstream_pr \/ fail
         \/ \E d \in Repos : \E b \in DOMAIN remote[d] : other_push(d, b)
  PROVE  IInv'
<1> USE DEF outer
<1>1. ASSUME NEW d \in Repos, NEW dry \in BOOLEAN, NEW b, NEW named \in BOOLEAN,
             release(d, b, named, dry)
      PROVE  IInv'
  <2>1. InvJob' /\ job'.pc = "release"
    BY <1>1 DEF release, InvJob, JobType, Places, Idle, Families
  <2>2. UNCHANGED <<branches, head, work, origin>>
    BY <1>1 DEF release
  <2> QED BY <2>1, <2>2, Frame
<1>2. ASSUME clone PROVE IInv'
  <2>1. InvJob' /\ job'.pc = "checkout"
    BY <1>2 DEF clone, IInv, InvJob, JobType, Places
  <2>2. UNCHANGED <<branches, head, work, origin>>
    BY <1>2 DEF clone
  <2> QED BY <2>1, <2>2, Frame
<1>3. ASSUME checkout_existing PROVE IInv'
  <2>1. InvJob' /\ job'.pc = "gen"
    BY <1>3 DEF checkout_existing, IInv, InvJob, JobType, Places
  <2>2. UNCHANGED <<branches, head, work, origin>>
    BY <1>3 DEF checkout_existing
  <2> QED BY <2>1, <2>2, Frame
<1>4. ASSUME checkout_new PROVE IInv'
  <2>1. InvJob' /\ job'.pc = "gen"
    BY <1>4 DEF checkout_new, IInv, InvJob, JobType, Places
  <2>2. UNCHANGED <<branches, head, work, origin>>
    BY <1>4 DEF checkout_new
  <2> QED BY <2>1, <2>2, Frame
<1>5. ASSUME gen_and_copy PROVE IInv'
  <2>1. InvJob' /\ job'.pc = "commit_release"
    BY <1>5 DEF gen_and_copy, IInv, InvJob, JobType, Places
  <2>2. UNCHANGED <<branches, head, work, origin>>
    BY <1>5 DEF gen_and_copy
  <2> QED BY <2>1, <2>2, Frame
<1>6. ASSUME job' = released(job) PROVE InvJob' /\ job'.pc \in {"pr", "idle"}
  <2>1. CASE job' = Idle
    BY <2>1 DEF InvJob, JobType, Places, Idle, Families
  <2>2. CASE job' = [job EXCEPT !.pc = "pr"]
    BY <2>2 DEF IInv, InvJob, JobType, Places
  <2> QED BY <1>6, <2>1, <2>2 DEF released
<1>7. ASSUME commit_release PROVE IInv'
  <2>1. job' = [job EXCEPT !.pc = "push"] \/ job' = released(job)
    BY <1>7 DEF commit_release
  <2>2. InvJob' /\ job'.pc \in {"push", "pr", "idle"}
    <3>1. CASE job' = [job EXCEPT !.pc = "push"]
      BY <3>1 DEF IInv, InvJob, JobType, Places
    <3> QED BY <1>6, <2>1, <3>1
  <2>3. UNCHANGED <<branches, head, work, origin>>
    BY <1>7 DEF commit_release
  <2> QED BY <2>2, <2>3, Frame
<1>8. ASSUME push PROVE IInv'
  <2>1. InvJob' /\ job'.pc \in {"pr", "idle"}
    BY <1>6, <1>8 DEF push, IInv
  <2>2. UNCHANGED <<branches, head, work, origin>>
    BY <1>8 DEF push
  <2> QED BY <2>1, <2>2, Frame
<1>9. ASSUME open_downstream_pr PROVE IInv'
  <2>1. \/ job' = Idle
        \/ \E next \in job.todo : job' = [job EXCEPT !.pc = "release", !.dialect = next, !.todo = @ \ {next}]
    BY <1>9 DEF open_downstream_pr
  <2>2. InvJob' /\ job'.pc \in {"idle", "release"}
    <3>1. CASE job' = Idle
      BY <3>1 DEF InvJob, JobType, Places, Idle, Families
    <3>2. ASSUME NEW next \in job.todo,
                 job' = [job EXCEPT !.pc = "release", !.dialect = next, !.todo = @ \ {next}]
          PROVE  InvJob' /\ job'.pc = "release"
      <4>1. job \in JobType
        BY DEF IInv, InvJob
      <4>2. job' \in [pc : Places, caller : {"user", "update", "propose"}, ref : Commits,
                      version : Versions, skip : BOOLEAN, family : Families,
                      dialect : {next}, todo : {job.todo \ {next}}, branch : {job.branch},
                      named : {job.named}, dry : {job.dry}]
        BY <3>2, <4>1 DEF JobType, Places
      <4> QED BY <3>2, <4>1, <4>2 DEF InvJob, JobType
    <3> QED BY <2>1, <3>1, <3>2
  <2>3. UNCHANGED <<branches, head, work, origin>>
    BY <1>9 DEF open_downstream_pr
  <2> QED BY <2>2, <2>3, Frame
<1>10. ASSUME fail PROVE IInv'
  <2>1. InvJob' /\ job'.pc = "idle"
    BY <1>10 DEF fail, InvJob, JobType, Places, Idle, Families
  <2>2. UNCHANGED <<branches, head, work, origin>>
    BY <1>10 DEF fail
  <2> QED BY <2>1, <2>2, Frame
<1>11. ASSUME NEW d \in Repos, NEW b, other_push(d, b) PROVE IInv'
  <2>1. UNCHANGED <<branches, head, work, origin, job>>
    BY <1>11 DEF other_push
  <2> QED BY <2>1 DEF IInv, InvJob, JobType, InvWork, InvSync, Written
<1>12. ASSUME make_grammars PROVE IInv'
  <2>1. UNCHANGED <<branches, head, work, origin, job>>
    BY <1>12 DEF make_grammars
  <2> QED BY <2>1 DEF IInv, InvJob, JobType, InvWork, InvSync, Written
<1> QED BY <1>1, <1>2, <1>3, <1>4, <1>5, <1>7, <1>8, <1>9, <1>10, <1>11, <1>12

LEMMA NextIInv == IInv /\ [Next]_vars => IInv'
<1> SUFFICES ASSUME IInv, [Next]_vars PROVE IInv'
  OBVIOUS
<1>1. CASE UNCHANGED vars
  <2>1. UNCHANGED <<branches, head, work, origin, job>>
    BY <1>1 DEF vars, outer
  <2> QED BY <2>1 DEF IInv, InvJob, JobType, InvWork, InvSync, Written
<1>2. CASE Next
  BY <1>2, UpdateGrammar, UpdateSubmodule, EnsureOnBranch, SyncMembership, BuildGrammar, TestLang,
     CommitChanges, RunRelease, Tidy, Publish, OtherSteps DEF Next
<1> QED BY <1>1, <1>2

\* Whatever was killed, and whatever it left in the work tree, what is
\* committed has one version for all names of the language: update-grammar
\* commits only what sync_membership has written to the end and the tests
\* have found in no second file.
THEOREM CommitsPinOneVersion == Spec => []OnePin
<1>1. IInv => OnePin
  BY DEF IInv, GoodBranches, OneVersion, OnePin, AllNames
<1> QED BY <1>1, InitIInv, NextIInv, PTL DEF Spec

-----------------------------------------------------------------------------
(* What is downstream *)

Grammars == Commits \cup {NotBuilt}

\* What may be committed downstream
Released == {From(x, g) : x \in tested, g \in Grammars}

Histories == Seq(Released) \ {<<>>}

GoodHistories(f) == \A b \in DOMAIN f : f[b] \in Histories

\* Of head and files only that they are fields
GoodClone(e) ==
  /\ e \in [head : {e.head}, local : {e.local}, known : {e.known}, files : {e.files}]
  /\ e.head \in DOMAIN e.local
  /\ GoodHistories(e.local) /\ GoodHistories(e.known)

InvTested ==
  /\ tested \subseteq ContentType
  /\ \A b \in DOMAIN branches : branches[b] \in tested
  /\ \A b \in DOMAIN origin : origin[b] \in tested
  /\ job.pc = "commit" => work \in tested

InvBuilt ==
  /\ built \in Grammars
  /\ job.caller = "update" /\ job.pc \in {"test_langs", "commit", "release", "checkout", "gen", "commit_release", "push"} =>
       built = work.pin
  /\ job.pc = "pr" => job.caller = "propose"

InvRemote ==
  /\ DOMAIN remote = Repos
  /\ \A d \in Repos : Main \in DOMAIN remote[d] /\ GoodHistories(remote[d])

InvExport == \A d \in DOMAIN export : GoodClone(export[d])

\* From the check for a clean work tree to the commit the work tree is the branch.
InvRelease ==
  /\ job.dialect \in Repos /\ job.todo \subseteq Repos
  /\ job.pc \in {"checkout", "gen", "commit_release", "push"} => job.dialect \in DOMAIN export
  /\ job.pc \in {"checkout", "gen", "commit_release"} /\ ~job.dry => work = branches[head]
  /\ job.pc \in {"gen", "commit_release", "push"} => job.branch \in DOMAIN export[job.dialect].local
  /\ job.pc \in {"commit_release", "push"} => export[job.dialect].files = From(work, built)

DInv == IInv /\ InvTested /\ InvBuilt /\ InvRemote /\ InvExport /\ InvRelease

-----------------------------------------------------------------------------
(* Histories and clones *)

USE ReleaseAssumption

LEMMA TreeOfFrom ==
  ASSUME NEW x \in ContentType, NEW g
  PROVE  Tree(From(x, g)) = x
BY DEF ContentType, Tree, From

LEMMA ReleasedGrows ==
  ASSUME tested \subseteq tested'
  PROVE  /\ Released \subseteq Released'
         /\ Histories \subseteq Seq(Released')
         /\ \A f : GoodHistories(f) => GoodHistories(f)'
<1>1. Released \subseteq Released'
  BY DEF Released, Grammars
<1>2. \A S, T : S \subseteq T => Seq(S) \subseteq Seq(T)
  OBVIOUS
<1> QED BY <1>1, <1>2 DEF GoodHistories, Histories

LEMMA AppendHistory ==
  ASSUME NEW h \in Histories, NEW x \in Released
  PROVE  Append(h, x) \in Histories
<1>1. Append(h, x) \in Seq(Released) /\ Len(Append(h, x)) > 0
  BY DEF Histories
<1> QED BY <1>1 DEF Histories

LEMMA PutHistory ==
  ASSUME NEW f, GoodHistories(f), NEW b, NEW h \in Histories
  PROVE  GoodHistories(Put(f, b, h)) /\ DOMAIN Put(f, b, h) = DOMAIN f \cup {b}
BY DEF GoodHistories, Put

LEMMA SwitchedGood ==
  ASSUME NEW e, GoodClone(e), NEW b, b \in DOMAIN e.known \cup DOMAIN e.local
  PROVE  GoodClone(switched(e, b)) /\ b \in DOMAIN switched(e, b).local
<1> DEFINE local == IF b \in DOMAIN e.local THEN e.local ELSE Put(e.local, b, e.known[b])
           files == IF Changed(e) THEN e.files ELSE Last(local[b])
           s     == [e EXCEPT !.head = b, !.local = local, !.files = files]
<1>1. GoodHistories(local) /\ b \in DOMAIN local
  <2>1. CASE b \in DOMAIN e.local
    BY <2>1 DEF GoodClone
  <2>2. CASE b \notin DOMAIN e.local
    <3>1. e.known[b] \in Histories
      BY <2>2 DEF GoodClone, GoodHistories
    <3>2. GoodHistories(e.local)
      BY DEF GoodClone
    <3>3. GoodHistories(Put(e.local, b, e.known[b])) /\ b \in DOMAIN Put(e.local, b, e.known[b])
      BY <3>1, <3>2 DEF GoodHistories, Put
    <3>4. local = Put(e.local, b, e.known[b])
      BY <2>2
    <3> HIDE DEF local
    <3> QED BY <3>3, <3>4
  <2> QED BY <2>1, <2>2
<1>2. switched(e, b) = s
  BY DEF switched
<1> HIDE DEF local, files
<1>3. s \in [head : {b}, local : {local}, known : {e.known}, files : {files}]
  BY DEF GoodClone
<1>4. s.head = b /\ s.local = local /\ s.known = e.known /\ s.files = files
  BY <1>3
<1> HIDE DEF s
<1> QED BY <1>1, <1>2, <1>3, <1>4 DEF GoodClone

LEMMA PulledGood ==
  ASSUME NEW e, GoodClone(e), NEW b \in DOMAIN e.local, NEW h \in Histories
  PROVE  GoodClone(pulled(e, b, h)) /\ DOMAIN pulled(e, b, h).local = DOMAIN e.local
<1> DEFINE local == [e.local EXCEPT ![b] = h]
           p     == [e EXCEPT !.local = local, !.files = Last(h)]
<1>1. CASE IsPrefix(h, e.local[b])
  BY <1>1 DEF pulled
<1>2. CASE ~IsPrefix(h, e.local[b])
  <2>1. pulled(e, b, h) = p
    BY <1>2 DEF pulled
  <2>2. GoodHistories(local) /\ DOMAIN local = DOMAIN e.local
    BY DEF GoodClone, GoodHistories
  <2> HIDE DEF local
  <2>3. p \in [head : {e.head}, local : {local}, known : {e.known}, files : {Last(h)}]
    BY DEF GoodClone
  <2>4. p.head = e.head /\ p.local = local /\ p.known = e.known /\ p.files = Last(h)
    BY <2>3
  <2> HIDE DEF p
  <2> QED BY <2>1, <2>2, <2>3, <2>4 DEF GoodClone
<1> QED BY <1>1, <1>2

\* One clone is replaced by a good one, and nothing is tested.
LEMMA ReplaceGood ==
  ASSUME InvExport, NEW d, NEW e, GoodClone(e), tested' = tested,
         export' = [export EXCEPT ![d] = e]
  PROVE  InvExport' /\ DOMAIN export' = DOMAIN export /\ (d \in DOMAIN export => export'[d] = e)
<1>1. Released' = Released
  BY DEF Released, Grammars
<1>2. \A x : GoodClone(x)' <=> GoodClone(x)
  BY <1>1 DEF GoodClone, GoodHistories, Histories
<1> QED BY <1>2 DEF InvExport

-----------------------------------------------------------------------------
(* What a step leaves alone *)

LEMMA ClonesFrame ==
  ASSUME InvRemote, InvExport, UNCHANGED <<remote, export>>, tested \subseteq tested'
  PROVE  InvRemote' /\ InvExport'
<1>1. \A f : GoodHistories(f) => GoodHistories(f)'
  BY ReleasedGrows
<1>2. InvRemote'
  BY <1>1 DEF InvRemote
<1>3. ASSUME NEW d \in DOMAIN export PROVE GoodClone(export[d])'
  <2>1. GoodClone(export[d])
    BY DEF InvExport
  <2>2. export'[d] = export[d]
    OBVIOUS
  <2>3. GoodHistories(export[d].local)' /\ GoodHistories(export[d].known)'
    BY <1>1, <2>1, <2>2 DEF GoodClone
  <2> QED BY <2>1, <2>2, <2>3 DEF GoodClone
<1>4. InvExport'
  BY <1>3 DEF InvExport
<1> QED BY <1>2, <1>4

LEMMA TestedFrame ==
  ASSUME InvTested, UNCHANGED <<tested, branches, origin>>, job'.pc # "commit"
  PROVE  InvTested'
BY DEF InvTested

\* A step that is no part of a release
LEMMA ReleaseFrame ==
  ASSUME job'.dialect \in Repos, job'.todo \subseteq Repos,
         job'.pc \notin {"checkout", "gen", "commit_release", "push"}
  PROVE  InvRelease'
BY DEF InvRelease

LEMMA InitDInv == Init => DInv
<1> SUFFICES ASSUME Init PROVE DInv
  OBVIOUS
<1>1. IInv
  BY InitIInv
<1>2. First \in ContentType
  BY ContentGood DEF First
<1>3. InvTested
  BY <1>2 DEF Init, InvTested, Idle
<1>4. InvBuilt /\ InvRelease /\ InvExport
  BY DEF Init, InvBuilt, InvRelease, InvExport, Idle, Grammars
<1>5. InvRemote
  <2>1. From(First, FirstCommit) \in Released
    BY DEF Init, Released, Grammars
  <2>2. <<From(First, FirstCommit)>> \in Histories
    BY <2>1 DEF Histories
  <2> QED BY <2>2 DEF Init, InvRemote, GoodHistories
<1> QED BY <1>1, <1>3, <1>4, <1>5 DEF DInv

-----------------------------------------------------------------------------
(* update-grammar, and what leaves downstream and its clones alone *)

LEMMA DUpdateGrammar ==
  ASSUME DInv, NEW ref \in Commits, NEW version \in Versions, NEW skip \in BOOLEAN,
         update_grammar(ref, version, skip)
  PROVE  DInv'
<1>1. IInv'
  BY UpdateGrammar DEF DInv
<1>2. job'.pc = "submodule" /\ job'.dialect = Language /\ job'.todo = {}
  BY DEF update_grammar, Idle
<1>3. UNCHANGED <<branches, origin, built, export, remote, tested>>
  BY DEF update_grammar, outer
<1>4. InvRemote' /\ InvExport'
  BY <1>3, ClonesFrame DEF DInv
<1>5. InvTested' /\ InvRelease'
  BY <1>2, <1>3, TestedFrame, ReleaseFrame DEF DInv
<1>6. InvBuilt'
  BY <1>2, <1>3 DEF DInv, InvBuilt
<1> QED BY <1>1, <1>4, <1>5, <1>6 DEF DInv

LEMMA DWrites ==
  ASSUME DInv, update_submodule \/ sync_membership \/ build_grammar
  PROVE  DInv'
<1>1. IInv'
  BY UpdateSubmodule, SyncMembership, BuildGrammar DEF DInv
<1>2. /\ job'.pc \in {"sync", "branch", "test", "test_langs"}
      /\ UNCHANGED <<branches, origin, export, remote, tested>>
      /\ job'.dialect = job.dialect /\ job'.todo = job.todo
  BY DEF update_submodule, sync_membership, build_grammar, outer, DInv, IInv, InvJob, JobType
<1>3. InvRemote' /\ InvExport'
  BY <1>2, ClonesFrame DEF DInv
<1>4. InvTested' /\ InvRelease'
  BY <1>2, TestedFrame, ReleaseFrame DEF DInv, InvRelease
<1>5. InvBuilt'
  <2>1. CASE build_grammar
    <3>1. built' = work.pin /\ work' = work
      BY <2>1 DEF build_grammar, outer
    <3>2. work.pin \in Commits
      BY DEF DInv, IInv, InvWork, ContentType
    <3> QED BY <1>2, <3>1, <3>2 DEF InvBuilt, Grammars
  <2>2. CASE update_submodule \/ sync_membership
    <3>1. built' = built /\ job'.pc \notin {"test_langs", "commit", "release", "checkout", "gen", "commit_release", "push"}
      BY <2>2 DEF update_submodule, sync_membership, DInv, IInv, InvJob, JobType
    <3> QED BY <1>2, <3>1 DEF DInv, InvBuilt
  <2> QED BY <2>1, <2>2
<1> QED BY <1>1, <1>3, <1>4, <1>5 DEF DInv

LEMMA DEnsureOnBranch == ASSUME DInv, ensure_on_branch PROVE DInv'
<1>1. IInv'
  BY EnsureOnBranch DEF DInv
<1>2. /\ job'.pc = "sync" /\ job'.dialect = job.dialect /\ job'.todo = job.todo
      /\ UNCHANGED <<origin, built, export, remote, tested>>
  BY DEF ensure_on_branch, DInv, IInv, InvJob, JobType
<1>3. \A b \in DOMAIN branches' : branches'[b] \in tested
  <2>1. branches[head] \in tested
    BY DEF DInv, IInv, InvWork, InvTested
  <2> QED BY <2>1 DEF ensure_on_branch, Put, DInv, InvTested
<1>4. InvTested'
  BY <1>2, <1>3 DEF DInv, InvTested
<1>5. InvRemote' /\ InvExport'
  BY <1>2, ClonesFrame DEF DInv
<1>6. InvRelease' /\ InvBuilt'
  BY <1>2, ReleaseFrame DEF DInv, InvRelease, InvBuilt
<1> QED BY <1>1, <1>4, <1>5, <1>6 DEF DInv

LEMMA DTestLang == ASSUME DInv, test_lang PROVE DInv'
<1>1. IInv'
  BY TestLang DEF DInv
<1>2. work \in ContentType /\ work' = work /\ tested' = tested \cup {work}
  BY DEF DInv, IInv, InvWork, test_lang, outer
<1>3. UNCHANGED <<branches, origin, built, export, remote>>
  BY DEF test_lang, outer
<1>4. InvRemote' /\ InvExport'
  BY <1>2, <1>3, ClonesFrame DEF DInv
<1>5. InvTested'
  BY <1>2, <1>3 DEF DInv, InvTested
<1>6. \/ job' = Idle
      \/ job' = [job EXCEPT !.pc = "commit"] /\ job.pc = "test_langs"
  BY DEF test_lang
<1>7. InvBuilt' /\ InvRelease'
  <2>1. CASE job' = Idle
    <3>1. job'.pc = "idle" /\ job'.dialect \in Repos /\ job'.todo \subseteq Repos
      BY <2>1 DEF Idle
    <3> QED BY <1>3, <3>1, ReleaseFrame DEF DInv, InvBuilt
  <2>2. CASE job' = [job EXCEPT !.pc = "commit"] /\ job.pc = "test_langs"
    <3>1. job'.pc = "commit" /\ job'.caller = job.caller /\ job'.dialect = job.dialect /\ job'.todo = job.todo
      BY <2>2 DEF DInv, IInv, InvJob, JobType
    <3> QED BY <1>2, <1>3, <2>2, <3>1, ReleaseFrame DEF DInv, InvBuilt, InvRelease
  <2> QED BY <1>6, <2>1, <2>2
<1> QED BY <1>1, <1>4, <1>5, <1>7 DEF DInv

LEMMA DCommitChanges == ASSUME DInv, commit_changes PROVE DInv'
<1>1. IInv'
  BY CommitChanges DEF DInv
<1>2. /\ job.pc = "commit" /\ job'.pc = "release" /\ job'.caller = job.caller
      /\ job'.dialect = job.dialect /\ job'.todo = job.todo
      /\ UNCHANGED <<work, origin, built, export, remote, tested>>
  BY DEF commit_changes, DInv, IInv, InvJob, JobType
<1>3. \A b \in DOMAIN branches' : branches'[b] \in tested
  BY DEF commit_changes, DInv, InvTested
<1>4. InvTested'
  BY <1>2, <1>3 DEF DInv, InvTested
<1>5. InvRemote' /\ InvExport'
  BY <1>2, ClonesFrame DEF DInv
<1>6. InvRelease' /\ InvBuilt'
  BY <1>2, ReleaseFrame DEF DInv, InvRelease, InvBuilt
<1> QED BY <1>1, <1>4, <1>5, <1>6 DEF DInv

LEMMA DIdle ==
  ASSUME DInv, tidy \/ make_grammars
  PROVE  DInv'
<1>1. IInv'
  BY Tidy, OtherSteps DEF DInv
<1>2. job.pc = "idle" /\ UNCHANGED <<job, branches, origin, export, remote, tested>>
  BY DEF tidy, make_grammars, outer
<1>3. InvRemote' /\ InvExport'
  BY <1>2, ClonesFrame DEF DInv
<1>4. InvTested' /\ InvRelease'
  BY <1>2, TestedFrame, ReleaseFrame DEF DInv, InvRelease
<1>5. built' \in Grammars
  BY DEF tidy, make_grammars, Grammars, DInv, InvBuilt, IInv, InvWork, ContentType
<1>6. InvBuilt'
  BY <1>2, <1>5 DEF InvBuilt
<1> QED BY <1>1, <1>3, <1>4, <1>6 DEF DInv

LEMMA DRunRelease ==
  ASSUME DInv, NEW c \in Commits, NEW dry \in BOOLEAN, run_release(c, dry)
  PROVE  DInv'
<1> DEFINE b  == Proposal(c)
           bs == IF own THEN [n \in {Main} |-> origin[Main]] ELSE branches
<1>1. IInv'
  BY RunRelease DEF DInv
<1>2. branches' = IF b \in DOMAIN bs THEN bs ELSE Put(bs, b, origin[b])
  BY DEF run_release
<1>3. b \in DOMAIN origin /\ UNCHANGED <<origin, remote, tested>>
  BY DEF run_release
<1>4. /\ job'.pc = "release" /\ job'.caller = "propose"
      /\ job'.dialect \in Repos /\ job'.todo \subseteq Repos
  BY DEF run_release, release_dialects, Idle
<1>5. \A n \in DOMAIN branches' : branches'[n] \in tested
  <2>1. \A n \in DOMAIN bs : bs[n] \in tested
    BY DEF DInv, IInv, GoodBranches, InvTested
  <2>2. origin[b] \in tested
    BY <1>3 DEF DInv, InvTested
  <2> HIDE DEF bs, b
  <2> QED BY <1>2, <2>1, <2>2 DEF Put
<1>6. InvTested'
  BY <1>3, <1>4, <1>5 DEF DInv, InvTested
<1>7. InvRelease'
  BY <1>4, ReleaseFrame
<1>8. InvBuilt'
  BY <1>4 DEF run_release, DInv, InvBuilt, Grammars
<1>9. InvRemote'
  BY <1>3, ReleasedGrows DEF DInv, InvRemote
<1>10. InvExport'
  <2>1. CASE own
    <3>1. DOMAIN export' = {}
      BY <2>1 DEF run_release
    <3> QED BY <3>1 DEF InvExport
  <2>2. CASE ~own
    <3>1. export' = export
      BY <2>2 DEF run_release
    <3> QED BY <1>3, <3>1, ClonesFrame DEF DInv
  <2> QED BY <2>1, <2>2
<1> QED BY <1>1, <1>6, <1>7, <1>8, <1>9, <1>10 DEF DInv

LEMMA DPublish ==
  ASSUME DInv, NEW c \in Commits, NEW version \in Versions, publish(c, version)
  PROVE  DInv'
<1> DEFINE x == Content(c, version)
<1>1. IInv'
  BY Publish DEF DInv
<1>2. tested' = tested \cup {x} /\ origin' = Put(origin, Proposal(c), x)
  BY DEF publish
<1>3. UNCHANGED <<branches, head, work, job, built, export, remote>>
  BY DEF publish, outer
<1>4. x \in ContentType
  BY ContentGood
<1> HIDE DEF x
<1>5. InvTested'
  BY <1>2, <1>3, <1>4 DEF DInv, InvTested, Put
<1>6. InvRemote' /\ InvExport'
  BY <1>2, <1>3, ClonesFrame DEF DInv
<1>7. InvBuilt' /\ InvRelease'
  BY <1>3 DEF DInv, InvBuilt, InvRelease
<1> QED BY <1>1, <1>5, <1>6, <1>7 DEF DInv

LEMMA DRelease ==
  ASSUME DInv, NEW d \in Repos, NEW dry \in BOOLEAN, NEW b, NEW named \in BOOLEAN,
         release(d, b, named, dry), IInv'
  PROVE  DInv'
<1>1. /\ job'.pc = "release" /\ job'.dialect = d /\ job'.todo = {} /\ job'.caller = "user"
      /\ UNCHANGED <<branches, origin, built, export, remote, tested>>
  BY DEF release, Idle, outer
<1>2. InvRemote' /\ InvExport'
  BY <1>1, ClonesFrame DEF DInv
<1>3. InvTested' /\ InvRelease'
  BY <1>1, TestedFrame, ReleaseFrame DEF DInv
<1>4. InvBuilt'
  BY <1>1 DEF DInv, InvBuilt
<1> QED BY <1>2, <1>3, <1>4 DEF DInv

-----------------------------------------------------------------------------
(* lang/release *)

\* What every step of it leaves alone
LEMMA StepFrame ==
  ASSUME DInv, UNCHANGED <<outer, built, origin, tested>>, job'.caller = job.caller,
         job.pc \in {"release", "checkout", "gen", "commit_release", "push"}, job'.pc \notin {"commit", "pr"}
  PROVE  InvTested' /\ InvBuilt'
BY DEF outer, DInv, InvTested, InvBuilt

LEMMA DClone == ASSUME DInv, clone, IInv' PROVE DInv'
<1> DEFINE d == job.dialect
           e == [head |-> Main, local |-> [b \in {Main} |-> remote[d][Main]],
                 known |-> remote[d], files |-> Last(remote[d][Main])]
<1>1. /\ job'.pc = "checkout" /\ job'.caller = job.caller /\ job'.dialect = d
      /\ job'.todo = job.todo /\ job'.dry = job.dry /\ job.pc = "release"
  BY DEF clone, DInv, IInv, InvJob, JobType
<1>2. UNCHANGED <<outer, built, origin, remote, tested>>
  BY DEF clone
<1>3. InvTested' /\ InvBuilt'
  BY <1>1, <1>2, StepFrame
<1>4. InvRemote'
  BY <1>2, ReleasedGrows DEF DInv, InvRemote
<1>5. d \in Repos
  BY DEF DInv, InvRelease
<1>6. GoodClone(e)
  <2>1. Main \in DOMAIN remote[d] /\ GoodHistories(remote[d])
    BY <1>5 DEF DInv, InvRemote
  <2>2. remote[d][Main] \in Histories
    BY <2>1 DEF GoodHistories
  <2>3. GoodHistories([b \in {Main} |-> remote[d][Main]])
    BY <2>2 DEF GoodHistories
  <2> HIDE DEF d
  <2> QED BY <2>1, <2>3 DEF GoodClone
<1>7. export' = IF d \in DOMAIN export THEN export ELSE Put(export, d, e)
  BY DEF clone
<1> HIDE DEF e
<1>8. \A x \in DOMAIN export' : GoodClone(export'[x])
  BY <1>6, <1>7 DEF Put, DInv, InvExport
<1>9. \A x : GoodClone(x)' <=> GoodClone(x)
  BY <1>2 DEF GoodClone, GoodHistories, Histories, Released, Grammars
<1>10. InvExport'
  BY <1>8, <1>9 DEF InvExport
<1>11. ~job'.dry => work' = branches'[head']
  BY <1>1, <1>2 DEF clone, require_clean_worktree, Dirty, outer
<1>12. d \in DOMAIN export'
  BY <1>7 DEF Put
<1>13. InvRelease'
  BY <1>1, <1>11, <1>12 DEF DInv, InvRelease
<1> QED BY <1>3, <1>4, <1>10, <1>13 DEF DInv

LEMMA DCheckoutExisting == ASSUME DInv, checkout_existing, IInv' PROVE DInv'
<1> DEFINE d  == job.dialect
           e  == export[d]
           b  == IF job.named THEN job.branch ELSE e.head
           at == IF job.named THEN switched(e, b) ELSE e
           p  == pulled(at, b, remote[d][b])
           q  == [p EXCEPT !.known = Put(p.known, b, remote[d][b])]
<1>1. /\ job'.pc = "gen" /\ job'.caller = job.caller /\ job'.dialect = d /\ job'.branch = b
      /\ job'.todo = job.todo /\ job'.dry = job.dry /\ job.pc = "checkout"
  <2>1. job.pc = "checkout" /\ job' = [job EXCEPT !.pc = "gen", !.branch = b]
    BY DEF checkout_existing
  <2> HIDE DEF b
  <2> QED BY <2>1 DEF DInv, IInv, InvJob, JobType
<1>2. UNCHANGED <<outer, built, origin, remote, tested>>
  BY DEF checkout_existing
<1>3. InvTested' /\ InvBuilt'
  BY <1>1, <1>2, StepFrame
<1>4. d \in DOMAIN export /\ d \in Repos
  BY <1>1 DEF DInv, InvRelease
<1>5. GoodClone(e)
  BY <1>4 DEF DInv, InvExport
<1>6. b \in DOMAIN remote[d] /\ (job.named => b \in DOMAIN e.known)
  BY DEF checkout_existing
<1>7. remote[d][b] \in Histories
  BY <1>4, <1>6 DEF DInv, InvRemote, GoodHistories
<1>8. GoodClone(at) /\ b \in DOMAIN at.local
  <2>1. CASE job.named
    <3>1. b \in DOMAIN e.known \cup DOMAIN e.local
      BY <1>6, <2>1
    <3> HIDE DEF e, b
    <3> QED BY <1>5, <2>1, <3>1, SwitchedGood
  <2>2. CASE ~job.named
    <3>1. at = e /\ b = e.head
      BY <2>2
    <3> HIDE DEF at, e, b
    <3> QED BY <1>5, <3>1 DEF GoodClone
  <2> QED BY <2>1, <2>2
<1>9. export' = [export EXCEPT ![d] = q]
  BY DEF checkout_existing
<1> HIDE DEF at, e
<1>10. GoodClone(p) /\ b \in DOMAIN p.local
  <2> HIDE DEF b, d
  <2> QED BY <1>7, <1>8, PulledGood
<1>11. GoodClone(q) /\ q.local = p.local
  <2> DEFINE known == Put(p.known, b, remote[d][b])
  <2> HIDE DEF p, b, d
  <2>1. GoodHistories(known)
    BY <1>7, <1>10 DEF GoodClone, GoodHistories, Put
  <2> HIDE DEF known
  <2>2. q = [p EXCEPT !.known = known]
    BY DEF known
  <2>3. q \in [head : {p.head}, local : {p.local}, known : {known}, files : {p.files}]
    BY <1>10, <2>2 DEF GoodClone
  <2>4. q.head = p.head /\ q.local = p.local /\ q.known = known /\ q.files = p.files
    BY <2>3
  <2> HIDE DEF q
  <2> QED BY <1>10, <2>1, <2>3, <2>4 DEF GoodClone
<1>12. InvExport' /\ DOMAIN export' = DOMAIN export /\ export'[d] = q
  <2> HIDE DEF q, d
  <2> QED BY <1>2, <1>4, <1>9, <1>11, ReplaceGood DEF DInv
<1>13. b \in DOMAIN export'[d].local
  BY <1>10, <1>11, <1>12
<1> HIDE DEF p, q, b
<1>14. InvRemote'
  BY <1>2, ReleasedGrows DEF DInv, InvRemote
<1>15. InvRelease'
  BY <1>1, <1>2, <1>12, <1>13 DEF DInv, InvRelease, outer
<1> QED BY <1>3, <1>12, <1>14, <1>15 DEF DInv

LEMMA DCheckoutNew == ASSUME DInv, checkout_new, IInv' PROVE DInv'
<1> DEFINE d     == job.dialect
           e     == export[d]
           b     == job.branch
           local == Put(e.local, b, e.local[e.head])
           q     == [e EXCEPT !.head = b, !.local = local]
<1>1. /\ job'.pc = "gen" /\ job'.caller = job.caller /\ job'.dialect = d /\ job'.branch = b
      /\ job'.todo = job.todo /\ job'.dry = job.dry /\ job.pc = "checkout"
  BY DEF checkout_new, DInv, IInv, InvJob, JobType
<1>2. UNCHANGED <<outer, built, origin, remote, tested>>
  BY DEF checkout_new
<1>3. InvTested' /\ InvBuilt'
  BY <1>1, <1>2, StepFrame
<1>4. d \in DOMAIN export
  BY <1>1 DEF DInv, InvRelease
<1>5. GoodClone(e)
  BY <1>4 DEF DInv, InvExport
<1>6. GoodHistories(local) /\ b \in DOMAIN local
  <2>1. e.local[e.head] \in Histories
    BY <1>5 DEF GoodClone, GoodHistories
  <2> HIDE DEF e, b
  <2> QED BY <1>5, <2>1 DEF GoodClone, GoodHistories, Put
<1>7. export' = [export EXCEPT ![d] = q]
  BY DEF checkout_new
<1> HIDE DEF local, e, b, d
<1>8. GoodClone(q) /\ q.local = local
  <2>1. q \in [head : {b}, local : {local}, known : {e.known}, files : {e.files}]
    BY <1>5 DEF GoodClone
  <2>2. q.head = b /\ q.local = local /\ q.known = e.known /\ q.files = e.files
    BY <2>1
  <2> HIDE DEF q
  <2> QED BY <1>5, <1>6, <2>1, <2>2 DEF GoodClone
<1> HIDE DEF q
<1>9. InvExport' /\ DOMAIN export' = DOMAIN export /\ export'[d] = q
  BY <1>2, <1>4, <1>7, <1>8, ReplaceGood DEF DInv
<1>10. InvRemote'
  BY <1>2, ReleasedGrows DEF DInv, InvRemote
<1>11. InvRelease'
  BY <1>1, <1>2, <1>6, <1>8, <1>9 DEF DInv, InvRelease, outer, d
<1> QED BY <1>3, <1>9, <1>10, <1>11 DEF DInv

LEMMA DGenAndCopy == ASSUME DInv, gen_and_copy, IInv' PROVE DInv'
<1> DEFINE d     == job.dialect
           e     == export[d]
           files == From(work, built)
           q     == [e EXCEPT !.files = files]
<1>1. /\ job'.pc = "commit_release" /\ job'.caller = job.caller /\ job'.dialect = d
      /\ job'.branch = job.branch /\ job'.todo = job.todo /\ job'.dry = job.dry /\ job.pc = "gen"
  BY DEF gen_and_copy, DInv, IInv, InvJob, JobType
<1>2. UNCHANGED <<outer, built, origin, remote, tested>>
  BY DEF gen_and_copy
<1>3. InvTested' /\ InvBuilt'
  BY <1>1, <1>2, StepFrame
<1>4. d \in DOMAIN export /\ job.branch \in DOMAIN e.local
  BY <1>1 DEF DInv, InvRelease
<1>5. GoodClone(e)
  BY <1>4 DEF DInv, InvExport
<1>6. export' = [export EXCEPT ![d] = q]
  BY DEF gen_and_copy
<1>7. files' = files
  BY <1>2 DEF From, outer
<1> HIDE DEF e, files
<1>8. GoodClone(q) /\ q.local = e.local /\ q.files = files
  <2>1. q \in [head : {e.head}, local : {e.local}, known : {e.known}, files : {files}]
    BY <1>5 DEF GoodClone
  <2>2. q.head = e.head /\ q.local = e.local /\ q.known = e.known /\ q.files = files
    BY <2>1
  <2> HIDE DEF q
  <2> QED BY <1>5, <2>1, <2>2 DEF GoodClone
<1> HIDE DEF q, d
<1>9. InvExport' /\ DOMAIN export' = DOMAIN export /\ export'[d] = q
  BY <1>2, <1>4, <1>6, <1>8, ReplaceGood DEF DInv
<1>10. InvRemote'
  BY <1>2, ReleasedGrows DEF DInv, InvRemote
<1>11. export'[job'.dialect].files = From(work, built)'
  BY <1>1, <1>7, <1>8, <1>9 DEF files
<1>12. InvRelease'
  BY <1>1, <1>2, <1>4, <1>8, <1>9, <1>11 DEF DInv, InvRelease, outer, d
<1> QED BY <1>3, <1>9, <1>10, <1>12 DEF DInv

\* The end of a release
LEMMA ReleasedJob ==
  ASSUME DInv, job' = released(job)
  PROVE  /\ job'.pc \in {"idle", "pr"} /\ (job'.pc = "pr" => job'.caller = "propose")
         /\ job'.dialect \in Repos /\ job'.todo \subseteq Repos
<1>1. CASE job' = Idle
  BY <1>1 DEF Idle
<1>2. CASE job' = [job EXCEPT !.pc = "pr"] /\ job.caller = "propose"
  BY <1>2 DEF DInv, IInv, InvJob, JobType, InvRelease
<1> QED BY <1>1, <1>2 DEF released

LEMMA DCommitRelease == ASSUME DInv, commit_release, IInv' PROVE DInv'
<1> DEFINE d == job.dialect
           e == export[d]
<1>1. job.pc = "commit_release" /\ UNCHANGED <<outer, built, origin, remote, tested>>
  BY DEF commit_release
<1>2. InvRemote'
  BY <1>1, ReleasedGrows DEF DInv, InvRemote
<1>3. CASE Changed(e) /\ ~job.dry
  <2> DEFINE local == [e.local EXCEPT ![e.head] = Append(e.local[e.head], e.files)]
             q     == [e EXCEPT !.local = local]
  <2>1. /\ job'.pc = "push" /\ job'.caller = job.caller /\ job'.dialect = d
        /\ job'.branch = job.branch /\ job'.todo = job.todo
    BY <1>3 DEF commit_release, DInv, IInv, InvJob, JobType
  <2>2. InvTested' /\ InvBuilt'
    BY <1>1, <2>1, StepFrame
  <2>3. d \in DOMAIN export /\ job.branch \in DOMAIN e.local /\ e.files = From(work, built)
    BY <1>1 DEF DInv, InvRelease
  <2>4. GoodClone(e)
    BY <2>3 DEF DInv, InvExport
  <2>5. e.files \in Released
    <3>1. work = branches[head] /\ branches[head] \in tested
      BY <1>1, <1>3 DEF DInv, IInv, InvWork, InvRelease, InvTested
    <3> QED BY <2>3, <3>1 DEF Released, DInv, InvBuilt
  <2>6. export' = [export EXCEPT ![d] = q]
    BY <1>3 DEF commit_release
  <2>7. GoodHistories(local) /\ DOMAIN local = DOMAIN e.local
    <3>1. e.local[e.head] \in Histories
      BY <2>4 DEF GoodClone, GoodHistories
    <3>2. Append(e.local[e.head], e.files) \in Histories
      BY <2>5, <3>1, AppendHistory
    <3> HIDE DEF e
    <3> QED BY <2>4, <3>2 DEF GoodClone, GoodHistories
  <2> HIDE DEF e, local
  <2>8. GoodClone(q) /\ q.local = local /\ q.files = e.files
    <3>1. q \in [head : {e.head}, local : {local}, known : {e.known}, files : {e.files}]
      BY <2>4 DEF GoodClone
    <3>2. q.head = e.head /\ q.local = local /\ q.known = e.known /\ q.files = e.files
      BY <3>1
    <3> HIDE DEF q
    <3> QED BY <2>4, <2>7, <3>1, <3>2 DEF GoodClone
  <2> HIDE DEF q, d
  <2>9. InvExport' /\ DOMAIN export' = DOMAIN export /\ export'[d] = q
    BY <1>1, <2>3, <2>6, <2>8, ReplaceGood DEF DInv
  <2>10. From(work, built)' = From(work, built)
    BY <1>1 DEF outer, From
  <2>11. InvRelease'
    BY <2>1, <2>3, <2>7, <2>8, <2>9, <2>10 DEF DInv, InvRelease, d
  <2> QED BY <1>2, <2>2, <2>9, <2>11 DEF DInv
<1>4. CASE ~(Changed(e) /\ ~job.dry)
  <2>1. job' = released(job) /\ export' = export
    BY <1>4 DEF commit_release
  <2>2. /\ job'.pc \in {"idle", "pr"} /\ (job'.pc = "pr" => job'.caller = "propose")
        /\ job'.dialect \in Repos /\ job'.todo \subseteq Repos
    BY <2>1, ReleasedJob
  <2>3. InvTested' /\ InvRelease'
    BY <1>1, <2>2, TestedFrame, ReleaseFrame DEF DInv, outer
  <2>4. InvBuilt'
    BY <1>1, <2>2 DEF DInv, InvBuilt
  <2>5. InvExport'
    BY <1>1, <2>1, ClonesFrame DEF DInv
  <2> QED BY <1>2, <2>3, <2>4, <2>5 DEF DInv
<1> QED BY <1>3, <1>4

LEMMA DPush == ASSUME DInv, push, IInv' PROVE DInv'
<1> DEFINE d == job.dialect
           b == job.branch
           e == export[d]
           h == e.local[b]
           known == Put(e.known, b, h)
           q == [e EXCEPT !.known = known]
<1>1. job.pc = "push" /\ job' = released(job) /\ UNCHANGED <<outer, built, origin, tested>>
  BY DEF push
<1>2. /\ job'.pc \in {"idle", "pr"} /\ (job'.pc = "pr" => job'.caller = "propose")
      /\ job'.dialect \in Repos /\ job'.todo \subseteq Repos
  BY <1>1, ReleasedJob
<1>3. InvTested' /\ InvRelease'
  BY <1>1, <1>2, TestedFrame, ReleaseFrame DEF DInv, outer
<1>4. InvBuilt'
  BY <1>1, <1>2 DEF DInv, InvBuilt
<1>5. d \in DOMAIN export /\ d \in Repos /\ b \in DOMAIN e.local
  BY <1>1 DEF DInv, InvRelease
<1>6. GoodClone(e) /\ h \in Histories
  BY <1>5 DEF DInv, InvExport, GoodClone, GoodHistories
<1>7. remote' = [remote EXCEPT ![d] = Put(remote[d], b, h)] /\ export' = [export EXCEPT ![d] = q]
  BY DEF push
<1> HIDE DEF e, b, d, h
<1>8. GoodHistories(known)
  BY <1>6 DEF GoodClone, GoodHistories, Put
<1> HIDE DEF known
<1>9. GoodClone(q)
  <2>1. q \in [head : {e.head}, local : {e.local}, known : {known}, files : {e.files}]
    BY <1>6 DEF GoodClone
  <2>2. q.head = e.head /\ q.local = e.local /\ q.known = known /\ q.files = e.files
    BY <2>1
  <2> HIDE DEF q
  <2> QED BY <1>6, <1>8, <2>1, <2>2 DEF GoodClone
<1> HIDE DEF q
<1>10. InvExport'
  BY <1>1, <1>5, <1>7, <1>9, ReplaceGood DEF DInv
<1>11. InvRemote'
  <2>1. \A f : GoodHistories(f) => GoodHistories(f)'
    BY <1>1, ReleasedGrows
  <2>2. DOMAIN remote = Repos /\ \A x \in Repos : Main \in DOMAIN remote[x] /\ GoodHistories(remote[x])
    BY DEF DInv, InvRemote
  <2>3. GoodHistories(Put(remote[d], b, h)) /\ Main \in DOMAIN Put(remote[d], b, h)
    BY <1>5, <1>6, <2>2 DEF GoodHistories, Put
  <2>4. \A x \in Repos : Main \in DOMAIN remote'[x] /\ GoodHistories(remote'[x])
    BY <1>7, <2>2, <2>3
  <2> QED BY <1>7, <2>1, <2>2, <2>4 DEF InvRemote
<1> QED BY <1>3, <1>4, <1>10, <1>11 DEF DInv

-----------------------------------------------------------------------------
(* Ends, and what happens elsewhere *)

LEMMA DOpenDownstreamPR == ASSUME DInv, open_downstream_pr, IInv' PROVE DInv'
<1>1. job.pc = "pr" /\ UNCHANGED <<outer, built, origin, export, remote, tested>>
  BY DEF open_downstream_pr
<1>2. job'.pc \in {"idle", "release"} /\ job'.dialect \in Repos /\ job'.todo \subseteq Repos
      /\ (job'.pc = "release" => job'.caller = job.caller)
  <2>1. CASE job' = Idle
    BY <2>1 DEF Idle
  <2>2. ASSUME NEW next \in job.todo,
               job' = [job EXCEPT !.pc = "release", !.dialect = next, !.todo = @ \ {next}]
        PROVE  /\ job'.pc = "release" /\ job'.dialect \in Repos /\ job'.todo \subseteq Repos
               /\ job'.caller = job.caller
    BY <2>2 DEF DInv, IInv, InvJob, JobType, InvRelease
  <2> QED BY <2>1, <2>2 DEF open_downstream_pr
<1>3. InvTested' /\ InvRelease'
  BY <1>1, <1>2, TestedFrame, ReleaseFrame DEF DInv, outer
<1>4. InvRemote' /\ InvExport'
  BY <1>1, ClonesFrame DEF DInv
<1>5. InvBuilt'
  BY <1>1, <1>2 DEF DInv, InvBuilt, outer
<1> QED BY <1>3, <1>4, <1>5 DEF DInv

LEMMA DFail == ASSUME DInv, fail, IInv' PROVE DInv'
<1> DEFINE d == job.dialect
<1>1. job'.pc = "idle" /\ job'.dialect \in Repos /\ job'.todo \subseteq Repos
  BY DEF fail, Idle
<1>2. UNCHANGED <<outer, origin, remote, tested>>
  BY DEF fail
<1>3. InvTested' /\ InvRelease'
  BY <1>1, <1>2, TestedFrame, ReleaseFrame DEF DInv, outer
<1>4. InvRemote'
  BY <1>2, ReleasedGrows DEF DInv, InvRemote
<1>5. InvBuilt'
  <2>1. work.pin \in Commits
    BY DEF DInv, IInv, InvWork, ContentType
  <2>2. built' \in Grammars
    BY <2>1 DEF fail, DInv, InvBuilt, Grammars
  <2> QED BY <1>1, <2>2 DEF InvBuilt
<1>6. InvExport'
  <2>1. CASE export' = export
    BY <1>2, <2>1, ClonesFrame DEF DInv
  <2>2. CASE job.pc = "gen" /\ export' = [export EXCEPT ![job.dialect].files = Mixed]
    <3> DEFINE e == export[d]
               q == [e EXCEPT !.files = Mixed]
    <3>1. GoodClone(e)
      BY <2>2 DEF DInv, InvRelease, InvExport
    <3>2. export' = [export EXCEPT ![d] = q]
      BY <2>2
    <3> HIDE DEF e
    <3>3. GoodClone(q)
      <4>1. q \in [head : {e.head}, local : {e.local}, known : {e.known}, files : {Mixed}]
        BY <3>1 DEF GoodClone
      <4>2. q.head = e.head /\ q.local = e.local /\ q.known = e.known /\ q.files = Mixed
        BY <4>1
      <4> HIDE DEF q
      <4> QED BY <3>1, <4>1, <4>2 DEF GoodClone
    <3> HIDE DEF q, d
    <3> QED BY <1>2, <3>2, <3>3, ReplaceGood DEF DInv
  <2> QED BY <2>1, <2>2 DEF fail
<1> QED BY <1>3, <1>4, <1>5, <1>6 DEF DInv

LEMMA DOtherPush ==
  ASSUME DInv, NEW d \in Repos, NEW b \in DOMAIN remote[d], other_push(d, b), IInv'
  PROVE  DInv'
<1>1. UNCHANGED <<outer, built, origin, export, job, tested>>
  BY DEF other_push
<1>2. InvTested' /\ InvBuilt' /\ InvRelease'
  BY <1>1 DEF DInv, InvTested, InvBuilt, InvRelease, outer, From
<1>3. InvExport'
  BY <1>1 DEF DInv, InvExport, GoodClone, GoodHistories, Histories, Released, Grammars
<1>4. InvRemote'
  <2>1. PICK x \in {From(y, y.pin) : y \in tested} : remote' = [remote EXCEPT ![d][b] = Append(@, x)]
    BY DEF other_push
  <2>2. x \in Released
    BY DEF DInv, InvTested, ContentType, Released, Grammars
  <2> DEFINE h == Append(remote[d][b], x)
             f == [remote[d] EXCEPT ![b] = h]
  <2>3. DOMAIN remote = Repos /\ \A z \in Repos : Main \in DOMAIN remote[z] /\ GoodHistories(remote[z])
    BY DEF DInv, InvRemote
  <2>4. h \in Histories
    <3>1. remote[d][b] \in Histories
      BY <2>3 DEF GoodHistories
    <3> QED BY <2>2, <3>1, AppendHistory
  <2>5. remote' = [remote EXCEPT ![d] = f]
    BY <2>1
  <2> HIDE DEF h
  <2>6. GoodHistories(f) /\ Main \in DOMAIN f
    BY <2>3, <2>4 DEF GoodHistories
  <2> HIDE DEF f
  <2>7. \A z \in Repos : Main \in DOMAIN remote'[z] /\ GoodHistories(remote'[z])
    BY <2>3, <2>5, <2>6
  <2>8. \A g : GoodHistories(g) => GoodHistories(g)'
    BY <1>1, ReleasedGrows
  <2> QED BY <2>3, <2>5, <2>7, <2>8 DEF InvRemote
<1> QED BY <1>2, <1>3, <1>4 DEF DInv

LEMMA NextDInv == DInv /\ [Next]_vars => DInv'
<1> SUFFICES ASSUME DInv, [Next]_vars PROVE DInv'
  OBVIOUS
<1>1. IInv'
  BY NextIInv DEF DInv
<1>2. CASE UNCHANGED vars
  <2>1. UNCHANGED <<branches, head, work, built, origin, export, remote, job, tested>>
    BY <1>2 DEF vars, outer
  <2> QED BY <1>1, <2>1 DEF DInv, InvTested, InvBuilt, InvRemote, InvExport, InvRelease,
                            GoodClone, GoodHistories, Histories, Released, Grammars, From
<1>3. CASE Next
  <2>1. CASE \E d \in Repos, dry \in BOOLEAN :
               \/ release(d, Main, FALSE, dry)
               \/ \E c \in Commits : release(d, Update(c), TRUE, dry)
    BY <1>1, <2>1, DRelease
  <2>2. CASE \E d \in Repos : \E b \in DOMAIN remote[d] : other_push(d, b)
    BY <1>1, <2>2, DOtherPush
  <2> QED BY <1>1, <1>3, <2>1, <2>2, DUpdateGrammar, DWrites, DEnsureOnBranch, DTestLang, DCommitChanges,
             DIdle, DRunRelease, DPublish, DClone, DCheckoutExisting, DCheckoutNew, DGenAndCopy,
             DCommitRelease, DPush, DOpenDownstreamPR, DFail DEF Next
<1> QED BY <1>2, <1>3

\* Whatever commands were killed, and whatever work trees and clones they
\* left, everything downstream says that it was released from a content that
\* the tests passed on: from the check for a clean work tree to the commit
\* downstream, the work tree is the branch, and what is on a branch was tested.
THEOREM OnlyTestedIsReleased == Spec => []ReleasedWasTested
<1>1. DInv => ReleasedWasTested
  <2> SUFFICES ASSUME DInv PROVE ReleasedWasTested
    OBVIOUS
  <2>1. ASSUME NEW d \in Repos, NEW b \in DOMAIN remote[d], NEW k \in DOMAIN remote[d][b]
        PROVE  Tree(remote[d][b][k]) \in tested
    <3>1. remote[d][b] \in Histories
      BY DEF DInv, InvRemote, GoodHistories
    <3>2. PICK x \in tested, g \in Grammars : remote[d][b][k] = From(x, g)
      BY <3>1 DEF Histories, Released
    <3>3. x \in ContentType
      BY DEF DInv, InvTested
    <3> QED BY <3>2, <3>3, TreeOfFrom
  <2>2. ASSUME job.caller = "update", job.pc \in {"commit_release", "push"}
        PROVE  export[job.dialect].files = From(work, work.pin)
    BY <2>2 DEF DInv, InvBuilt, InvRelease
  <2> QED BY <2>1, <2>2 DEF ReleasedWasTested
<1> QED BY <1>1, InitDInv, NextDInv, PTL DEF Spec

-----------------------------------------------------------------------------
(* What propose-grammar-update --release says is released is released *)

\* On a branch of a clone there is a commit that was released from a content.
Has(e, b, x) ==
  b \in DOMAIN e.local /\ \E k \in DOMAIN e.local[b] : Tree(e.local[b][k]) = x

Here(d, b, x) == d \in DOMAIN export /\ Has(export[d], b, x)

\* Nothing that was committed in a clone goes away.
Kept == \A d, b, x : Here(d, b, x) => Here(d, b, x)'

\* A job of the workflow has no grammar.json, and does not come to a commit.
InvOwn ==
  own => reported = {} /\ built = NotBuilt /\ job.pc \in {"idle", "release", "checkout", "gen"}

\* update-grammar commits on a branch of its own.
InvBranch ==
  /\ job.pc \in {"branch", "commit"} => ~job.skip
  /\ job.pc \in {"sync", "test", "test_langs", "commit"} /\ ~job.skip => head = Update(job.ref)

NamesItsPin(f) == \A c \in Commits : Proposal(c) \in DOMAIN f => f[Proposal(c)].pin = c

\* A release of propose-grammar-update: what is done, and what is to be said.
InvProposed ==
  job.caller = "propose" /\ job.pc # "idle" =>
    /\ job.pc \in {"release", "checkout", "gen", "commit_release", "push", "pr"}
    /\ head = Proposal(job.ref) /\ job.branch = head /\ job.named
    /\ ~job.dry => \A d \in Repos \ ({job.dialect} \cup job.todo) :
                     <<d, head>> \in prs /\ Here(d, head, branches[head])
    /\ ~job.dry /\ job.pc \in {"push", "pr"} => Here(job.dialect, head, branches[head])
    /\ job.pc \in {"gen", "commit_release", "push"} => export[job.dialect].head = head

InvReported ==
  \A r \in reported : \E c \in Commits :
    /\ r[1] = Proposal(c) /\ r[2].pin = c
    /\ \A d \in Repos : <<d, r[1]>> \in prs /\ Here(d, r[1], r[2])

RInv == /\ DInv /\ InvOwn /\ InvBranch /\ InvProposed /\ InvReported
        /\ NamesItsPin(branches) /\ NamesItsPin(origin)

-----------------------------------------------------------------------------
(* Clones keep what was committed *)

LEMMA ReplaceKeeps ==
  ASSUME NEW d, NEW q, export' = [export EXCEPT ![d] = q],
         \A b, x : Has(export[d], b, x) => Has(q, b, x)
  PROVE  Kept
BY DEF Kept, Here

LEMMA SameKeeps == ASSUME export' = export PROVE Kept
BY DEF Kept, Here

LEMMA HasLocal ==
  ASSUME NEW e, NEW f, f.local = e.local
  PROVE  \A b, x : Has(e, b, x) => Has(f, b, x)
BY DEF Has

LEMMA SwitchedKeeps ==
  ASSUME NEW e, GoodClone(e), NEW b, b \in DOMAIN e.known \cup DOMAIN e.local
  PROVE  /\ \A c, x : Has(e, c, x) => Has(switched(e, b), c, x)
         /\ switched(e, b).head = b
<1> DEFINE local == IF b \in DOMAIN e.local THEN e.local ELSE Put(e.local, b, e.known[b])
           files == IF Changed(e) THEN e.files ELSE Last(local[b])
           s     == [e EXCEPT !.head = b, !.local = local, !.files = files]
<1>1. \A c \in DOMAIN e.local : c \in DOMAIN local /\ local[c] = e.local[c]
  BY DEF Put
<1>2. switched(e, b) = s
  BY DEF switched
<1> HIDE DEF local, files
<1>3. s.head = b /\ s.local = local
  BY DEF GoodClone
<1> HIDE DEF s
<1> QED BY <1>1, <1>2, <1>3 DEF Has

LEMMA PrefixKeeps ==
  ASSUME NEW s \in Histories, NEW t \in Histories, IsPrefix(s, t), NEW k \in DOMAIN s
  PROVE  k \in DOMAIN t /\ t[k] = s[k]
<1>1. s \in Seq(Released) /\ t \in Seq(Released)
  BY DEF Histories
<1>2. Len(s) <= Len(t) /\ SubSeq(s, 1, Len(s)) = SubSeq(t, 1, Len(s))
  BY DEF IsPrefix
<1>3. k \in 1..Len(s) /\ DOMAIN t = 1..Len(t)
  BY <1>1
<1>4. SubSeq(s, 1, Len(s))[k] = s[k] /\ SubSeq(t, 1, Len(s))[k] = t[k]
  BY <1>1, <1>2, <1>3
<1> QED BY <1>1, <1>2, <1>3, <1>4

LEMMA PulledKeeps ==
  ASSUME NEW e, GoodClone(e), NEW b \in DOMAIN e.local, NEW h \in Histories, can_pull(e, b, h)
  PROVE  /\ \A c, x : Has(e, c, x) => Has(pulled(e, b, h), c, x)
         /\ pulled(e, b, h).head = e.head
<1> DEFINE local == [e.local EXCEPT ![b] = h]
           p     == [e EXCEPT !.local = local, !.files = Last(h)]
<1>1. CASE IsPrefix(h, e.local[b])
  BY <1>1 DEF pulled
<1>2. CASE ~IsPrefix(h, e.local[b])
  <2>1. pulled(e, b, h) = p
    BY <1>2 DEF pulled
  <2>2. IsPrefix(e.local[b], h) /\ e.local[b] \in Histories
    BY <1>2 DEF can_pull, GoodClone, GoodHistories
  <2>3. \A k \in DOMAIN e.local[b] : k \in DOMAIN h /\ h[k] = e.local[b][k]
    BY <2>2, PrefixKeeps
  <2>4. /\ DOMAIN local = DOMAIN e.local /\ local[b] = h
        /\ \A c \in DOMAIN e.local : c # b => local[c] = e.local[c]
    BY DEF GoodClone
  <2> HIDE DEF local
  <2>5. p.head = e.head /\ p.local = local
    BY DEF GoodClone
  <2> HIDE DEF p
  <2> QED BY <2>1, <2>3, <2>4, <2>5 DEF Has
<1> QED BY <1>1, <1>2

LEMMA CloneKeeps == ASSUME DInv, clone PROVE Kept
<1>1. PICK d, e : export' = IF d \in DOMAIN export THEN export ELSE Put(export, d, e)
  BY DEF clone
<1> QED BY <1>1 DEF Put, Kept, Here

LEMMA CheckoutExistingKeeps ==
  ASSUME DInv, checkout_existing
  PROVE  Kept /\ export'[job.dialect].head = job'.branch /\ (job.named => job'.branch = job.branch)
<1> DEFINE d  == job.dialect
           e  == export[d]
           b  == IF job.named THEN job.branch ELSE e.head
           at == IF job.named THEN switched(e, b) ELSE e
           p  == pulled(at, b, remote[d][b])
           q  == [p EXCEPT !.known = Put(p.known, b, remote[d][b])]
<1>1. job'.branch = b /\ job.pc = "checkout"
  <2>1. job.pc = "checkout" /\ job' = [job EXCEPT !.pc = "gen", !.branch = b]
    BY DEF checkout_existing
  <2> HIDE DEF b
  <2> QED BY <2>1 DEF DInv, IInv, InvJob, JobType
<1>2. d \in DOMAIN export /\ d \in Repos
  BY <1>1 DEF DInv, InvRelease
<1>3. GoodClone(e)
  BY <1>2 DEF DInv, InvExport
<1>4. b \in DOMAIN remote[d] /\ (job.named => b \in DOMAIN e.known)
  BY DEF checkout_existing
<1>5. remote[d][b] \in Histories
  BY <1>2, <1>4 DEF DInv, InvRemote, GoodHistories
<1>6. /\ GoodClone(at) /\ b \in DOMAIN at.local /\ at.head = b
      /\ \A c, x : Has(e, c, x) => Has(at, c, x)
  <2>1. CASE job.named
    <3>1. b \in DOMAIN e.known \cup DOMAIN e.local
      BY <1>4, <2>1
    <3> HIDE DEF e, b
    <3> QED BY <1>3, <2>1, <3>1, SwitchedGood, SwitchedKeeps
  <2>2. CASE ~job.named
    <3>1. at = e /\ b = e.head
      BY <2>2
    <3> HIDE DEF at, e, b
    <3> QED BY <1>3, <3>1 DEF GoodClone
  <2> QED BY <2>1, <2>2
<1>7. export' = [export EXCEPT ![d] = q] /\ can_pull(at, b, remote[d][b])
  BY DEF checkout_existing
<1> HIDE DEF at
<1>8. /\ GoodClone(p) /\ p.head = at.head
      /\ \A c, x : Has(at, c, x) => Has(p, c, x)
  <2> HIDE DEF b, d
  <2> QED BY <1>5, <1>6, <1>7, PulledGood, PulledKeeps
<1> HIDE DEF p
<1>9. q.local = p.local /\ q.head = p.head
  <2> DEFINE known == Put(p.known, b, remote[d][b])
  <2> HIDE DEF known
  <2>1. q = [p EXCEPT !.known = known]
    BY DEF known
  <2> HIDE DEF q
  <2> QED BY <1>8, <2>1 DEF GoodClone
<1>10. \A c, x : Has(e, c, x) => Has(q, c, x)
  <2>1. \A c, x : Has(p, c, x) => Has(q, c, x)
    <3> HIDE DEF q
    <3> QED BY <1>9, HasLocal
  <2> QED BY <2>1, <1>6, <1>8
<1>11. Kept
  <2> HIDE DEF q, d
  <2> QED BY <1>7, <1>10, ReplaceKeeps DEF e
<1>12. export'[d].head = b
  <2> HIDE DEF q, b
  <2> QED BY <1>2, <1>6, <1>7, <1>8, <1>9
<1>13. job.named => b = job.branch
  OBVIOUS
<1> QED BY <1>1, <1>11, <1>12, <1>13

LEMMA CheckoutNewKeeps ==
  ASSUME DInv, checkout_new
  PROVE  Kept /\ export'[job.dialect].head = job.branch
<1> DEFINE d     == job.dialect
           e     == export[d]
           b     == job.branch
           local == Put(e.local, b, e.local[e.head])
           q     == [e EXCEPT !.head = b, !.local = local]
<1>1. d \in DOMAIN export
  BY DEF checkout_new, DInv, InvRelease
<1>2. GoodClone(e)
  BY <1>1 DEF DInv, InvExport
<1>3. b \notin DOMAIN e.local /\ export' = [export EXCEPT ![d] = q]
  BY DEF checkout_new
<1>4. \A c \in DOMAIN e.local : c \in DOMAIN local /\ local[c] = e.local[c]
  BY <1>3 DEF Put
<1> HIDE DEF local
<1>5. q.local = local /\ q.head = b
  BY <1>2 DEF GoodClone
<1> HIDE DEF q
<1>6. \A c, x : Has(e, c, x) => Has(q, c, x)
  BY <1>4, <1>5 DEF Has
<1>7. Kept
  <2> HIDE DEF d
  <2> QED BY <1>3, <1>6, ReplaceKeeps
<1> QED BY <1>1, <1>3, <1>5, <1>7

\* Only the files of a clone, or what it knows, changes.
LEMMA FilesKeep ==
  ASSUME DInv, NEW d \in DOMAIN export, NEW x,
         \/ export' = [export EXCEPT ![d] = [export[d] EXCEPT !.files = x]]
         \/ export' = [export EXCEPT ![d] = [export[d] EXCEPT !.known = x]]
  PROVE  Kept /\ export'[d].head = export[d].head
<1> DEFINE e == export[d]
           q == export'[d]
<1>1. GoodClone(e)
  BY DEF DInv, InvExport
<1>2. q.local = e.local /\ q.head = e.head
  BY <1>1 DEF GoodClone
<1>3. export' = [export EXCEPT ![d] = q]
  OBVIOUS
<1> HIDE DEF q
<1>4. \A c, y : Has(e, c, y) => Has(q, c, y)
  <2> HIDE DEF e
  <2> QED BY <1>2, HasLocal
<1> QED BY <1>2, <1>3, <1>4, ReplaceKeeps DEF q

LEMMA GenAndCopyKeeps ==
  ASSUME DInv, gen_and_copy
  PROVE  Kept /\ export'[job.dialect].head = export[job.dialect].head
<1>1. job.dialect \in DOMAIN export
  BY DEF gen_and_copy, DInv, InvRelease
<1>2. export' = [export EXCEPT ![job.dialect] = [export[job.dialect] EXCEPT !.files = From(work, built)]]
  BY DEF gen_and_copy
<1> QED BY <1>1, <1>2, FilesKeep

LEMMA PushKeeps == ASSUME DInv, push PROVE Kept
<1>1. job.dialect \in DOMAIN export
  BY DEF push, DInv, InvRelease
<1>2. PICK known : export' = [export EXCEPT ![job.dialect] = [export[job.dialect] EXCEPT !.known = known]]
  BY DEF push
<1> QED BY <1>1, <1>2, FilesKeep

LEMMA FailKeeps == ASSUME DInv, fail PROVE Kept
<1>1. CASE export' = export
  BY <1>1, SameKeeps
<1>2. CASE job.pc = "gen" /\ export' = [export EXCEPT ![job.dialect].files = Mixed]
  <2>1. job.dialect \in DOMAIN export
    BY <1>2 DEF DInv, InvRelease
  <2>2. export' = [export EXCEPT ![job.dialect] = [export[job.dialect] EXCEPT !.files = Mixed]]
    BY <1>2
  <2> QED BY <2>1, <2>2, FilesKeep
<1> QED BY <1>1, <1>2 DEF fail

\* After it, whether or not there was something to commit, the branch that is
\* checked out has the content of the work tree.
LEMMA CommitReleaseKeeps ==
  ASSUME DInv, commit_release
  PROVE  /\ Kept /\ export'[job.dialect].head = export[job.dialect].head
         /\ ~job.dry => /\ job.dialect \in DOMAIN export'
                        /\ Has(export'[job.dialect], export[job.dialect].head, branches[head])
<1> DEFINE d == job.dialect
           e == export[d]
<1>1. /\ d \in DOMAIN export /\ e.files = From(work, built)
      /\ ~job.dry => work = branches[head]
      /\ UNCHANGED <<branches, head>>
  BY DEF commit_release, DInv, InvRelease, outer
<1>2. GoodClone(e)
  BY <1>1 DEF DInv, InvExport
<1>3. ~job.dry => Tree(e.files) = branches[head]
  BY <1>1, TreeOfFrom DEF DInv, IInv, InvWork
<1>4. e.local[e.head] \in Histories /\ e.head \in DOMAIN e.local
  BY <1>2 DEF GoodClone, GoodHistories
<1>5. CASE Changed(e) /\ ~job.dry
  <2> DEFINE h     == Append(e.local[e.head], e.files)
             local == [e.local EXCEPT ![e.head] = h]
             q     == [e EXCEPT !.local = local]
  <2>1. export' = [export EXCEPT ![d] = q]
    BY <1>5 DEF commit_release
  <2>2. /\ \A k \in DOMAIN e.local[e.head] : k \in DOMAIN h /\ h[k] = e.local[e.head][k]
        /\ \E k \in DOMAIN h : h[k] = e.files
    <3>1. e.local[e.head] \in Seq(Released)
      BY <1>4 DEF Histories
    <3> DEFINE s == e.local[e.head]
    <3>2. s \in Seq(Released)
      BY <3>1
    <3> HIDE DEF s, e
    <3>3. \A k \in 1..Len(s) : k \in DOMAIN Append(s, e.files) /\ Append(s, e.files)[k] = s[k]
      BY <3>2
    <3>4. Len(s) + 1 \in DOMAIN Append(s, e.files) /\ Append(s, e.files)[Len(s) + 1] = e.files
      BY <3>2
    <3>5. DOMAIN s = 1..Len(s)
      BY <3>2
    <3> QED BY <3>3, <3>4, <3>5 DEF s
  <2> HIDE DEF h
  <2>3. /\ DOMAIN local = DOMAIN e.local /\ local[e.head] = h
        /\ \A c \in DOMAIN e.local : c # e.head => local[c] = e.local[c]
    BY <1>4
  <2> HIDE DEF local
  <2>4. q.local = local /\ q.head = e.head
    BY <1>2 DEF GoodClone
  <2> HIDE DEF q
  <2>5. \A c, x : Has(e, c, x) => Has(q, c, x)
    BY <2>2, <2>3, <2>4 DEF Has
  <2>6. Has(q, e.head, branches[head])
    BY <1>3, <1>4, <1>5, <2>2, <2>3, <2>4 DEF Has
  <2>7. Kept
    <3> HIDE DEF d
    <3> QED BY <2>1, <2>5, ReplaceKeeps DEF e
  <2>8. export'[d] = q /\ d \in DOMAIN export'
    BY <1>1, <2>1
  <2> QED BY <2>4, <2>6, <2>7, <2>8
<1>6. CASE ~(Changed(e) /\ ~job.dry)
  <2>1. export' = export
    BY <1>6 DEF commit_release
  <2>2. ASSUME ~job.dry PROVE Has(e, e.head, branches[head])
    <3>1. e.files = Last(e.local[e.head])
      BY <1>6, <2>2 DEF Changed
    <3>2. \E k \in DOMAIN e.local[e.head] : e.local[e.head][k] = Last(e.local[e.head])
      <4> DEFINE s == e.local[e.head]
      <4>1. s \in Seq(Released) /\ s # <<>>
        BY <1>4 DEF Histories
      <4> HIDE DEF s
      <4>2. Len(s) \in DOMAIN s
        BY <4>1
      <4> QED BY <4>2 DEF Last, s
    <3> QED BY <1>3, <1>4, <2>2, <3>1, <3>2 DEF Has
  <2> QED BY <1>1, <2>1, <2>2, SameKeeps
<1> QED BY <1>5, <1>6

-----------------------------------------------------------------------------
(* Steps of other commands *)

Report == <<prs, reported>>

LEMMA ReportedFrame ==
  ASSUME RInv, UNCHANGED Report, Kept
  PROVE  InvReported'
BY DEF RInv, InvReported, Report, Kept

LEMMA InitRInv == Init => RInv
<1> SUFFICES ASSUME Init PROVE RInv
  OBVIOUS
<1>1. DInv
  BY InitDInv
<1>2. InvOwn /\ InvBranch /\ InvProposed /\ InvReported
  BY DEF Init, Idle, InvOwn, InvBranch, InvProposed, InvReported
<1>3. \A c \in Commits : Proposal(c) # Main
  BY DEF Proposal, Main
<1>4. NamesItsPin(branches) /\ NamesItsPin(origin)
  BY <1>3 DEF Init, NamesItsPin
<1> QED BY <1>1, <1>2, <1>4 DEF RInv

LEMMA RUpdateGrammar ==
  ASSUME RInv, DInv', NEW ref \in Commits, NEW version \in Versions, NEW skip \in BOOLEAN,
         update_grammar(ref, version, skip)
  PROVE  RInv'
<1>1. /\ ~own /\ job'.pc = "submodule" /\ job'.caller = "update"
      /\ UNCHANGED <<own, branches, origin, export, prs, reported>>
  BY DEF update_grammar, Idle, outer
<1>2. InvReported'
  BY <1>1, SameKeeps, ReportedFrame DEF Report
<1> QED BY <1>1, <1>2 DEF RInv, InvOwn, InvBranch, InvProposed, NamesItsPin

LEMMA RRelease ==
  ASSUME RInv, DInv', NEW d \in Repos, NEW dry \in BOOLEAN, NEW b, NEW named \in BOOLEAN,
         release(d, b, named, dry)
  PROVE  RInv'
<1>1. /\ ~own /\ job'.pc = "release" /\ job'.caller = "user"
      /\ UNCHANGED <<own, branches, origin, export, prs, reported>>
  BY DEF release, Idle, outer
<1>2. InvReported'
  BY <1>1, SameKeeps, ReportedFrame DEF Report
<1> QED BY <1>1, <1>2 DEF RInv, InvOwn, InvBranch, InvProposed, NamesItsPin

LEMMA RWrites ==
  ASSUME RInv, DInv', update_submodule \/ sync_membership \/ build_grammar \/ test_lang
  PROVE  RInv'
<1>1. /\ job.pc \in {"submodule", "sync", "test", "test_langs"}
      /\ UNCHANGED <<own, branches, head, origin, export, prs, reported>>
  BY DEF update_submodule, sync_membership, build_grammar, test_lang, outer
<1>2. ~own /\ job.caller # "propose"
  BY <1>1 DEF RInv, InvOwn, InvProposed
<1>3. InvReported'
  BY <1>1, SameKeeps, ReportedFrame DEF Report
<1>4. job'.caller # "propose" /\ InvBranch'
  <2>1. CASE job' = Idle
    BY <2>1 DEF Idle, InvBranch
  <2>2. CASE job' = job
    BY <1>1, <1>2, <2>2 DEF RInv, InvBranch
  <2>3. CASE \/ job.pc = "submodule" /\ job' = [job EXCEPT !.pc = IF job.skip THEN "sync" ELSE "branch"]
             \/ job.pc = "sync" /\ job' = [job EXCEPT !.family = "variants"]
             \/ job.pc = "sync" /\ job' = [job EXCEPT !.pc = "test"]
             \/ job.pc = "test" /\ job' = [job EXCEPT !.pc = "test_langs"]
             \/ job.pc = "test_langs" /\ ~job.skip /\ job' = [job EXCEPT !.pc = "commit"]
    <3>1. /\ job'.caller = job.caller /\ job'.skip = job.skip /\ job'.ref = job.ref
          /\ \/ job'.pc = "commit" /\ job.pc = "test_langs" /\ ~job.skip
             \/ job'.pc = "branch" /\ ~job.skip
             \/ job'.pc = "sync" /\ job.pc = "submodule" /\ job.skip
             \/ job'.pc \in {"sync", "test", "test_langs"} /\ job.pc \in {"sync", "test"}
      BY <2>3 DEF RInv, DInv, IInv, InvJob, JobType
    <3> QED BY <1>1, <1>2, <3>1 DEF RInv, InvBranch
  <2> QED BY <2>1, <2>2, <2>3 DEF update_submodule, sync_membership, build_grammar, test_lang
<1> QED BY <1>1, <1>2, <1>3, <1>4 DEF RInv, InvOwn, InvProposed, NamesItsPin

LEMMA REnsureOnBranch == ASSUME RInv, DInv', ensure_on_branch PROVE RInv'
<1>1. /\ job.pc = "branch" /\ job'.pc = "sync" /\ job'.caller = job.caller /\ job'.ref = job.ref
      /\ head' = Update(job.ref)
      /\ UNCHANGED <<own, origin, export, prs, reported>>
  BY DEF ensure_on_branch, RInv, DInv, IInv, InvJob, JobType
<1>2. ~own /\ job.caller # "propose"
  BY <1>1 DEF RInv, InvOwn, InvProposed
<1>3. InvReported'
  BY <1>1, SameKeeps, ReportedFrame DEF Report
<1>4. NamesItsPin(branches')
  <2>1. \A c \in Commits : Proposal(c) # Update(job.ref)
    BY DEF Proposal, Update
  <2>2. branches' = branches \/ branches' = Put(branches, Update(job.ref), branches[head])
    BY DEF ensure_on_branch
  <2> QED BY <2>1, <2>2 DEF RInv, NamesItsPin, Put
<1> QED BY <1>1, <1>2, <1>3, <1>4 DEF RInv, InvOwn, InvBranch, InvProposed, NamesItsPin

LEMMA RCommitChanges == ASSUME RInv, DInv', commit_changes PROVE RInv'
<1>1. /\ job.pc = "commit" /\ job'.pc = "release" /\ job'.caller = job.caller
      /\ branches' = [branches EXCEPT ![head] = work]
      /\ UNCHANGED <<own, head, origin, export, prs, reported>>
  BY DEF commit_changes, RInv, DInv, IInv, InvJob, JobType
<1>2. ~own /\ job.caller # "propose"
  BY <1>1 DEF RInv, InvOwn, InvProposed
<1>3. InvReported'
  BY <1>1, SameKeeps, ReportedFrame DEF Report
<1>4. NamesItsPin(branches')
  <2>1. \A c \in Commits : Proposal(c) # head
    BY <1>1 DEF RInv, InvBranch, Proposal, Update
  <2> QED BY <1>1, <2>1 DEF RInv, NamesItsPin
<1> QED BY <1>1, <1>2, <1>3, <1>4 DEF RInv, InvOwn, InvBranch, InvProposed, NamesItsPin

LEMMA RIdle == ASSUME RInv, DInv', tidy \/ make_grammars PROVE RInv'
<1>1. /\ job.pc = "idle" /\ (own => built' = built)
      /\ UNCHANGED <<own, branches, job, origin, export, prs, reported>>
  BY DEF tidy, make_grammars, outer
<1>2. InvReported'
  BY <1>1, SameKeeps, ReportedFrame DEF Report
<1> QED BY <1>1, <1>2 DEF RInv, InvOwn, InvBranch, InvProposed, NamesItsPin

LEMMA RPublish ==
  ASSUME RInv, DInv', NEW c \in Commits, NEW version \in Versions, publish(c, version)
  PROVE  RInv'
<1>1. UNCHANGED <<own, branches, head, built, job, export, prs, reported>>
  BY DEF publish, outer
<1>2. origin' = Put(origin, Proposal(c), Content(c, version))
  BY DEF publish
<1>3. NamesItsPin(origin')
  <2>1. Content(c, version).pin = c
    BY DEF Content
  <2>2. \A x \in Commits : Proposal(x) = Proposal(c) => x = c
    BY DEF Proposal
  <2> QED BY <1>2, <2>1, <2>2 DEF RInv, NamesItsPin, Put
<1>4. InvReported'
  BY <1>1, SameKeeps, ReportedFrame DEF Report
<1> QED BY <1>1, <1>3, <1>4 DEF RInv, InvOwn, InvBranch, InvProposed, NamesItsPin, Here

LEMMA ROtherPush ==
  ASSUME RInv, DInv', NEW d \in Repos, NEW b \in DOMAIN remote[d], other_push(d, b)
  PROVE  RInv'
<1>1. UNCHANGED <<own, branches, head, built, job, origin, export, prs, reported>>
  BY DEF other_push, outer
<1>2. InvReported'
  BY <1>1, SameKeeps, ReportedFrame DEF Report
<1> QED BY <1>1, <1>2 DEF RInv, InvOwn, InvBranch, InvProposed, NamesItsPin, Here

-----------------------------------------------------------------------------
(* The release *)

LEMMA RRunRelease ==
  ASSUME RInv, DInv', NEW c \in Commits, NEW dry \in BOOLEAN, run_release(c, dry)
  PROVE  RInv'
<1> DEFINE b  == Proposal(c)
           bs == IF own THEN [n \in {Main} |-> origin[Main]] ELSE branches
<1>1. /\ job'.pc = "release" /\ job'.ref = c /\ job'.branch = b /\ job'.named
      /\ Repos \ ({job'.dialect} \cup job'.todo) = {}
  <2>1. PICK d \in release_dialects :
          job' = [Idle EXCEPT !.pc = "release", !.caller = "propose", !.ref = c, !.dialect = d,
                              !.todo = release_dialects \ {d}, !.branch = b, !.named = TRUE, !.dry = dry]
    BY DEF run_release
  <2>2. Repos \subseteq release_dialects
    BY DEF release_dialects
  <2> HIDE DEF b
  <2>3. job'.pc = "release" /\ job'.ref = c /\ job'.branch = b /\ job'.named
        /\ job'.dialect = d /\ job'.todo = release_dialects \ {d}
    BY <2>1 DEF Idle
  <2> QED BY <2>2, <2>3
<1>2. /\ head' = b /\ b \in DOMAIN origin
      /\ branches' = IF b \in DOMAIN bs THEN bs ELSE Put(bs, b, origin[b])
      /\ built' = (IF own THEN NotBuilt ELSE built)
      /\ UNCHANGED <<own, origin, prs, reported>>
  BY DEF run_release
<1>3. NamesItsPin(branches')
  <2>1. NamesItsPin(bs)
    BY DEF RInv, NamesItsPin, Proposal, Main
  <2>2. \A x \in Commits : Proposal(x) = Proposal(c) => x = c
    BY DEF Proposal
  <2> HIDE DEF bs
  <2> QED BY <1>2, <2>1, <2>2 DEF RInv, NamesItsPin, Put
<1>4. InvReported'
  <2>1. CASE own
    BY <1>2, <2>1 DEF RInv, InvOwn, InvReported
  <2>2. CASE ~own
    <3>1. export' = export
      BY <2>2 DEF run_release
    <3> QED BY <1>2, <3>1, SameKeeps, ReportedFrame DEF Report
  <2> QED BY <2>1, <2>2
<1>5. InvProposed'
  BY <1>1, <1>2 DEF InvProposed
<1>6. InvOwn' /\ InvBranch'
  BY <1>1, <1>2 DEF RInv, InvOwn, InvBranch
<1> QED BY <1>2, <1>3, <1>4, <1>5, <1>6 DEF RInv, NamesItsPin

\* What is asked of the repositories that are done
Done(n) == \A d \in Repos \ ({job.dialect} \cup job.todo) :
             <<d, n>> \in prs /\ Here(d, n, branches[n])

LEMMA DoneKept ==
  ASSUME Kept, UNCHANGED <<branches, prs>>, job'.dialect = job.dialect, job'.todo = job.todo, NEW n, Done(n)
  PROVE  Done(n)'
BY DEF Done, Kept

\* A step from one place of a release to the next
LEMMA RStep ==
  ASSUME RInv, DInv', Kept, UNCHANGED <<outer, own, built, origin, prs, reported>>,
         job.pc \in {"release", "checkout", "gen", "commit_release"},
         job'.pc \in {"checkout", "gen", "commit_release", "push", "pr"},
         own => job'.pc \in {"checkout", "gen"},
         job'.caller = job.caller, job'.ref = job.ref, job'.named = job.named,
         job'.dry = job.dry, job'.dialect = job.dialect, job'.todo = job.todo,
         job.caller = "propose" => job'.branch = job.branch,
         job.caller = "propose" /\ job'.pc \in {"gen", "commit_release", "push"} =>
           export'[job.dialect].head = job.branch,
         job.caller = "propose" /\ job'.pc \in {"push", "pr"} /\ ~job.dry =>
           Here(job.dialect, job.branch, branches[head])'
  PROVE  RInv'
<1>1. InvReported'
  BY ReportedFrame DEF Report
<1>2. InvOwn' /\ InvBranch' /\ NamesItsPin(branches)' /\ NamesItsPin(origin)'
  BY DEF RInv, InvOwn, InvBranch, NamesItsPin, outer
<1>3. InvProposed'
  <2> SUFFICES ASSUME job'.caller = "propose"
               PROVE  InvProposed'
    BY DEF InvProposed
  <2>1. /\ head = Proposal(job.ref) /\ job.branch = head /\ job.named
        /\ ~job.dry => Done(head)
    BY DEF RInv, InvProposed, Done
  <2>2. head' = head /\ branches' = branches
    BY DEF outer
  <2>3. ~job'.dry => Done(head)'
    BY <2>1, <2>2, DoneKept
  <2> QED BY <2>1, <2>2, <2>3 DEF InvProposed, Done
<1> QED BY <1>1, <1>2, <1>3 DEF RInv

LEMMA RClone == ASSUME RInv, DInv', clone PROVE RInv'
<1>1. /\ job'.pc = "checkout" /\ job.pc = "release" /\ job'.caller = job.caller /\ job'.ref = job.ref
      /\ job'.named = job.named /\ job'.dry = job.dry /\ job'.dialect = job.dialect
      /\ job'.todo = job.todo /\ job'.branch = job.branch
  BY DEF clone, RInv, DInv, IInv, InvJob, JobType
<1>2. Kept
  BY CloneKeeps DEF RInv
<1>3. UNCHANGED <<outer, own, built, origin, prs, reported>>
  BY DEF clone
<1> QED BY <1>1, <1>2, <1>3, RStep

LEMMA RCheckout == ASSUME RInv, DInv', checkout_existing \/ checkout_new PROVE RInv'
<1>1. /\ job'.pc = "gen" /\ job.pc = "checkout" /\ job'.caller = job.caller /\ job'.ref = job.ref
      /\ job'.named = job.named /\ job'.dry = job.dry /\ job'.dialect = job.dialect
      /\ job'.todo = job.todo
  <2>1. PICK b : job' = [job EXCEPT !.pc = "gen", !.branch = b]
    <3>1. CASE checkout_existing
      BY <3>1 DEF checkout_existing
    <3>2. CASE checkout_new
      <4>1. job' = [job EXCEPT !.pc = "gen", !.branch = job.branch]
        BY <3>2 DEF checkout_new, RInv, DInv, IInv, InvJob, JobType
      <4> QED BY <4>1
    <3> QED BY <3>1, <3>2
  <2>2. job.pc = "checkout"
    BY DEF checkout_existing, checkout_new
  <2> QED BY <2>1, <2>2 DEF RInv, DInv, IInv, InvJob, JobType
<1>2. job.caller = "propose" => job.named
  BY <1>1 DEF RInv, InvProposed
<1>3. Kept /\ (job.named => export'[job.dialect].head = job.branch /\ job'.branch = job.branch)
  <2>1. CASE checkout_existing
    BY <2>1, CheckoutExistingKeeps DEF RInv
  <2>2. CASE checkout_new
    <3>1. job'.branch = job.branch
      BY <2>2 DEF checkout_new, RInv, DInv, IInv, InvJob, JobType
    <3> QED BY <2>2, <3>1, CheckoutNewKeeps DEF RInv
  <2> QED BY <2>1, <2>2
<1>4. UNCHANGED <<outer, own, built, origin, prs, reported>>
  BY DEF checkout_existing, checkout_new
<1> QED BY <1>1, <1>2, <1>3, <1>4, RStep

LEMMA RGenAndCopy == ASSUME RInv, DInv', gen_and_copy PROVE RInv'
<1>1. /\ job'.pc = "commit_release" /\ job.pc = "gen" /\ job'.caller = job.caller /\ job'.ref = job.ref
      /\ job'.named = job.named /\ job'.dry = job.dry /\ job'.dialect = job.dialect
      /\ job'.todo = job.todo /\ job'.branch = job.branch
  BY DEF gen_and_copy, RInv, DInv, IInv, InvJob, JobType
<1>2. Kept /\ export'[job.dialect].head = export[job.dialect].head
  BY GenAndCopyKeeps DEF RInv
<1>3. ~own
  BY DEF gen_and_copy, RInv, InvOwn
<1>4. job.caller = "propose" => export[job.dialect].head = job.branch
  BY <1>1 DEF RInv, InvProposed
<1>5. UNCHANGED <<outer, own, built, origin, prs, reported>>
  BY DEF gen_and_copy
<1> QED BY <1>1, <1>2, <1>3, <1>4, <1>5, RStep

\* A command ends, or is killed.
LEMMA REnd ==
  ASSUME RInv, DInv', Kept, UNCHANGED <<own, branches, origin, prs, reported>>,
         job'.pc = "idle", own => built' = built
  PROVE  RInv'
<1>1. InvReported'
  BY ReportedFrame DEF Report
<1> QED BY <1>1 DEF RInv, InvOwn, InvBranch, InvProposed, NamesItsPin

LEMMA RReleased ==
  ASSUME RInv, job' = released(job)
  PROVE  \/ job'.pc = "idle"
         \/ /\ job.caller = "propose" /\ job'.pc = "pr"
            /\ job'.caller = job.caller /\ job'.ref = job.ref /\ job'.named = job.named /\ job'.dry = job.dry
            /\ job'.dialect = job.dialect /\ job'.todo = job.todo /\ job'.branch = job.branch
<1>1. CASE job' = Idle
  BY <1>1 DEF Idle
<1>2. CASE job' = [job EXCEPT !.pc = "pr"] /\ job.caller = "propose"
  BY <1>2 DEF RInv, DInv, IInv, InvJob, JobType
<1> QED BY <1>1, <1>2 DEF released

LEMMA RCommitRelease == ASSUME RInv, DInv', commit_release PROVE RInv'
<1>1. job.pc = "commit_release" /\ UNCHANGED <<outer, own, built, origin, prs, reported>>
  BY DEF commit_release
<1>2. /\ Kept /\ export'[job.dialect].head = export[job.dialect].head
      /\ ~job.dry => /\ job.dialect \in DOMAIN export'
                     /\ Has(export'[job.dialect], export[job.dialect].head, branches[head])
  BY CommitReleaseKeeps DEF RInv
<1>3. ~own
  BY <1>1 DEF RInv, InvOwn
<1>4. job.caller = "propose" => export[job.dialect].head = job.branch
  BY <1>1 DEF RInv, InvProposed
<1>5. \/ job'.pc = "idle"
      \/ /\ job'.pc \in {"push", "pr"}
         /\ job'.caller = job.caller /\ job'.ref = job.ref /\ job'.named = job.named /\ job'.dry = job.dry
         /\ job'.dialect = job.dialect /\ job'.todo = job.todo /\ job'.branch = job.branch
  <2>1. CASE job' = [job EXCEPT !.pc = "push"]
    BY <2>1 DEF RInv, DInv, IInv, InvJob, JobType
  <2>2. CASE job' = released(job)
    BY <2>2, RReleased
  <2> QED BY <2>1, <2>2 DEF commit_release
<1>6. CASE job'.pc = "idle"
  BY <1>1, <1>2, <1>6, REnd DEF outer
<1>7. CASE job'.pc # "idle"
  <2>1. job.caller = "propose" /\ ~job.dry => Here(job.dialect, job.branch, branches[head])'
    BY <1>1, <1>2, <1>4, <1>5, <1>7 DEF Here, outer
  <2> QED BY <1>1, <1>2, <1>3, <1>4, <1>5, <1>7, <2>1, RStep
<1> QED BY <1>6, <1>7

LEMMA RPush == ASSUME RInv, DInv', push PROVE RInv'
<1>1. job.pc = "push" /\ job' = released(job) /\ UNCHANGED <<outer, own, built, origin, prs, reported>>
  BY DEF push
<1>2. Kept
  BY PushKeeps DEF RInv
<1>3. ~own
  BY <1>1 DEF RInv, InvOwn
<1>4. CASE job'.pc = "idle"
  BY <1>1, <1>2, <1>4, REnd DEF outer
<1>5. CASE job'.pc # "idle"
  <2>1. /\ job.caller = "propose" /\ job'.pc = "pr"
        /\ job'.caller = job.caller /\ job'.ref = job.ref /\ job'.named = job.named /\ job'.dry = job.dry
        /\ job'.dialect = job.dialect /\ job'.todo = job.todo /\ job'.branch = job.branch
    BY <1>1, <1>5, RReleased
  <2>2. /\ head = Proposal(job.ref) /\ job.branch = head /\ job.named
        /\ ~job.dry => Done(head) /\ Here(job.dialect, head, branches[head])
    BY <1>1, <2>1 DEF RInv, InvProposed, Done
  <2>3. head' = head /\ branches' = branches
    BY <1>1 DEF outer
  <2>4. ~job.dry => Done(head)' /\ Here(job.dialect, head, branches[head])'
    BY <1>1, <1>2, <2>1, <2>2, <2>3, DoneKept DEF Kept
  <2>5. InvProposed'
    BY <2>1, <2>2, <2>3, <2>4 DEF InvProposed, Done
  <2>6. InvReported'
    BY <1>1, <1>2, ReportedFrame DEF Report
  <2> QED BY <1>1, <1>3, <2>1, <2>3, <2>5, <2>6 DEF RInv, InvOwn, InvBranch, NamesItsPin
<1> QED BY <1>4, <1>5

\* When all dialects are done, what is said is so.
LEMMA ROpenDownstreamPR == ASSUME RInv, DInv', open_downstream_pr PROVE RInv'
<1> DEFINE d == job.dialect
           b == job.branch
<1>1. job.pc = "pr" /\ UNCHANGED <<outer, own, built, origin, export>>
  BY DEF open_downstream_pr
<1>2. ~own /\ job.caller = "propose"
  BY <1>1 DEF RInv, InvOwn, DInv, InvBuilt
<1>3. /\ head = Proposal(job.ref) /\ b = head /\ job.named
      /\ ~job.dry => Done(head) /\ Here(d, head, branches[head])
  BY <1>1, <1>2 DEF RInv, InvProposed, Done
<1>4. prs \subseteq prs' /\ (~job.dry => <<d, head>> \in prs')
  BY <1>3 DEF open_downstream_pr
<1>5. \A x, n, y : Here(x, n, y)' <=> Here(x, n, y)
  BY <1>1 DEF Here
<1>6. head' = head /\ branches' = branches
  BY <1>1 DEF outer
<1>7. job.ref \in Commits /\ head \in DOMAIN branches
  BY DEF RInv, DInv, IInv, InvJob, JobType, InvWork
<1>8. \A r \in reported : \E c \in Commits :
        /\ r[1] = Proposal(c) /\ r[2].pin = c
        /\ \A x \in Repos : <<x, r[1]>> \in prs' /\ Here(x, r[1], r[2])
  BY <1>4 DEF RInv, InvReported
<1> HIDE DEF d, b
<1>9. CASE job.todo = {}
  <2>1. job'.pc = "idle" /\ reported' = IF job.dry THEN reported ELSE reported \cup {<<b, branches[head]>>}
    BY <1>9 DEF open_downstream_pr, Idle, b
  <2>2. ASSUME ~job.dry
        PROVE  \E c \in Commits :
                 /\ head = Proposal(c) /\ branches[head].pin = c
                 /\ \A x \in Repos : <<x, head>> \in prs' /\ Here(x, head, branches[head])
    <3>1. branches[head].pin = job.ref
      BY <1>3, <1>7 DEF RInv, NamesItsPin
    <3>2. \A x \in Repos : <<x, head>> \in prs' /\ Here(x, head, branches[head])
      BY <1>3, <1>4, <1>9, <2>2 DEF Done, d
    <3> QED BY <1>3, <1>7, <3>1, <3>2
  <2>3. InvReported'
    <3> SUFFICES ASSUME NEW r \in reported'
                 PROVE  \E c \in Commits :
                          /\ r[1] = Proposal(c) /\ r[2].pin = c
                          /\ \A x \in Repos : <<x, r[1]>> \in prs' /\ Here(x, r[1], r[2])
      BY <1>5 DEF InvReported
    <3>1. CASE r \in reported
      BY <1>8, <3>1
    <3>2. CASE ~job.dry /\ r = <<head, branches[head]>>
      BY <2>2, <3>2
    <3> QED BY <1>3, <2>1, <3>1, <3>2
  <2> QED BY <1>1, <1>2, <1>6, <2>1, <2>3 DEF RInv, InvOwn, InvBranch, InvProposed, NamesItsPin
<1>10. CASE job.todo # {}
  <2>1. PICK next \in job.todo :
          job' = [job EXCEPT !.pc = "release", !.dialect = next, !.todo = job.todo \ {next}]
    BY <1>10 DEF open_downstream_pr
  <2>2. /\ job'.pc = "release" /\ job'.dialect = next /\ job'.todo = job.todo \ {next}
        /\ job'.caller = job.caller /\ job'.ref = job.ref /\ job'.named = job.named
        /\ job'.dry = job.dry /\ job'.branch = job.branch
    BY <2>1 DEF RInv, DInv, IInv, InvJob, JobType
  <2>3. reported' = reported
    BY <1>10 DEF open_downstream_pr
  <2>4. ~job.dry => \A x \in Repos \ ({next} \cup (job.todo \ {next})) :
                      <<x, head>> \in prs' /\ Here(x, head, branches[head])
    BY <1>3, <1>4 DEF Done, d
  <2>5. InvProposed'
    BY <1>3, <1>5, <1>6, <2>2, <2>4 DEF InvProposed, b
  <2>6. InvReported'
    BY <1>5, <1>8, <2>3 DEF InvReported
  <2> QED BY <1>1, <1>2, <1>6, <2>2, <2>5, <2>6 DEF RInv, InvOwn, InvBranch, NamesItsPin
<1> QED BY <1>9, <1>10

LEMMA RFail == ASSUME RInv, DInv', fail PROVE RInv'
<1>1. Kept
  BY FailKeeps DEF RInv
<1>2. job'.pc = "idle" /\ UNCHANGED <<own, branches, origin, prs, reported>>
  BY DEF fail, Idle, outer
<1>3. own => built' = built
  BY DEF fail, RInv, InvOwn
<1> QED BY <1>1, <1>2, <1>3, REnd

-----------------------------------------------------------------------------
LEMMA NextRInv == RInv /\ [Next]_vars => RInv'
<1> SUFFICES ASSUME RInv, [Next]_vars PROVE RInv'
  OBVIOUS
<1>1. DInv'
  BY NextDInv DEF RInv
<1>2. CASE UNCHANGED vars
  <2>1. UNCHANGED <<own, branches, head, built, origin, export, prs, job, reported>>
    BY <1>2 DEF vars, outer
  <2> QED BY <1>1, <2>1 DEF RInv, InvOwn, InvBranch, InvProposed, InvReported, NamesItsPin, Here
<1>3. CASE Next
  <2>1. CASE \E d \in Repos, dry \in BOOLEAN :
               \/ release(d, Main, FALSE, dry)
               \/ \E c \in Commits : release(d, Update(c), TRUE, dry)
    BY <1>1, <2>1, RRelease
  <2>2. CASE \E ref \in Commits, version \in Versions, skip \in BOOLEAN : update_grammar(ref, version, skip)
    BY <1>1, <2>2, RUpdateGrammar
  <2>3. CASE \E d \in Repos : \E b \in DOMAIN remote[d] : other_push(d, b)
    BY <1>1, <2>3, ROtherPush
  <2> QED BY <1>1, <1>3, <2>1, <2>2, <2>3, RWrites, REnsureOnBranch, RCommitChanges, RIdle, RRunRelease,
             RPublish, RClone, RCheckout, RGenAndCopy, RCommitRelease, RPush, ROpenDownstreamPR, RFail
          DEF Next
<1> QED BY <1>2, <1>3

\* Whatever was killed, by whoever ran it, and however often it was run again:
\* what propose-grammar-update says is released has a pull request for every
\* dialect, and is on the branch in every clone, from the content with the
\* commit that the branch is named for.  Of a dialect that is done nothing
\* goes away while the others are released, and nothing is said before.
THEOREM ReportedHasAll == Spec => []ReportedIsReleased
<1>1. RInv => ReportedIsReleased
  <2> SUFFICES ASSUME RInv, NEW r \in reported, NEW d \in Repos
               PROVE  /\ <<d, r[1]>> \in prs
                      /\ r[2].pin = r[1][2]
                      /\ \E k \in DOMAIN export[d].local[r[1]] : Tree(export[d].local[r[1]][k]) = r[2]
    BY DEF ReportedIsReleased
  <2>1. PICK c \in Commits : r[1] = Proposal(c) /\ r[2].pin = c /\ <<d, r[1]>> \in prs /\ Here(d, r[1], r[2])
    BY DEF RInv, InvReported
  <2>2. Proposal(c)[2] = c
    BY DEF Proposal
  <2> QED BY <2>1, <2>2 DEF Here, Has
<1> QED BY <1>1, InitRInv, NextRInv, PTL DEF Spec
=============================================================================
