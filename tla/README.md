# A formal model of ocaml-tree-sitter

ocaml-tree-sitter turns a tree-sitter grammar into an OCaml parser with typed
trees: grammars of other projects are extended with the constructs of Semgrep's
patterns (`...`, `$X`), a generator reads `grammar.json` and writes a simplified grammar, OCaml
types and functions; a runtime library matches the untyped tree of tree-sitter
against the rules and builds the typed one; scripts test, update and release
some fifty such parsers, in part by themselves from a scheduled workflow.

This directory holds TLA+ modules for the parts with logic of their own, the
TLC configurations that check them, and TLAPS proofs about seven of them (section 5).
`PROJECT.json` lists components, runs, hazards, theorems, mutations and, for
every definition, the lines of the source it stands for.

Run a configuration with `tlc -config MCMatchTree.cfg MCMatchTree`; check
proofs with `tlapm Release_proofs.tla`.

 1. [Inventory](#1-inventory)
 2. [Modules](#2-modules)
 3. [Runs, bounds and what they show](#3-runs-bounds-and-what-they-show)
 4. [Fairness](#4-fairness)
 5. [Proofs](#5-proofs)
 6. [Known divergences](#6-known-divergences)
 7. [Not modelled](#7-not-modelled)
 8. [Plan](#8-plan)

## 1. Inventory

### How the parts interact

    upstream's grammar.js, extension (lang/semgrep-grammars) ──tree-sitter generate──┐
         ┌───────────────────────────────────────────────────────────────────────────┘
         v
    grammar.json ──Simplify_grammar, Missing_node──> simplified grammar ──tree-sitter──> parser.c
         (names: Fresh, Protect_ident)                     │                                │
                                             CST_grammar_conv, Topo_sort, Rectypes          │ bindings.c
                                                           │                                │
                             ┌─────────────────────────────┤                                v
                  Nice_typedefs (Deinline,                 │                         untyped tree
                  Factorize, Inline)               Codegen_parse: regular                   │
                             │                     expressions, functions ────> Run, Backtrack_matcher
                  Codegen_CST: types ──────(must agree)────┘                                │
                                                                          typed tree, extras, errors
                                                                                            │
    lang-stat, aggregate-parse-errors <── stat.txt, json error log, exit status ── Main, Tree_sitter_error

    propose-grammar-update ──calls──> update-grammar --skip-release, test-lang, cursor_agent_runner
            │ push, PR                        update-grammar ──calls──> test-lang, lang/release
            └──release job──> run_release ──calls──> lang/release ──push──> downstream repositories

Generator, runtime and scripts meet in data only (files, git), except for the
two threads of the agent runner. The generator and the runtime are sequential
OCaml; what is hard in them is that two passes compute from one grammar what
must later agree. The scripts are sequential too, but several run at once (jobs
of the workflow, a developer), any command of them can fail, and they can be
killed; what is hard is what a clone or GitHub looks like afterwards.

### Components

Each entry says: state; operations; what is hard; what makes it correct.

* **Extensions of grammars** (`lang/semgrep-grammars`). For each of 53 languages
  `grammar(base, {...})`: rules that are new, that have `previous` (upstream's
  body) or its members as alternatives, or that restate a body. Evaluated again
  whenever upstream moves, which the extension is not asked about. Correct: it
  is refused, or still parses what upstream parses and still has Semgrep's
  constructs, and a generated parser loses no token of them.
* **Backtracking matcher** (`core/src/run/lib/Backtrack_matcher.ml`). A path of
  punctuation and tokens, the remaining tokens, a continuation. `match_exp` and
  its helpers in continuation-passing style, then `reconstruct`. Alternatives
  must be undone wholly; loops over things that match nothing must end; indexes
  run past the last case; of several matches the first way counts. Correct: a
  `Matcher`, that returns, with the preferred capture.
* **Runtime translation** (`Run.ml`, and the functions that `Codegen_parse.ml`
  generates). No state between calls. Removes extras (told by type) from the
  tree, matches, takes captures apart, scans for extras and errors. Extras can
  be nested, in errors, or asked for by a rule. Correct: every tree of
  tree-sitter is translated, no `assert false`, extras and errors are reported,
  no token is lost.
* **Simplifier** (`Simplify_grammar.ml`, `Missing_node.ml`). Whole-grammar
  passes: aliases for extras used explicitly, rules for patterns and tokens that
  would leave no node, inlining. Correct: with the next part, as above.
* **Conversion** (`CST_grammar_conv.ml`, `CST_grammar.ml`, `Topo_sort.ml`,
  `Rectypes.ml`). Normal form, unused rules, order of rules, cyclic
  abbreviations. **Rearrangement** (`Nice_typedefs.ml`, `Deinline.ml`,
  `Factorize.ml`, `Inline.ml`). Tables of nodes by structure, sizes that change
  as nodes are named. Correct: OCaml accepts the types, and they are the types
  that the functions of the parser were generated for.
* **Names** (`Fresh.ml`, `Protect_ident.ml`). Tables of names taken and of
  translations; candidates of different prefixes overlap. Correct: nothing is
  shared, nothing changes once given, a call returns.
* **Error reports** (`Src_file.ml`, `Snippet.ml`, `Tree_sitter_error.ml`,
  `Parsing_result.ml`), **standalone parser** (`Main.ml`), **statistics**
  (`lang-stat`, `aggregate-parse-errors`). Positions at ends of lines and of the
  file, empty regions; numbers passed through a file that a dead parser has not
  written. Correct: what is shown is what lies between the points, and the rows
  and the clusters of errors add up.
* **Agent runner** (`scripts/cursor_agent_runner.py`). Usage totals, turns,
  `capped_reason` under `cap_lock`; an event loop and a `threading.Timer`.
  Correct: one cancellation, for one reason that the totals explain, no timer
  left, and the caller gets an answer.
* **Grammar proposals** (`scripts/propose-grammar-update`). A clone of the
  repository (branch, index, work tree, submodules), the branches on origin and
  the PRs; about a dozen git, gh and test commands, a reset in a `finally`
  clause. Runs race each other for a tag, are interrupted and killed, follow
  each other in one clone, and an agent may edit what it was not asked to.
  Correct: what is pushed is what was tested, one proposal per tag, a truthful
  status, the clone put back, and nothing of a failed run in the next one's branch.
* **Updates and releases** (`scripts/update-grammar`, `lang/release`,
  `run_release`). Version lists written one file at a time, clones under
  `lang/export`, downstream branches. Commands fail half way and are run again.
  Correct: one version per language in every commit; downstream gets only what
  was tested; what is reported as released is released, for every dialect.
* Parts without a model are listed in section 7.

## 2. Modules

A module has the names of the code where TLA+ allows it. A name with a suffix
just before a definition (`ClaimCapAlways` before `ClaimCap`) is that
definition with a plausible error in it; nothing refers to it, and
`PROJECT.json` says which property it would break.

| module | models |
|---|---|
| `BacktrackMatcher` | `match_exp` and helpers as a machine: `call` is the function about to run, `kont` the stack of closures a continuation is made of, `choices` the pending `None ->` branches with what each restores, `pos` the consumed tokens, `path` the path. One action per `match` case or continuation |
| `MatchWays` | what each function of the matcher can match: the ways of a call as a set, made of those of the calls it makes, without continuations |
| `PreferredWay` | which of the ways comes first: an order on paths; the constant `Ways` gives the ways of every call |
| `Matcher` | the abstract matcher: a capture has the shape of the expression and the tokens at its leaves, and some capture of the whole input is the answer, or none if there is none; one step answers |
| `MatchTree` | `reconstruct`, with its assertions, and `match_tree`; refinement to `Matcher` |
| `Suffixes` | the candidates of a name, shared by the two below |
| `Fresh` | `Fresh.ml`; `issued` records the calls |
| `ProtectIdent` | `Protect_ident.ml`; a call of `add_translation` tries one suffix per step |
| `UniqueNames` | what `Protect_ident` promises |
| `GrammarNames` | composes the three: names made by the simplifier, its translation, the code generator's |
| `TopoSort` | what is reached from some names, the order of rules, cyclic abbreviations: of rules it takes what each uses |
| `CSTGrammar` | bodies of rules as trees, dependencies, used rules, `tsort_rules`, `prevent_cyclic_type_abbreviations` |
| `CSTPositions` | the same of bodies as functions from positions to nodes, for passes that replace nodes wherever they find them |
| `Rearrange` | one action per pass: `of_tree_sitter`, `deinline_rules`, `Factorize`, `inline_rules` |
| `GeneratedTypes` | the types that the definitions mean, compared where they are written: by type constructor, at every place under a rule's name |
| `Simplify` | `simplify_grammar`, `of_tree_sitter` of the conversion, `children_regexps` |
| `Translate` | `generate`, tree-sitter (external: `parse`, `add_extra`, `add_error`, `make_missing`), `parse_input_tree` |
| `Report` | from a node that is an error to its record and its snippet as plain text |
| `LangStat` | `Main.run` on files of projects, `handle_project`, `aggregate_errors` |
| `AgentRunner` | both threads; one action per statement that reads or writes shared state |
| `Propose` | runs in clones; one action per command of git, gh, update-grammar, test-lang or the agent, each with its failures |
| `Release` | update-grammar, lang/release and `run_release`; one action per command or write |
| `GrammarDSL` | the functions of tree-sitter's `dsl.js`, and `grammar(base, extension)` with what it refuses |
| `JvmGrammars`, `CFamilyGrammars`, `ScriptGrammars`, `ContractGrammars`, `DataGrammars` | the grammars of `lang/semgrep-grammars`, one definition each; together `SemgrepGrammars` |
| `GrammarUpdate` | upstream's changes to one rule (external), the evaluation of the extension, and the rule on its way through `Translate`; it has its own configuration |
| `MC…` | instances for TLC |
| `…_proofs` | theorems |

`Simplify` and `CSTGrammar` are shared: `Translate` uses both ends of what
`Rearrange` does in the middle, so the types of `Rearrange` and the trees of
`Translate` are about the same rules. There are two forms of a body. What walks
down a tree (matching, deriving) is a recursion on trees, `CSTGrammar`. What finds
a node anywhere in a body and replaces it is said of positions, without a
recursion, `CSTPositions`; the proofs about `Rearrange` rest on that. Both use
`TopoSort`. `GrammarUpdate` extends `Translate`: an
extended rule goes through the simplifier, the conversion, the code generator
and the matching of the runtime like any other.

Abstractions worth knowing:

* **Matcher.** The OCaml stack is data, so stack overflow is out of the model.
  Tokens are kinds; an expression is a record with an operator.
* **Names.** A name is a value and `Cat(p, n)` its n-th candidate. That
  candidates of different names can be equal is kept, the strings are not. The
  last resort of `Protect_ident`, a random suffix, is a choice from `Random`.
* **Grammars.** The text of a pattern or literal is its identity. `Tsort` is
  external: every order it may return is tried. Precedences and conflicts, which
  only tree-sitter reads, are left out.
* **Trees.** `parse` gives any derivation of the simplified grammar, bounded;
  then extras are put between nodes, subtrees become errors and tokens missing.
  Nodes that tree-sitter hides are spliced, as tree-sitter does.
* **Reports.** A character is its position, so what a string shows is known
  exactly. Colours and wording are left out.
* **Agent.** Input and output tokens are one number. The SDK's run is external:
  `status` can change at any time, sending and reading events can raise, and
  cancelling a run that has stopped raises.
* **Propose.** Files are classes (what the bump writes, what tests update, what
  the agent creates, `core/`, and whatever is `Elsewhere`); a submodule is its
  commit and whether its work tree is modified; `index.lock` may be held through
  all retries. The agent edits any of the sets of files in `Edits`, of other
  languages too: it is told to keep to its language, but nothing holds it to
  that. `git add -A` stages all of them but `core/`; the reset puts back what is
  below `lang/` and known to git (`Untouched` is the rest). An interrupt may come
  at every command, those of the reset included: nothing catches it there, and
  the commands left are not done (`CutShort`; `undone` remembers which, and which
  git refused). `left` is history: what the resets of a clone's earlier runs did not
  put back. A failed `git ls-remote` looks like no branch. PRs are not
  merged. An agent that runs git itself is left out, and so are files that it
  changes in other languages' submodules.
* **Release.** A commit of this repository is the submodule's commit and the
  version lists. `grammar.json` is built, not committed: `built` is the commit it
  was last built from in this clone, for all dialects. A downstream commit is the
  content and the grammar it was generated from, `Mixed` when a generation was
  cut short. Whether tests pass is a choice,
  limited by what `version_for_lang` demands. `publish` is the part of
  propose-grammar-update that `Propose` models in detail.

* **Extensions.** Of a base grammar an extension sees the names of its rules and,
  through `previous`, their bodies. The text of a pattern is its identity; names
  of fields, precedences and conflicts are checked for what `grammar()` refuses
  and otherwise left out, since the typed tree does not show them. A behavior
  follows one rule; the rules it refers to are tokens.

## 3. Runs, bounds and what they show

Deadlock is not checked: all are functions or commands that end, or have a
bound on their number.

| run | configuration | distinct states | shows |
|---|---|---|---|
| `matcher` | `MCMatchTree.cfg` | 158,063 | indexes and list accesses are in bounds (`IndexesInBounds`); the path, and each saved path, holds the consumed tokens once and in order (`TokensConserved`, `ChoicesNested`); the path returned is a way of matching the whole input and is preferred to every other, and there is none when `None` is returned (`FirstWay`); it implements `Matcher` and returns |
| `names` | `MCNames.cfg` | 24,063 | no name twice, `init_scope` accepts exactly lists without repetition, tables inverse to each other, no two rules share an OCaml type, refinement of `UniqueNames`, every call returns |
| `rearrange` | `MCRearrange.cfg` | 10,178 | no cyclic abbreviation, everything defined before its use, same types before and after |
| `translate` | `MCTranslate.cfg` | 124,716 | the tree is translated whatever extras and errors it has, no exception, extras in order and only those, errors reported iff there are any, no token lost |
| `stat` | `MCLangStat.cfg` | 55,211 | reported text and highlighting are exactly the error's region; rows of stat.csv add up as long as the parser wrote its numbers; clusters have all errors that the rows count, each once, unless a parser ended early |
| `agent_caps` | `MCAgentRunner_caps.cfg` | 7,736 | one cancellation, for a reason that the totals explain, totals that are kept, no timer left, a result always |
| `propose_race` | `MCPropose_race.cfg` | 351,289 | two jobs, two languages, own clones, an agent that edits core and other languages: pushed is tested, one branch never replaced and one PR, "updated" means a PR, every run ends |
| `propose_clone` | `MCPropose_clone.cfg` | 3,016,361 | two runs, one after the other, in one developer clone, all modes, `index.lock` held by others: after a run without a commit each command of the reset that was done has put back its part, whatever git refused and wherever an interrupt cut the reset short (`Restored`); of another language a run pushes only what was committed in the clone or what a reset did not put back (`CarriedOver`) |
| `release` | `MCRelease.cfg` | 1,326,718 | commands fail or die anywhere and are repeated in the same clone: each commit has one version for all names; what is downstream says a tested content, and what update-grammar releases has that grammar's parser; reported means a PR and a commit for every dialect |
| `upstream` | `GrammarUpdate.cfg` | 185,724 | each of the 811 rules of 53 languages, upstream changing it twice: the extension is refused, or keeps upstream's forms, Semgrep's constructs and every token |
| `release_fresh` | `MCRelease_fresh.cfg` | counterexample | section 6, finding 1 |
| `translate_keyword` | `MCTranslate_keyword.cfg` | counterexample | section 6, finding 2 |

Each run takes at most two minutes.

### Bounds, and why they are enough

* `matcher`: all expressions with up to two operators (the second above any of
  depth one, its sibling a token or nothing), the empty `Alt` and `Seq`, and
  loops over sequences and alternatives of loops; all inputs up to three tokens
  of two kinds. Two kinds are enough to fail and to succeed; three tokens let a
  loop be entered, undone and entered again; nested loops are where repeated
  matches of nothing and ambiguity occur. `Ways` is the unfolding of `MatchWays`
  as a recursive operator, `MCWays`, and TLC evaluates `WaysAssumption` on it.
  The theorems of section 5 have no
  bound.
* `names`: five calls (`MaxNames`) with prefixes whose candidates collide
  (`c`, `c_`, `__c`), two reserved words of which one is a candidate of the
  other, all six good suffixes (`NumGood`) and one random one.
* `rearrange`: 1092 grammars × 2 sets of extras, all combinations of bodies
  chosen so that a duplicate, a cycle, an unused rule, a pattern with a name of
  its own and an alias occur in every position relative to each other; a node is
  large from three nodes and frequent from two uses, so that small grammars reach
  what the defaults of the code need large ones for. Types are compared at
  all pairs of places that are reached from the names of the rules, so at any depth.
* `translate`: seven grammars after those in `core/test`, one per feature;
  derivations of depth three (`MaxDepth`), repetitions up to two, and two
  edits, so an extra in an extra, an error in an extra and an extra in an error
  occur.
* `stat`: every text of four characters with an error in every region, and
  some longer ones; limits of fragments are set to 2 and 3, so that lines of
  five characters are shortened; pairs of files and of projects for what one
  file leaves to the next (`MCLeftovers` is an old `stat.txt`), and no project at
  all.
* `agent_caps`: caps of 3 tokens and 2 turns, 4 events: each cap can be hit
  exactly, exceeded, hit together with the other, or by none.
* `propose_*`: two runs in all (`MaxRuns`). One more would only repeat what a
  second run finds of a first. `Fresh` gives each run a new clone, as in the
  workflow; `Inherited` lets tests rewrite a submodule's files (the grammars
  whose corpus is linked). For `propose_race` `Inherited` is off to keep it
  small: jobs have own clones, and nothing of a submodule's work tree is pushed.
  `Edits`: in `propose_clone` nothing, a test of one language, a new file of the
  other with a file elsewhere, or both; in `propose_race` a test with a file in
  `core/`, or a new file, of a language that may be the run's or the other. Two
  runs in one clone are what `CarriedOver` is about: the second one, of the other
  language, starts on what a success, a failure, an interrupt or an unfinished
  reset of the first one left.
* `release`: two commits, two versions, two dialects, two commands
  (`MaxJobs`), two events elsewhere (`MaxEvents`): a command, its repetition,
  and somebody else in between.
* `upstream`: every rule of every grammar, so nothing is sampled. An update is
  one of five kinds (an alternative more, a sequence, a precedence, a rule split
  off, the rule gone); two of them (`MaxUpdates`) combine each kind with each,
  which is what `...previous.members` and nested precedences need; a third would
  only nest deeper what the extension does not look into. Trees have depth two
  (the rule and the tokens below) and up to two repetitions, without extras and
  errors, which `translate` is about. Two exceptions are part of the properties,
  because the code makes them: a rule that the extension restates does not
  follow upstream, and `...previous.members` of a sequence takes its elements for
  alternatives (`Scattered`; the property says that exactly those rules lose
  forms). Section 6 lists the rules.

### Mutations

For each property of a passing run `PROJECT.json` names a definition and a
changed form of it that breaks the property in that run: a guard dropped, a
reset forgotten, an order swapped.

## 4. Fairness

* `MTFairSpec`: weak fairness of `match_tree`. A sequential function runs on
  until it returns; the question is whether it does.
* `GrammarNames.FairSpec`: likewise for the search for a suffix. Nothing is
  said of a caller's next call.
* `AgentRunner.FairSpec`: threads are scheduled (`Send`, `MainStep`, the timer's
  steps), the timeout expires, and a run that was asked to stop stops. Nothing
  obliges a run to emit events, to stop by itself or `run.wait()` to answer
  before it stopped: `Returns` holds of silent runs too, thanks to the timer. It
  rests on `cancel()` being heard by a run that is still running; it raises on a
  run that has stopped, which is what the comment of `_cancel_if_running` says of
  the SDK. Were it to raise on a running one, nothing would ask that run to stop
  a second time, and `run.wait()` has no timeout.
* `Propose.FairSpec`: each command answers, with success or failure (the agent
  does because of `Returns`, the tests by the job's timeout). A job may be killed
  but need not be.
* `LangStat`, `Rearrange`, `Translate`, `Release`, `GrammarUpdate`: safety only.

## 5. Proofs

All for every value of the constants under the named assumptions; TLC evaluates
the assumptions in the runs.

* **`BacktrackMatcher_proofs`** (assumes `ExpAssumption`: subexpressions are
  expressions). `TypeCorrect`: type and bounds together, neither is inductive
  alone: that `match_case` is in bounds needs what the pending choices and
  continuations refer to (`KontOK`, `ChoiceOK`). `Conservation`: the current
  path and all saved ones record the consumed tokens; a step appends punctuation
  (`RecordsPunct`) or a token (`RecordsToken`), or goes back to a saved one.
  `Nesting`: saved paths are prefixes of each other in the order of `choices`,
  and of the current path. None of these three depends on what the expression
  matches. `WaysExist` and `WaysUnique` are about `MatchWays`: for every set of
  expressions there are ways made of those of the calls that a call makes, and
  only one such system. A system exists because unfolding is monotone: the ways
  that every system closed under it has are one. That two are equal is an
  induction on the size of a way, its path's length doubled and one more where a
  function calls another before anything is recorded: each call that is made
  has a smaller part of the path, even where an iteration matches nothing,
  since the code's test forbids another one after it.
* **`PreferredWay_proofs`** (`ExpAssumption`, `WaysAssumption`).
  `PreferredWayFound`: the path returned is a way of matching all of the input,
  preferred to every other, and `None` means that there is none. The invariant is
  about the ways that are still open: those of the current call followed by
  its continuation, then those of each pending choice in turn. They are all the ways
  of the root that have not failed, and each of one group is preferred to each of
  a later one. A step divides the first group in two (a choice is made), drops an
  empty one (a failure) or leaves them as they are. `WaysDetermined`: nothing but
  the set of all ways meets `WaysAssumption`, so what the theorem says of
  `Ways` it says of what the functions can match; `WaysExist` says that the
  assumption can be met.
* **`AgentRunner_proofs`** (`CapAssumption`). `OneCancellation` and
  `ReasonJustified` are not inductive; `IInv` adds where each thread may be
  (`InvPlaces`), that at most one thread is between claiming and cancelling and
  then the reason is set and not yet acted upon (`InvOwner`), and that main's
  totals agree with what it is about to claim (`InvReason`). From it:
  `TypeCorrect`, `SingleCancellation`, `JustifiedReason`, `CleanExit`,
  `FinalReason`, `KeptUsage`.
* **`Names_proofs`** (`FreshAssumption`: the given names are their own
  candidate 0). `ScopeInvariant`: every candidate under a prefix's counter is
  taken by an issued name. Without that link between the counters and the names
  nothing follows about a skipped suffix. From it `NamesAreUnique`,
  `InitScopeIsRight` and `SuffixesAreLeast` (`LeastFree`: a name is the first
  candidate that no earlier call has returned; a theorem only, no run). For the search for a suffix
  (`ProtectIdentAssumption`): `TranslationIsOneToOne` (the two tables are
  inverse), and `ImplementsTheMap`: each step of the search is a step of
  `UniqueNames`, or a stutter. `RulesKeepTheirTypes` (`OneTypePerRule`) is about
  the simplifier's translation and the code generator's after it: two rules share
  no OCaml type and none gets a reserved word. `GInv` says that both pairs of
  tables are inverse (`Inverses`) and that the second translation, the only one
  to have reserved words, never gives one (`NoneReserved`).
* **`Release_proofs`** (`ReleaseAssumption`). `CommitsPinOneVersion`: every
  branch of the clone pins all names to one version, whatever died before.
  `OnePin` is not inductive, since work trees between two writes pin none or
  several, and since a second command may start in such a tree (`--skip-release`
  does not look at it). `IInv` says what is known while update-grammar runs
  (`InvSync`): the names of a family are in the version's own file once its
  writes are done, whatever else was in the tree; test-lang then demands that
  each name is in exactly one file, so all are in that one (`TestedGood`); and
  that branches here and on origin are good. Branches of `publish` are content
  made for one version (`ContentGood`).
  `OnlyTestedIsReleased`. `ReleasedWasTested` speaks of what is downstream, but a
  content gets there over a branch, the work tree, the files of an export, the
  history of a local branch and that of a remote one, and any command may end in
  between and leave its part for the next. `DInv` follows it: branches here and
  on GitHub hold tested contents; from the check of a clean work tree to the
  commit downstream, the work tree is the branch that is checked out; every
  entry of a history, in clones and downstream, is one of a tested content, and
  only the files of an export may be `Mixed`, until they are generated again.
  For update-grammar, `built` is the work tree's commit from its tests on.
  `ReportedHasAll`, that `ReportedIsReleased`, is proved on `DInv`. The report is
  made once, after the last dialect, but about all of them, each released earlier
  in a clone of its own. Two things carry it:
  a step never takes away what was committed in a clone (`Kept`: a checkout, a
  fast-forward, a commit, one lemma for each), and `InvProposed`, what a run has
  done for the dialects that are neither current nor to come. A step from one
  place of lang/release to the next is one lemma (`RStep`). A release with nothing
  to commit relies on the last commit of the branch being from this very content,
  hence on histories that are not empty. In a workflow job's own clone nothing is
  ever reported (`InvOwn`), which is the finding of `release_fresh`; the theorem
  is about clones that have a built grammar.
* **`Propose_proofs`** (`ProposeAssumption`: there is a language, and the
  arguments are those of the command line). `PInv` says what holds of a clone by
  where its run is: a branch that is checked out is there (`HeadOK`); a run that
  is to open a PR is on its language's branch from the checkout on (`KeepOK`); its
  submodule is at the new commit, so its own commit is never `Base` (`BumpOK`);
  what test-lang saw goes from the work tree over the index to the branch
  unchanged, but for `core/` (`GreenOK`); each command of the reset that is not in
  `undone` has put back its part, and neither later commands nor one that was
  refused or cut short disturb it (`ResetOK`). Between clones,
  only one run can be between the push and the PR of a language (`Proposing`),
  since origin refuses the second push. From it `UpdatedHasPR`, `ResetRestores`,
  `TestedIsPushed`, `OneProposalPerTag`, `TypeCorrect`, whatever the agent edits
  (`Edits` is any set of sets of files) and whether or not runs have clones of
  their own. `CInv` is about runs that follow each other in a clone. A submodule
  that is at the new commit was committed in this clone, or a reset left it so, or
  it is the run's own, not yet reset (`SubCarried`); files of a bump in the work
  tree or the index are those of the branch that is checked out, or a reset left
  them, or they are the run's own (`FilesCarried`); the branch starts at the base
  (`Branched`), so that what is committed on it is no more than that
  (`TipCarried`). It needs `PInv`: that the index was reset before the files are
  taken from it, and that a commit of a bump is never the base. From both
  `NothingLeaks`, with the hypothesis `BumpsKept`: no agent edits the files a bump
  writes (else it could edit those of another language, and they would be pushed).
* **`Rearrange_proofs`** (`RearrangeAssumption`: the grammars have what
  `of_tree_sitter` makes of any grammar, all that is used is a rule and a rule
  that is a token has its name; the names for new rules are not taken; a node
  worth a name has a size). `NeverCyclic` (`NoCyclicAbbreviation`) and `AlwaysDefined`
  (`DefinedBeforeUse`), from `PassesInv` (`PassesSafe`). A relation is `Acyclic` when
  no set of names but the empty one has a successor in it for each member
  (`Endless`); that needs neither paths nor a recursion, and such a set is what
  each step of the argument is about. `Reach` is the least closed set
  (`Reached`, `ReachedLeast`). Rectypes looks for a cycle within one group of the
  order, rule by rule; that it misses none is `RectypeFound`: in an endless set
  the rule that reaches least is reached from all it reaches, so all of these are
  in its group. Factorize can join bodies with any others (`FactoredNames`): of a
  cycle among the rules it makes, a link that is a node replaced leads to a
  smaller body that uses nothing more, so there would be a cycle of names, in
  rules there were before. Inline resolves names through symbols, which ends because
  there is no cycle (`ResolveIs`); what it copies is under a variant, and what
  a symbol becomes is a token, so nothing new is abbreviated (`InlinedAcyclic`), and
  what is copied was sorted before (`InlinedSorted`).
  `TypesStaySame` (`SameTypes`), from `TypesInv`. The parser's functions are
  annotated with types that are written after three more passes, and a type is
  compared by its constructor and by what is under it, through names, without a
  bound on depth: an induction over types would be one over data. The proof has a
  relation between places instead. `Alike(g, h)` says that there is one
  between the places of two grammars, with the place of every rule of `g` related
  to that of its name in `h`, by which related places have the same constructor
  and related arguments; then all that is reached together is the same
  (`AlikeTypes`). Such relations can be composed (`AlikeTrans`), so each pass only
  has to be like the one before it. For that, what is abbreviated must come to an
  end (`TypesOK`): a chain of names, aliases and tuples of one that does not end
  would be an endless set of names, which `NoCycles` excludes (`AbbrAcyclic`,
  `GrammarTypes`), and where two chains go in step they end at one constructor
  (`Lockstep`). A node that Factorize replaces is equal to the body of the rule
  that replaces it (`FactoredAlike`), a name that Inline resolves leads to the
  body that is put in its place, argument by argument (`InlinePut`), and what is
  not replaced has its arguments at the same positions (`InlineKept`; together
  `InlinedAlike`). TLC has checked `PassesInv`, with `TypesOK`, on the grammars of
  the run; `Alike` asks for a relation, which TLC cannot enumerate.
* **`LangStat_proofs`** (`ProjectsAssumption`: both points of an error are places
  in the text of its file, the first not after the second, and what an earlier run
  left in `stat.txt` are numbers; `ReportAssumption`). `RowsRight`: `RowsAddUp`. `Inv` says
  where the command is and which projects have a row (`Progress`), that no failure
  is recorded of a file to come (`Recorded`), and that every row, and the counts of
  the current project up to the file that is done, are sums over those files
  (`RowsTally`). What needs care is `stat.txt`, which a parser that died
  does not write: the numbers then read are an earlier file's or an earlier run's.
  `CurrentFile` says that they are this file's unless the parser died on it, and
  the sums of errors are only claimed of rows without such a file; the columns of
  failures are claimed of all. The lemmas on sums say that a sum over a set does
  not depend on the order in which the elements are chosen.
  `ClustersRight`: `ClustersAddUp`, on `Inv` and `LogInv`: the log has, as far as
  number and lines of each class tell (`Logged`), the errors of a set of those of the
  files that the parser is done with, and that set has all errors of a file unless
  the file is counted as an internal or another error (`AllLogged`). Which errors
  a parser that ended early has left in the log need not be known. The set grows
  with the log error by error (`LoggedMore`, `LoggedFile`).
  `ReportsRight`: `ErrorsLocated`, for every text and every limit on what is
  shown. The state adds only that what is at hand is what the parser made of a
  file (`Parsed`); the rest is about `Src_file` and `Snippet`: the lines of
  `split_after_newline` cover the text in order (`LineBounds`), a place has one
  point and a point one place (`PointIs`, `OffsetIs`), `get_region` returns the
  text between two places (`RegionIs`), `extract_line` cuts each line at the ends
  of what is to be highlighted (`RowBetween`, `ExtractPieces`), shortening keeps the ends of a
  line and something of each fragment (`ShortenLine`), and a line has the underline
  that fits it fragment by fragment (`LineMarked`). Inductions over texts and
  lists are on sets of numbers and of sequences (`SetInd`, `SeqInd`), which
  the provers can instantiate.

Only model-checked:

* Liveness (`Terminates`, `Returns`, `RunsEnd`, `Answers`): TLAPS has no rules
  for fairness here.
* `ImplementsMatcher`: `reconstruct` and what a capture means are recursive
  operators over expressions, and an induction over those is out of the prover's
  reach. The ways of the matcher could be proved about because they are sets of
  paths: the induction there is on a length.
* `Translated`, `NoException`, `ExtrasRight`, `ErrorsReported` and `Lossless`: trees
  are built and read by recursive operators too. Besides, they do not hold of every
  grammar (finding 2 of section 6 breaks `Translated`): the run is about
  grammars in which no keyword is spelled like the rule of an extra.
* `UpstreamParsed` and `ConstructsKept`: they are about the 53 languages whose
  grammars extend upstream's, all of whose rules are in the run, and not about
  every value of a constant.

## 6. Known divergences

Findings, each with a run whose counterexample shows it:

1. `release_fresh`: the release job generates from a `grammar.json` that is not
   in the repository and that nothing in its path builds
   (`propose-grammar-update` 1573, `lang/release` 228). In the fresh clone of the
   workflow there is none, and nothing can be released; in a clone that was used
   before, the parser released is that of whatever was built last.
2. `translate_keyword`: extras are told by node type alone (`Run.ml` 245), so a
   keyword spelled like an extra's rule is removed and reported as an extra; a
   correct program then has no tree and no error.

Smaller ones that were met while reading; the models do what the code does:

* propose: `reset_language_state` says it undoes every mutation (860), but
  untracked files and those outside of `lang/` survive, and each step is given up
  when `index.lock` is held for too long. A Ctrl-C during the reset itself, its
  retries included, ends the command with the rest of the clone not put back
  (1203-1208): `Restored` therefore says of each step what holds if it was done.
  The submodule is checked out before it is cleaned (869-870): git refuses that
  when rewritten snapshots conflict, and the submodule stays at the new commit.
  An interrupt between `git commit` and the assignment to `committed` resets to a
  branch that has the commit. Nothing holds the agent to its language: what it
  edits elsewhere is committed, and what it edits in `core/` is part of what was
  tested but not of what is committed; likewise rewritten corpus files in a
  submodule. `PushedIsTested` therefore leaves `core/` out and compares commits of
  submodules. A dry run's status makes a later integration step skip it.
* propose, several runs: `git checkout -B` leaves submodules alone (1110) and
  `git add -A` stages the whole repository but `core/` (1183), so a second
  successful `--open-pr` run in one clone commits the first language's submodule
  too, although "a grammar bump must only move the language submodule / lang
  files" (1179). `CarriedOver` says exactly what can come along. Jobs of the
  workflow have clones of their own. A run that fails is reset but leaves its
  branch in the clone (1110, 1207), which `existing_proposal` takes for a proposal
  (914): repeated there, the command says "exists" and proposes nothing, in spite
  of "so a failure never leaks into the next run" (27). The branch is pushed before
  the PR is opened (1008, 1021): when gh fails or the job is killed in between,
  later runs find the branch, say "exists", and no run opens the PR.
* agent: `cancel()` can be called on a run that ended after its status was read
  (138-147), in spite of "cancel only while running".
* names: `init_scope` calls `x_` a duplicate in `["x"; "x"; "x_"]` too. After
  six good suffixes `Protect_ident` takes a random one (172), so its answer is
  not reproducible.
* translation: a structured extra that is also used explicitly gets a blank
  rule (`Simplify_grammar.ml` 234); the recursion of `Run.ml` is as deep as the
  tree.
* statistics: after a parser that died, the numbers are those of an older
  `stat.txt` (`lang-stat` 59); the column "Failed files" holds a number of
  errors; `set -e` is off in `handle_project`; a
  parser that dies while it writes can leave half a line in the log of errors,
  which is no JSON and stops `aggregate-parse-errors` (76; the model writes
  whole lines); a region that ends in column 0
  counts one line more (`Parsing_result.ml` 28), so a coverage can be negative;
  the end position is exclusive although `Tree_sitter_error.mli` 40 says it is
  not.
* releases: a new branch without changes is not pushed although the usage says
  so (`lang/release` 36-38, 249-254); after a refused push a repetition finds
  nothing to commit and succeeds without pushing (`ReportedIsReleased` therefore asks for a
  commit in the clone, not downstream); `--dry-run --branch B` leaves
  a local branch on which the real command then fails; nothing checks that
  test-lang was run; update-grammar releases one dialect only; `run_release`
  takes a stale local branch in a reused clone.

* extensions, silent: a rule that restates upstream's body does not follow it
  (TypeScript `semgrep-ext.js` 121-151, 194-199, bash 86, "Fragile. Copy of the
  original", Dockerfile 22-113, Hack 121-240, Sui 103-145 and 220-256, Java 89,
  FGA); `...previous.members` takes the elements of a sequence for alternatives
  (C# 71, 80, 120, C# pro 64, 73, 99, FGA 48, Sui 176, Rust 79, Aptos from 119,
  Cairo, QL 53-78, Elixir 33-80, Gosu 28, 31). Refused when evaluated: a rule that
  was extended and is gone, `previous.members` of a precedence or a symbol, a
  symbol in a token (Rust 43, TypeScript 287, Ruby 124, Aptos 234).
* extensions, others: `doc/semgrep-constructs.md` 25 allows `$_`, Scala's pattern
  does not (21); Sui's pattern for identifiers ends in a stray `]` (277); rules
  that nothing leads to (`semgrep_metavariable` of Java and Dart,
  `semgrep_ellipsis` of Haskell); Apex's `parser_output` leaves out upstream's
  alternatives; Swift's `...>` is also a custom operator (35-55).

## 7. Not modelled

* tree-sitter itself; its promise is in `Translate.parse` and the edits.
* `bindings.c`, `Tree_sitter_API`: lifetimes of C objects (planned).
* `Thompson_matcher.ml`, `Possessive_matcher.ml`: no parser uses them.
* Text: printing of generated code, JSON and JavaScript of grammars, dumps,
  code samples, spelling of names made from patterns.
* Choice of a tag upstream (planned), listing, summaries, duration parsing,
  heartbeat.
* Provisioning of tree-sitter, ABI arguments, other reports and tests: calls of
  other programs, no state that outlives them, or a choice of failure in the
  modules above.
* Extensions: conflicts between rules, lexing and precedence, which decide which
  of several parses tree-sitter takes; the models have all of them. The grammar
  modules do carry patterns and levels of precedence, to be read beside their
  `grammar.js`, but no property depends on what they are.
* `lang/<language>`: languages without an extension here, their tests, and code
  that is generated.
* Power failures inside a single git command; SIGKILL in a clone that is used
  again for proposals.

## 8. Plan

Order of importance was: the matcher, on which every parser rests; names and
grammars, where two passes must agree; the runner and the scripts, which run
unattended. Written so far: all modules of section 2 with their runs; the
theorems of section 5.

Next, models:

1. `TagResolution`: which tag is newest and whether the submodule is older, by
   version order and by ancestry, which can disagree.
2. `Bindings`: parser, tree and node objects with their finalizers, against a
   use after free.
3. Provisioning that is interrupted and repeated.
4. `Release` together with `Propose` as one module, in place of `publish`; the
   outer repository aligned with the branch that was validated.

Next, theorems:

1. `Translate` with trees as functions from positions to nodes, as the bodies of
   rules are in `CSTPositions`: `Lossless`, `ErrorsReported` and `ExtrasRight`
   could then be proved of all grammars as inductions on the length of a position.
