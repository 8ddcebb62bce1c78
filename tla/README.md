# A TLA+ development of Domino

Domino checks state-separating proofs in cryptography. A user writes *packages*
(stateful oracles), composes them into *games*, and states *theorems*: that one
game instance is indistinguishable from another, by a sequence of *game hops*.
This directory holds models of the parts of Domino on which that verdict rests,
the TLC runs that check them, and proofs of the most important results.

Paths are relative to the repository; the Rust sources are in `src/src`, the
command line in `src/crates/domino`. `PROJECT.json` lists the components, the
runs, the source lines every definition stands for, the hazards and the
theorems. Run TLC as `tlc -config X.cfg M` and the prover as `tlapm M.tla`.

## 1. The system

    .ssp files ── parser ──► packages ─► games ─► theorem
                               │          │          │
                               │          │          ├─ propositions ──── proof search
                               │          │          ├─ reductions ────── reduction check
                               │          │          └─ lemmas of an
                               │          │             equivalence ───── induction step check
                               ▼          ▼
                        transform pipeline (per game instance)
                               ▼
                        SMT writer: functions of the oracles, claims
                               ▼
    prove command ──► equivalence driver (thread pool, display)
                               ▼
                        solver channel ─ one solver process per claim

| component | state it keeps | operations | interacts by |
|---|---|---|---|
| package, game, theorem parser | scope stack, declarations, instances, wires, exports, hops | read one block of a file, check it, finish the file | returns a value to the loader |
| induction step check | the set of claims established so far | grow it until it stops, then look for the targets | error at parse time |
| reduction check | none beyond its recursion | check two mapping specs, compare the rest | error (or panic) at parse time |
| proof search | instances met, work queue, backlinks | visit, try every hop, trace back | proof or error at parse time |
| transform pipeline | game, sample positions, offsets | nine passes | result used by the SMT writer |
| SMT writer | none | write oracles, relations, claims as SMT | text to the driver |
| prove command, project | loaded files, the hop it is at | load, then loop over theorems and hops | calls the driver |
| equivalence driver | results, thread pool, display | select groups and claims, run them, collect failures | threads, one mutex, solver channel |
| solver channel | channel, buffer, child process | write entries, wait for an answer, read a model | a thread, a channel and two pipes |
| exports (LaTeX, pseudocode), formatter | none | print | |

What is hard here. The parser decides three questions about proofs with
algorithms of its own (is this set of lemmas circular, is this a reduction, do
these hops prove that proposition): a wrong yes is a false theorem. Names are
replaced by values one at a time, twice, and compared afterwards. The pipeline
rewrites programs nine times, and the solver only ever sees the result. Every
claim is put to the solver for a call that starts with all sample counters at
zero, and is used for calls that do not. The driver runs claims in a pool whose
waiting threads run each other's work. The channel reads a byte stream in
arbitrary chunks from a process that may die. Nothing is persisted and nothing
is retried, so there is no recovery to model.

What makes each part correct:

* parsers: what is accepted is typed; every name means one thing; every wire
  ends at one oracle of the right type; instances are substitutions.
* induction step check: accepted claims imply the induction step although some
  assume what others prove; sufficient claims are not refused; it ends.
* reduction check: what is accepted is a reduction, what is a reduction is accepted.
* proof search: a proof found follows from the hops; a short proof is not missed; it ends.
* pipeline and SMT writer: no pass changes what an oracle does; its result has
  the form the writer relies on; every random draw has a number and a bound; the
  term written for an oracle computes what the oracle does.
* claims: if all of them are proved, an adversary cannot tell the games apart
  under a fair coupling of their randomness.
* prove command: success means that everything that was asked for is proved.
* driver: no failure reported means every obligation was proved; a transcript
  holds the query it is named after; the display never claims more than has
  happened; it ends.
* channel: a verdict is the solver's answer to the whole query that was written;
  the threads and the solver do not block each other.

## 2. Modules

| module | models | source |
|---|---|---|
| `Scope` | the stack of name tables | `util/scope.rs` |
| `Expressions`, `Parsing` | expressions and identifiers; types, results and contexts of the parsers | `expressions.rs`, `types.rs`, `parser/common.rs` |
| `TypeInference` | types of expressions, with what is wanted handed down | `parser/package.rs` |
| `PackageParser` | a package file, block by block | `parser/package.rs`, `parser/common.rs` |
| `Instances` | a package in a game, a game in a theorem; matching signatures | `packageinstance.rs`, `theorem.rs`, `types.rs` |
| `Instantiation` | rewriting and matching of types, expressions and code | `packageinstance.rs`, `identifier.rs`, `types.rs` |
| `SortNames` | whether the sorts of a game instance can be written | `types.rs`, `identifier.rs`, `writers/smt/`, `transforms/type_extract.rs` |
| `GameParser` | a composition file | `parser/composition.rs` |
| `TheoremParser` | a theorem file: instances, hybrids, hops | `parser/theorem.rs` |
| `Project` | loading all files, then the prove command | `project/`, `gamehops/equivalence/mod.rs` |
| `TypeRules`, `PackageRules` | reference definitions of typing and of paths through code | |
| `ProofRules`, `ProjectRules` | the properties of wires, of hybrids and of a proof that succeeded; all others | |
| `SspLanguage` | abstract syntax of oracles, and an interpreter | `statement.rs`, `expressions.rs`, `ssp.pest` |
| `Transforms` | the passes, as operators on programs | `transforms/*.rs` |
| `SmtWriter` | the terms written for oracles, and an evaluator | `writers/smt/writer.rs`, `writers/smt/contexts/` |
| `TransformPipeline` | their composition, one action per pass, then the writer | `transforms/theorem_transforms.rs` |
| `InductionStep` | lemmas of one oracle and `verify_induction_step` | `parser/theorem.rs` |
| `EquivalenceQuery` | what is asserted for each claim | `emit.rs`, `patterns/relations/`, `smtrewrite.rs` |
| `EquivalenceClaims` | claims read, checked, verified; then an adversary plays | the two above |
| `ReductionCheck` | `handle_reduction_body`, mapping specs, `compare_reduction` | `parser/reduction.rs` |
| `ProofSearch` | search over specialised instances | `proof.rs` |
| `EquivalenceVerdict` | what verifying an equivalence promises (abstract) | `verify_fn.rs` |
| `EquivalenceDriver` | the driver; implements `EquivalenceVerdict` | `verify_fn.rs`, `ui/` |
| `ClaimCheck` | what checking one claim promises (abstract) | `verify_fn.rs` |
| `SolverChannel` | caller, forwarding thread, pipes and solver | `util/process.rs`, `util/smtsolver/` |
| `ReadBuffer` | the growing buffer of the reads, in bytes | `util/process.rs` |
| `SolverReader` | the two composed; implements `ClaimCheck` | `util/process.rs` |
| `*Proofs` | the theorems about the module of that name (`SolverReaderProofs`: with those of `SolverChannel` and `ReadBuffer`) | |
| `RecursionProofs` | lemmas for these proofs: induction over numbers and finite sets, recursive functions | |

`MC*` modules give the constants of a module their values. Definitions marked
*faulty variant* are plausible mistakes that stand next to what they would
replace; nothing uses them, they serve to show that each property can fail.

### Files: `Scope` to `Project`
A file is a sequence of blocks, and reading one is an action: `ctx` is the
context of the parser between two blocks, and becomes a package, a game or a
theorem at the end of the file. An identifier is a tuple of its kind (package
constant, state, argument, local, game constant, theorem constant, ...), its
name and where it belongs, with the value it has been given; types carry
identifiers as lengths of bit strings. `HandleExpression` of `TypeInference`
follows the code in handing down the type that is wanted and gives back an
expression with resolved names and its type, or an error, or a panic where the
code has one. `Instantiation` rewrites signatures and code one name at a time, as
`InstantiationContext` does.

`GameParser`, `TheoremParser` and `Project` do not extend these two modules: what
recurses over types, expressions and code is left open in them, as constants that
are operators, and `MCProject` gives each its definition:

| constant | of | stands for |
|---|---|---|
| `ReadType`, `ReadExpression` | `GameParser` | `HandleType`, `HandleExpression` |
| `WithLengths`, `CannotReplace` | `GameParser` | `ReplaceLengths`, `StopsReplacing` |
| `TypeFor`, `ExpressionFor`, `CodeFor` | `Instances` | `RewriteType`, `RewriteExpression`, `RewriteCode` |
| `SameType`, `NamesAType` | `Instances` | `TypesMatch`, `HasUserType` |
| `ReadPackageSpec` | `Project` | `HandleBlock` of `PackageParser` |
| `SortsAreNamed` | `Project` | `EmitsSorts` of `SortNames` |

The runs thus check the code as it is, while a theorem about `Project` holds
whatever these operators do. `InputsAssumption` is what the grammar
(`parser/ssp.pest`) makes of a theorem file and clap of a command line: lists are
lists, a hybrid has one or two sides, a hop is of one of four kinds.

`Project` then proves: `StartTheorem`, `PassHop`, `ProveHop`,
`FinishTheoremProof`. The prover of one hop is one step here, with the
obligations that the flags leave; `refuted` says which of them do not hold. The
options `--proofstep` only with `--proof`, and not both `--invariant-start` and
`--oracle`, are respected by the command lines. Not in the model: theorems are
taken in the order of their names by the code and in any order here; invariants
of packages and games are obligations in `EquivalenceDriver` and
`EquivalenceQuery`, not here; neither are the transformations and the invariant
files, which are read again before a hop is proved; of an equivalence, what an
oracle says of its randomness. The pattern of `--claim` is represented by the set
of the names it matches; that a pattern which is none panics
(`verify_fn.rs:106`) is left out.

`SortNames` says of a theorem and one of its instances whether the writer can
name every sort it comes upon: in constants and their values, states, signatures,
draws, wires and the expressions of oracle code. A length must end at a constant
of the theorem or a literal, a function that is called too, and functions, sets,
lists and declared types have no sort. Two things are coarser than the code: what
a loop that runs no times writes counts, and so does code behind a `return`; and
two instances of one package, which share the record of its parameters in the
SMT text, have one each. `LengthsAreConstants` compares this with what the files
of the project say, before any rewriting.

### Transform pipeline and SMT writer
`SspLanguage` defines programs as records and sequences, and an interpreter with
states, a tape of random values and a log of draws, so that "the same meaning"
is a statement about results, states after the call and what was drawn.
`Transforms` has each pass as an operator; `TransformPipeline` has one action
per pass, in the order of `transform_game_inst`. `positions` and `offsets` are
what `samplify` and `sample_max_counter_extractor` leave for the equivalence
checker. Passes not modelled: `type_extract` only collects types (`SortNames` says
which), and `tableinitialize` rewrites only assignments that no parsed program contains.

The last action, `WriteSmt`, writes the function of every oracle as a term:
`let` and `ite`, selectors and constructors of states and returns, the random
function applied to a counter, calls of other functions. `SmtEval` evaluates
such a term on a state with counters anywhere and a random function. Sorts and
the names of functions are left out, but for what makes a term ill-sorted.

### Induction step check, and what claims are worth
`lines` is the vector of claims of one oracle, `provable` the set the loop
grows, `progress` its loop condition. `ReadLemmaLine` is one line of the block;
`StartInduction` adds the default claims and takes the admitted ones for
granted; `Iterate` is one round of the loop; `CheckTargets` is the test after
it. A claim is a name with dependencies. The properties say what claims mean:
a *situation* is the set of names true of a call, and the claims, once proved,
leave some situations possible. `AcceptedIsSound`: in all of them the induction
step holds. `RejectedIsJustified`: if refused, in one of them it does not.

`EquivalenceQuery` gives the names a meaning: two games, a query for each claim
with old states, returned states, the randomness mapping with its injectivity
check, invariants and lemmas. `Proved` is the answer of a solver that is right.
`EquivalenceClaims` extends `InductionStep`: `Verify` decides the queries of an
accepted block, and `Call` is a call of an adversary to both games at once, with
any random values that are coupled as the mapping says, from whatever counters
earlier calls left. `ViewsEqual`, `InvariantsKept` and `CouplingIsFair` are what
makes a verified equivalence mean something. A game is a function of package
state, argument and the draws relative to its counters (that its term is one is
what `TransformPipeline` checks); it exports one oracle, since trees of claims
of several oracles are handled alike; a call that aborts leaves no trace. Of
what a user may write in SMT, relations and lemmas are modelled.

### Reduction check
`game` holds the game instances looked up, `specs` the mapping specs read,
`exports` and `pending` the loop and the recursion of `compare_reduction` as a
stack. `ReadMapping` is one call of `handle_mapspec_assumption`: names, entries,
cross-cut wires and exports (errors), then the wires of the assumption (panics).
`MatchHeader` finds which spec is for which side; `CompareExport` and
`ComparePair` are one round of the loop and one call of the recursion. Types
are values of a table `typing`; parameters are the values after resolution.

The definition of a reduction (`Genuine`) does not refer to the algorithm: the
mapped parts are copies of the two games of one assumption, entered only
through oracles it exports, and the rests agree in packages, sharing, wires and
ends. The check does not decide this. It compares the unfolding of the two
rests into trees, ignores which oracle a wire ends at, and tells the wires of
the mapped part apart by type. `AcceptedUnfoldsAlike` says what acceptance does
guarantee, `ExactUnlessAmbiguous` where that is enough (no sharing, no aliases,
imports with different types, oracles exported once), `GenuineIsAccepted` that
it never refuses a reduction.

### Proof search
`specialization` is the vector of instances met (those of the file first),
`workque` and `predecessors` as in the code, `current`/`hop` the two loops of
`reachable_games`. `Trace` follows the backlinks. What hops *mean* is stated
separately: for every valuation of the theorem's constants the two concrete
instances are indistinguishable, and a hybrid argument relates any two indices.

### Equivalence driver
A job is the root, a claim group (the start, or an oracle) or a claim. `pending`
is what is in the pool, `stack[w]` the frames of thread `w`: a thread that waits
for a parallel iterator takes any pending job on top of its frame, as rayon
does. `ui` is the holder of the display's mutex, `bar` and `steps` its bars,
`outcome` the results, `failed` what is returned. The solver call is one step
that gives either result; the channel is modelled on its own.

A proof tree is a vector whose lines may share a name, so a claim is a line, and
`Name` its name, by which `--claim` selects it and its transcript is called.
With `--transcript` a claim opens its file (`OpenTranscript`) before its solver
starts; `files` has, for each path, whose entries may be in the file. Opening
truncates, so those that wrote before are out, but those that still have it open
go on writing. `TranscriptsAreOwn` excepts queries whose name another query of
their group has; `TranscriptsAreSaved` does not, and fails.

### Solver channel
Entries are numbered in the order the caller writes them. `chan` is the unbounded
channel, `writer` the forwarding thread, `stdin`/`stdout` the pipes with bounded
room, `buf` the replies read and not consumed. The solver is external: it may
reject declarations (and goes on, like z3), answers in order, and may die at any
time. A write when it is dead is an error of the prover, and so is one that the
transcript does not take (`ForwardingFails`): the thread ends, and the caller
drains the output before it reports that (`DrainOutput`). A read that leaves
bytes that are no UTF-8 is an error too (`ReadGarbled`). `ReadBuffer` counts
bytes: position, length and growth of the buffer. `SolverReader` composes them:
a read returns any number of bytes for which there is room, so a chunk may join
replies or end within one, and a reply may be longer than the buffer.

## 3. Runs

All passing runs together take about six minutes with two workers.

| run | what is enumerated | states | shows |
|---|---|---|---|
| `project` | 2 000 projects: oracle code, expressions, games, theorems, hops, command lines, right and wrong | 19 300 | types, names, wires, instances, hybrids, what success means |
| `transform_pipeline` | bodies of 2 of 13 statements and 4 endings, 2 packages, 6 calls each | 3 300 | meaning, normal form, samples, meaning of the SMT term |
| `transform_closed_loop` | the same with an inclusive loop | | finding: last iteration lost |
| `equivalence_claims` | all blocks of up to 3 lines from 2 user lemmas and the 4 default names; 17 pairs of games with invariants, lemmas and all mappings of up to two pairs of draws, and two calls | 206 000 | induction step sound and exact; equal views, invariants kept, fair coupling; ends |
| `reduction_check` | see below | 790 000 | what is accepted and refused |
| `reduction_wires` | the same | | finding: crossed wires |
| `proof_search` | chains of 3 and 4 instances of 2 constants each, 2 or 3 hops in any direction, hybrid hops | 85 000 | valid if closed, shortest, ends |
| `proof_search_open` | three instances of one constant | | finding: open targets |
| `equivalence_driver` | 2 threads, 7 obligations of which two have one name, 9 command lines, 2 of them with transcripts | 771 000 | verdict, display, transcripts, ends |
| `equivalence_driver_pool` | the same | | finding: one solver too many |
| `equivalence_driver_transcripts` | a tree with two lines of one name | | finding: a transcript is overwritten |
| `solver_channel` | 5 declarations, pipes of 2, a buffer of 10 bytes, any chunks, crashes, failing writes and reads | 72 000 | verdict, order, transcript, room, ends |

Why the bounds are enough:

* `project`: one part varies at a time, everything else is right, so that what
  is refused is refused for that part. Expressions have all forms to depth two,
  and unary ones to depth four, which is where a type that is wanted gets lost or
  an open one appears. Code has two statements and a third after a conditional or
  a loop: enough to assign in one branch and read after it. Lengths are two
  constants and a number, at two levels, so that a constant can be mistaken for
  one of another package, game or theorem. For sorts, a length that is a state
  variable, and each type without a sort, is put in every place a type is written.
* `transform_pipeline`: every pass treats statements one by one and blocks
  recursively; two statements in sequence, nested conditionals and loops, and
  calls into a second package cover the positions a rewrite can be in. Three
  index values and tables that have and have not the entry reach every abort.
  Sample counters start at zero and one, different for two samples.
* `equivalence_claims`: circular dependencies need two claims, and the interplay
  with `equal-aborts` and `no-abort` a third. Games have at most two draws, in
  one sample id or in two, the least that can be coupled wrongly (to one, twice,
  by offset, by sort); two calls make an invariant matter. The theorems hold for
  any number.
* `reduction_check`: the assumption is a module over two keys; a construction has
  two callers and two keys of its own. Two callers are the least that can share
  or not share a key, two keys the least that can be crossed. Mappings are
  complete, incomplete, to a wrong instance of the right package, or duplicated.
  Exports are two callers, a caller and the module, or a caller and a key.
  Types either tell the two oracles of a key apart or not.
* `proof_search`: two constants distinguish "equal constants" from "equal
  literals"; three hops give choices, detours and wrong directions.
* `equivalence_driver`: one oracle with the start is two groups, so that a
  thread can run the other group's claims while it waits; two threads make the
  mutex and stealing matter. The two lines of one name, one of them admitted,
  have a file between them, and the start has a claim of that name too.
* `solver_channel`: five declarations and the query fill both pipes and leave
  entries in the channel, so that all three parties can be blocked at once; a
  model is longer than the buffer, and pending errors make it grow twice. The
  theorems hold for any sizes.

`CHECK_DEADLOCK FALSE` is set where the program ends and nothing is left to do.
`reduction_check` and `project` run with deadlock checking; their last states
stutter by an action of their own, and no other state may be without a step.

Fairness. The checks of the parser are one thread: weak fairness of their steps.
In the driver every thread of the pool is weakly fair and every solver answers
(that is the channel's property); no fairness is asked of the mutex, since each
thread locks it a bounded number of times. In the channel the caller, the
forwarding thread and the solver while it runs are weakly fair, and it ends when
its input has (the caller waits for that when it drains the output, and solvers
quit at the end of a script); nothing says that a process ever dies by itself.
A process that dies before its answer, without a word that ends the read, leaves the caller
reading for ever: `Ends` excepts that (`Abandoned`), since it is what the code does.

## 4. Findings

1. **Crossed wires pass as the assumption** (`reduction_wires`,
   `parser/reduction.rs:922`). Two wires of a mapped package whose oracles have
   one type may be exchanged in the construction. The comment at line 876 says
   that the subgraph is "wired just like the assumption game graph".
2. **Inclusive loops lose an iteration** (`transform_closed_loop`,
   `transforms/loopunroll.rs:68`). The comparisons of a loop are not looked at.
3. **Propositions may be accepted without a proof** (`proof_search_open`,
   `proof.rs:107`): a target that is a special case of the instance reached ends
   the search, without specialising the start.
4. **One solver more than `--parallel`** (`equivalence_driver_pool`,
   `verify_fn.rs:179`): the thread kept for the main method also runs claims
   while it waits.
5. **Transcripts overwrite each other** (`equivalence_driver_transcripts`,
   `project/mod.rs:252`): lemma lines may repeat a name, and the file of a
   transcript is called by group and name and truncated when it is opened.

Seen while modelling, without a run. Where a property above would fail for one
of these reasons, it names the reason as an exception.

* The reduction check does not tell shared instances from copies, nor does it
  compare the instances and oracles at the boundary (`ExactUnlessAmbiguous`).
* Loops without samples that cannot be unrolled are rejected, although
  `sample_max_counter_extractor.rs:28` says it fails only for sampling positions.
* Types of functions with different numbers of arguments match
  (`types.rs:192`, `WiresTyped`).
* Duplicate wires are looked for within one `compose` body (`composition.rs:533`,
  `WiresComplete`); two `params` blocks of an instance give a constant two values
  (`composition.rs:595`).
* A variable assigned in one branch of a conditional may be read after it
  (`package.rs:1229`, `ReadsAreAssigned`); a `return` without a value is accepted
  where one is declared.
* Operands of subtraction, multiplication and division are not required to be
  integers (`LaxArithmetic`); an unwrap of an unwrap of an open `None` is typed.
* The proposition of `example-projects/hello-world-hybrid/theorem/Hybrid.ssp:43`,
  from index 0 to index `n`, is not found: the other side of the hybrid hop is
  specialised to index 0 (`proof.rs:377`), of which `ideal` is no special case.
  `proof_search` has theorems of this form (`Hybrids`), and none contradicts its
  properties: `FindsShortest` is about instances none of which is a special case of another.
* `G(0,1)` counts as a special case of `G(i,i)` when `i` is the index of a hybrid
  (`proof.rs:390`; line 334 promises a "more specialized version"), and the other
  side of the hybrid gets the first number for both (`IndexOnce`). It came up as
  a case of `FoundProofsAreValid` that could not be proved.
* Any identifier is accepted as a length. If it is no constant, or a constant
  that stands for a number, the name of its sort panics (`types.rs:314`,
  `LengthsAreConstants`). So does a set, a list or a function in a state, a
  signature or an expression (`sorts.rs:98`, `exprs.rs:325`): they are accepted
  when the files are read.
* A parameter given by its name alone panics in a theorem (`common.rs:351`), and
  one whose type has the length `n` panics in a game where no integer is given
  (`types.rs:145`).
* A reduction between a game and itself is warned of and then panics
  (`reduction.rs:367`).
* In code a constant whose value is a compound expression is left as it is
  (`packageinstance.rs`, `InstanceIsSubstitution`).
* A second game or theorem file with the same name replaces the first silently
  (`project/load.rs:52`); packages are checked.
* A hybrid patches the loop index and the bit by name, if the game has constants
  of these names (`parser/theorem.rs:409`, `HybridSides`).
* A claim that depends on a name starting with `invariant` and is proved panics
  when it is written (`emit.rs:367`, `Emittable`).
* Flags that name nothing in the project succeed without a proof
  (`SilentOnlyIfNothingNamed`).

They are among the hazards in `PROJECT.json`.

## 5. Theorems

| module | theorems | for every |
|---|---|---|
| `InductionStepProofs` | `Soundness`, `ProvableCorrect`, `Exactness`, `TypeCorrect` | set of names, block of claims of any length, dependencies |
| `EquivalenceClaimsProofs` | `ViewsAreEqual`, `InvariantsAreKept`, `CouplingsAreFair` | games, invariants, lemmas, mappings, claims, number of calls |
| `ReductionCheckProofs` | `CheckInvariant`, `GenuineReductionsPass`, `AcceptedRestsAreAlike`, `AcceptedAreReductions` | games, mappings, types, order of exports |
| `ProofSearchProofs` | `SearchInvariant`, `FoundProofsAreValid`, `ProofsAreShortest` | theorem file: instances, hops, constants |
| `EquivalenceDriverProofs` | `PoolInvariant`, `TranscriptsOfOneQuery`, `NoFailuresMeansProved`, `DisplayIsTruthful`, `DriverImplementsVerdict` | number of threads, oracles, claims, command line |
| `SolverReaderProofs` | `ReadsHaveRoom`, `ReaderHasRoom`, `BufferHoldsPending` | initial size of at least ten bytes, length of replies, amount of output |
| `ProjectProofs` | `WiresAreComplete`, `HybridsAreRight`, `SuccessIsAlwaysEarned` | project: files, blocks, hops, command line, verdicts of the prover, and whatever reading, rewriting and comparing of types and expressions does |
| `SolverReaderProofs` | `ChannelTypeCorrect`, `TranscriptCorrect`, `OrderKept`, `VerdictCorrect`, `CheckKeepsPromise` | number of declarations, room in the pipes, sizes, chunks, crash |

*Induction and recursion.* The library's induction theorems take an operator and
cannot be instantiated, so `RecursionProofs` proves what is needed from the least
element of a set of numbers (`LeastElement`): induction about a set that is
closed under the successor, or under adding an element, and that a function
defined by its first value and a step exists (`Iterates`). `GrowthStops` says
that sets which only grow within a finite set stop growing, after as many steps
as that set has elements.

*Induction step.* Assumed: the four target names are distinct names
(`NameAssumption`), the lines are claims over names (`LinesAssumption`).
`ProvableIsTrue` is not inductive: a round assumes `no-abort` once `equal-aborts`
is known, so the invariant has two cases. Before, what is established is true in
every situation the claims leave; afterwards, in every one without an abort.
`RoundKeepsEstablished` shows that a round keeps this, including the round that
establishes `equal-aborts`. For exactness `IInv` adds that when the loop stops
the set is closed under the claims; then the set itself is a situation the
claims leave possible, and it lacks a target.

*What claims are worth.* Assumed: the three built-in relations are different
names and not names of invariants or relations (`RelationsAssumption`), an oracle
leads from states to states and has a number of draws per sample
(`WorldAssumption`). `CheckIsInductionStep` shows that the specification with
the games implements `InductionStep`, so `Soundness` applies. `CallIsQuery` is
the step from the queries to the calls: an oracle reads its random function from
its counters on, so a call from any counters does to the package state what the
oracle function of a query does with counters that are zero and the random
values moved there (`Moved`); and moved values are coupled as a query assumes
(`CallIsAssumed`). A call with equal invariants is thus a model of every query.
The names true of that model are a situation the proved claims leave, in which,
by soundness, both games abort or both answer alike and keep the invariant
(`CallIsSafe`). `GameInvariant` puts this together over any number of calls.

*The coupling is fair.* Assumed besides: what is sampled from is finite and not
empty (`SortsAssumption`). The values coupled with a choice of one game are the
choices of the other that agree with it at the draws the mapping names. With the
mapping injective these sets of choices, the fibres, can be mapped into one
another by exchanging the values at those draws only (`FibresAreAlike`), so all
of them are of one size; a choice with any partner then has as many as any other
(`MatchedChoices`), and `MappingMatches` shows that each has one, since matched
draws have the same sort. `CountersAreNumbers` is the invariant that lets the
check, made for counters that are zero, speak of later calls.

*Reduction check.* Assumed: the assumption names two games, and neither game of
the reduction is one of them (`NamesAssumption`; the two may be one game, and
then nothing is accepted); wires and exports lead to instances of the game
(`GamesAssumption`, what the composition parser ensures). The invariant is about
a set of pairs that no variable holds (`Compared`): every pair compared so far is
equal, and all pairs its wires lead to are compared or still pending. When the
loops end nothing is pending, so that the set is a relation closed under wires.
The reference definition `Reached` is what at most a number of steps lead to;
`ReachedIsLeast` and `ReachedIsClosed` (its levels stop growing) make the two
meet. For acceptance of genuine reductions, `OnlyReached` says that nothing but
reached pairs is ever compared, and `Refused` what a refusal had found.
`AcceptedAreReductions` needs that nothing is shared: if every instance has one
caller, the paths to it decide which instances correspond (`OneCallerEach`).

*Proof search.* `SearchInv`: from a start without constants only instances
without constants are met, and each is linked to the one before by what some hop
means (`TransferIsMeant`). While backlinks are followed, everything closed under
known links that has the head of the path has the target (`PathIsKnown`), which
avoids speaking of paths that have not been built. For `ProofsAreShortest` the
queue consists of two layers (`Layers`): instances at depth `d`, then at `d + 1`,
and everything nearer has been expanded; all given instances being unrelated,
`reachable_games` finds what the hops give and creates nothing. `BallIsClosed`
shows that the bound in the reference definition is enough.

*Equivalence driver.* The invariant speaks of where a job is (in the pool, on a
stack in some phase, or ended) and not of positions on stacks; `Pushed`, `Moved`
and `Popped` say what the three ways to change a stack do to that. `DriverInv`
has: a job is at one place (`OnePlace`); a claim exists only after its group has
made its bar (`StartedFirst`); it is decided when its solver has answered
(`DecidedOnce`); a group goes on only after its claims have ended, and the root
after its groups (`ChildrenFirst`); bars count ended jobs (`BarsCount`). For
`TranscriptsOfOneQuery` an invariant about files joins it (`TranscriptInv`): the
file of a query that has opened it, and whose name no other query of its group
has, holds that query alone. That other groups write elsewhere is
`PathTellsGroups`: no oracle is called like the directory of the start. The
refinement needs of it that a conclusion is drawn when all is decided, and that
what is decided was not. Liveness, under which the lock order matters, is checked
by TLC.

*Read buffer.* Assumed: `BufferAssumption` (the source has 1024 bytes),
`SizeAssumption`. The invariant adds `len >= 10`: below ten bytes, a tenth of the
buffer is zero and a full buffer would not be enlarged. `ResizeMakesRoom` is the
arithmetic. For `BufferHoldsPending`, sizes of sequences of replies add up
(`BytesOfBoth`), so a chunk that completes replies, or consumes them, moves the
position by their size.

*Solver channel.* Assumed: `CapAssumption`. Two inductive invariants. `Wire`: the
entries in the pipe and those in the channel are consecutive numbers up to the
next one to be written, and the transcript is one ahead while an entry is being
forwarded. `Output`: until the caller has its answer, the first reply that it
has not consumed is `error` if a rejected declaration was processed, and the
answer if none was and the query was; there is none otherwise. `ChunkKeepsFirst`
shows that reading does not change which reply is first, wherever chunks end,
and that makes the verdict right: an answer seen first is the answer to a query
whose declarations were all accepted. `CheckKeepsPromise` is the refinement of
`ClaimCheck`, step by step.

*Project.* Assumed: `InputsAssumption` alone. Three inductive invariants. `ReadInv`
is about theorems and where the reading stands. The three instances of a hybrid
are checked when the file is at its end, but they are made when its block is read,
and blocks after it declare more: `ContextFits` says that the hybrids read so far have their instances in the
context. Every handler only adds to it, and refuses a name that is there
(`Keeps`), so they remain; names of instances are unique, so that an
instance found by name is the one that was made (`UniqueNames`). What patching the
loop index and the bit does to a list of values is `PatchedValues`.
`TheoremsFit` says of a theorem what the proof needs of its hops: their trees have
a claim for each target, as `verify_induction_step` demands. `HybridsFit` carries the
result over later files, of which one may replace a theorem of the same name.
`ProofInv` is about the prove command. `Progress` ties the hop it is at to the
theorems it has not started; `ProvedSoFar` says that every hop it has left behind
and that was asked for had instances it could write and all its obligations
confirmed. When it ends, everything is behind, and `SuccessIsEarned` is read off
the obligations of one hop: without flags they contain every target of every
oracle; with flags they are empty only where a flag names nothing.
`GamesInv` is about games. That every import has a wire is checked when a file is
at its end (`MissingEdges`), that a wire leads to an oracle of the right signature
when its body is read, and repetitions only within one body. So the invariant
says of the game being read that each of its wires leads where it should in the
instances so far and comes from some body of the blocks so far, and that two
wires of one import come from two (`Wired`). Instances are only added, and keep
their positions (`SameWires`). The bodies of a block are read by a recursive
function, which exists by induction over their number (`BodiesAreRun`,
`ComposeIsWired`).

Only model-checked, and why:

* liveness (`Terminates`, `Finishes`, `Ends`): it rests on fairness and `ENABLED`.
* `MeaningPreserved`, `NormalForm`, `SamplesAccounted`, `OnlyLoopsFail` and
  `SmtMeansSame` of the transform pipeline: what the passes and the writer make of
  every program, by an induction over programs.
* `InferenceIsExact`, `AcceptedIsTyped`, `PathsComplete`, `BareNamesUnique`: the
  same over expressions and the code of a package.
* `SignaturesAgree`, `InstanceIsSubstitution`, `LengthsAreConstants`:
  what rewriting and matching does to every type and expression, compared with
  reference definitions that recurse over them.

These recurse over data by `RECURSIVE` operators, which this prover cannot reason
about, and its library's induction theorems cannot be instantiated.

## 6. What is not modelled

* Printing (LaTeX, pseudocode, formatter, diagnostics), the graph layout, and the
  parser of the models a solver prints: display only.
* Reading directories and archives, and parsing arguments: input and output.
* The `smtlib` crate, names of sorts and functions and their declarations: syntax
  trees and printing, without state or control.
* The lint of invariant files and the binding of names in them, which work on
  SMT text; what the notations may look at is in `EquivalenceQuery`.
* Package and game invariants as parsed blocks; they appear as obligations of the
  driver and as predicates of `EquivalenceQuery`.
* `split.rs` is not compiled.

Next steps, in order:

1. The transform passes with recursive functions over a bounded nesting instead
   of `RECURSIVE` operators, so that the order of samples can be reasoned about.
2. Several exported oracles in `EquivalenceClaims`.
3. Reading invariant files again at every hop, between `Project` and
   `EquivalenceDriver`.
