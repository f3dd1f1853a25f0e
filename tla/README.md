# A TLA+ development of il2cpp-dumper-rs

The repository (a Rust crate) turns an IL2CPP game binary and its
`global-metadata.dat` back into something a person can read: `dump.cs`,
`il2cpp.h`, `script.json`, dummy assemblies and, on request, every native method
body decompiled into pseudo-C#.  This directory holds TLA+ modules of the parts
whose correctness depends on the order in which things happen, TLC
configurations that check them on small instances, and theorems about them that
TLAPS proves for every instance.

Contents: [1 Inventory](#1-inventory) ·
[2 Modules and the code](#2-modules-and-the-code) ·
[3 Runs](#3-runs-and-what-they-show) · [4 Proofs](#4-proofs) ·
[5 Disagreements found](#5-where-code-and-comment-disagree) ·
[6 Not modelled](#6-what-is-not-modelled-and-why) · [7 Plan](#7-plan)

## 1. Inventory

Paths are relative to `src/src/` unless they start with `src/`.

| Component | State it keeps | Operations | What makes it correct | Modelled by |
| --- | --- | --- | --- | --- |
| Native pseudo-C# pass (`recovery/csharp.rs`: `decompile_methods_to_csharp`) | the worklist of a rayon pool, the result map, the fallback counters | size probe, byte read, claim of a method, pipeline, render, join, pointer naming, textual rewrite | every method gets exactly one text; no schedule mixes the methods up; the counters agree with the texts; the pass returns | `RecoveryPool`, `DumpTable` |
| Recovery pipeline (`recovery/mod.rs`: `recover_ir_deadline`) | one method's listing, deadline | lift, passes, verifier, early exits | an early exit is a marker, never a body with somebody's grade | `RecoveryPool` |
| Verifier (`recovery/verify.rs`) | thread-locals `LEDGER`, `GRADED`; process-wide `ANNOTATIONS` | clear, note an erasure, grade, annotate | a method's grade depends on that method only | `RecoveryPool` |
| Lambda registry (`csharp.rs`, `reconstruct/lambda_inline.rs`, `closures.rs`) | process-wide map bare name → body | register, look up, arity gate, fold | a fold inserts the referenced lambda's body | `RecoveryPool` |
| Pointer resolution (`reconstruct/ptr_resolution.rs`, `field_annotation.rs`) | process-wide map addend → declaring types | record a use, resolve, replace in a line | a pointer is named only when all its users agree | `RecoveryPool`, `DumpTable` |
| Environment flags (`recovery/env_flags.rs`) | the process environment and a cache of it | cached read | the answer is that of the run that asks | `RecoveryPool` |
| Determinism gate (`src/scripts/det_gate.sh`) | two manifests of digests | run twice, compare | a difference means nondeterminism | `DetGate` |
| Dominance (`recovery/dominator.rs`) | tree and frontiers of one graph, from the entry or, reversed, from the virtual exit | reverse postorder, sweeps, frontiers | the tree is dominance; no walk leaves it; the sweeps stop | `Flow`, `Dominators` |
| SSA (`recovery/ssa.rs`) | versions, phi records, listing, CFG | phi placement, rotation, renaming, splice, collapse, edge copies | every read keeps its value | `Ssa` |
| Optimisation passes (`recovery/passes.rs`, `highvar.rs`, `split_loops.rs`) | the listing | copy and constant propagation, dead code, folding, high variables | every read keeps its value; nothing dead stays | `Ssa` (copy propagation), `DeadCode` (both dead-code eliminations) |
| Runtime helpers (`recovery/runtime_helpers.rs`, shapes in `resolve.rs`) | process-wide tables: role of an address, addresses that are no functions, words of a raise | set-up from the bodies, notes from call sites of every method, look-ups while rendering | what the set-up proved is not undone by a guess; a call is shown as what it is | `HelperRoles` |
| Per-dump caches (`reconstruct/stack_naming.rs`, `field_fixups.rs`, `local_types.rs`) | process-wide caches, one keyed by the address of its input | build once, look up | a second dump does not see the first one's tables | planned |
| Lifters, disassemblers (`recovery/lift*.rs`, `disassembler/`) | none | decode one instruction | per-opcode meaning | no |
| Stack analyser, locals | dataflow per block | join, transfer | fixpoint is consistent at joins | planned in part |
| Structuring and reconstruction (`csharp.rs`, `idioms.rs`, `reconstruct/`) | a statement tree; the counts of its jumps | some forty passes, six of them remove jumps | a run of the rewritten tree shows what a run of the original does; every jump keeps its label and a way to it | `GotoPasses` (the six) |
| Metadata reader (`il2cpp/metadata.rs`, `structures.rs`, `io/binary_stream.rs`) | a cursor, thread-local index widths | versioned reads | widths fit the version on every thread | planned |
| Binary formats (`formats/`) | image, segments | parse, relocate, map addresses, load the tables | relocation is applied once | `ElfInit` (ELF: the order of the operations) |
| Registration search, main (`search/`, `il2cpp/base.rs`, `main.rs`) | the corrected version, the pair of registrations, the tables loaded so far | prompts, four strategies, version correction and retry, hand-over | a given base is enough; what is handed on belongs to the strategy that won | `ElfInit` |
| Executor, writers (`executor/`, `output/`) | name tables | format | names are unique, C++ types are emitted after what they contain | only the banner's count |
| dotnetdll, assets, tools, tests | – | – | – | third-party or support code |

**How they interact.**  `main` loads the image and the metadata and hands an
executor to the writers.  With recovery on, the writer calls
`decompile_methods_to_csharp` once per binary.  That function is the only
concurrent part of the program: a rayon pool runs
*claim → lift → passes (CFG, dominators, SSA, propagation, elimination) →
verify → render* on one method per worker at a time.  The workers communicate
only through process-wide maps (lambda bodies, pointer users, grades, counters,
roles of runtime helpers, cached flags) and each keeps thread-locals that outlive a method (the ledger of
excused erasures, the "graded" marker).  After the join the driver names the
pointers and rewrites all texts in parallel.  The crate is also a library: a
process may run the pass more than once, and everything process-wide survives.

**Which behaviours are hard.**  The interleavings of the workers through the
shared maps; thread-locals carried from one method to the next; deadlines that
fire between stages; the join; what survives into a second run; and, inside one
method, the sequence of SSA passes whose correctness depends on what an earlier
one left behind (block bounds, phi operands, single definitions, copies onto
themselves).  Before all that, the loader tries one strategy after the other on
an object that remembers what each failed attempt has done to it.
`PROJECT.json` lists these hazards one by one, each at its line, with the
property that covers it.

## 2. Modules and the code

| Module | Kind | Models |
| --- | --- | --- |
| `RecoveryPool` | component | the driver, the workers and all they share |
| `DumpTable` | abstract specification | what the pass promises: a table of texts, each settled once, pointers named by agreement |
| `DetGate` | composition | two processes running `RecoveryPool`, and the comparison |
| `RecoveryPoolSafety` | proofs | section 4 |
| `Flow` | definitions | graphs, paths, dominance and frontiers as relations |
| `Dominators` | component | `compute_from`, one loop iteration per step |
| `FlowProofs`, `DominatorsProofs`, `SsaProofs` | proofs | section 4 |
| `Ssa` | component | `build`, copy propagation, `materialize` and `eliminate`, and the runs of a program beside its listing |
| `SsaBodies` | definitions | the instructions the checked bodies are made of |
| `DeadCode` | component | `dead_code_elimination` and `liveness_dce`, one instruction per step, and the run of both listings |
| `HelperRoles` | component | the three tables of `runtime_helpers.rs`, the set-up and every method's steps on them |
| `ElfInit` | component | `init_elf` from the file to the tables it hands on |
| `Statements` | definitions | statement trees, the places in them, and what running one shows |
| `GotoPasses` | component | `remove_continues`, `join_hoist`, `goto_simplify`, `goto_fold`, `goto_fallthrough`, `dead_tail`, and the run of the tree before and after |
| `DeadCodeProofs`, `HelperRolesProofs`, `ElfInitProofs`, `DetGateProofs` | proofs | section 4 |
| `MCRecoveryPool`, `MCDetGate`, `MCDominators`, `MCSsa`, `MCSsaLoops`, `MCDeadCode`, `MCHelperRoles`, `MCElfInit`, `MCGotoPasses` | instances | what TLC is given |

### RecoveryPool

*State.*  `todo`, `at`, `pc` are the pool; `graded`, `ledger` the thread-locals
`GRADED`, `LEDGER`; `registry`, `ptrUsers`, `annotations`, `census`, `flagCache`
the process-wide `LAMBDA_BODIES`, `PTR_USAGE`, `ANNOTATIONS`, `FALLBACK` and the
cache of `env_flags::flag`; `results` the texts; `resolved`, `unrewritten` the
driver's work after the join.  A method is the record of what the pass can tell
apart about it (`NativeMethod`): its size class, whether its bytes can be read,
how it lifts, which instructions passes erase on purpose and which the final
listing lacks, what it renders to, its pointers, its lambda name, the delegates
it constructs.  A text is its kind, its grade stamp, its folds and one line of
pointers.

*Actions.*  One per critical section of the code: between two of them a worker
holds no lock and touches no shared map.

| Action | Code |
| --- | --- |
| `StartRun` | the preamble of `decompile_methods_to_csharp`, with what it resets and what it does not |
| `Claim` | the `par_iter` closure up to the pipeline: size probe, read, the three skips |
| `Lift`, `Optimise`, `Deadline`, `Verify` | `recover_ir_deadline` and its exits |
| `Label` | the "not verified" stamp after the pipeline returned |
| `RegisterLambda`, `RecordUsage`, `FoldLambda`, `Emit` | `render_method_csharp_full_chains` |
| `ResolvePtrs`, `RewriteText`, `Return` | the driver after the join |

`DumpTable` is the abstract specification.  The refinement mapping is
`stage <- phase, table <- results, names <- resolved, declaring <-` the types of
the current binary (`RecoveryPool!Table`): `Claim`, `Lift`, `Deadline` and
`Emit` are `Settle` when they write a text, `ResolvePtrs` is `Agree`,
`RewriteText` is `Rename`, the rest stutters.

*Abstractions.*  Only the `ILR_ANNOTATE` gate is modelled (`ILR_VERIFY` and
`ILR_CONFORM` unset).  The renderer's own wall-clock limit is left out: it
shortens a body's text and touches nothing shared.  The verifier's checks are
one: an instruction the final listing lacks and no pass accounted for.  Lambdas
of several variants of a name, capture checks and the renaming of parameters are
left out of the fold; the bare name, the last registration winning and the arity
gate are in it.

### Flow and Dominators

A graph gives every block the *sequence* of its successors, as `Cfg` does; the
code counts in-edges with repetition when it looks for joins and without when it
merges, and so does the model.  `Flow` holds two kinds of definitions: those of
the literature by paths (`Reach`, `Dominates`, `Cytron`) and those the code
computes, in closed form (`IdomChain`, `JoinFrontier`).  `Dominators` starts
from any pair of a graph and a root (`Rooted`), because the code calls the same
computation for post-dominators on the reversed graph; it runs the
code's loops step by step, the two fingers included, so that the climb is seen
over a tree that the same sweep is still changing.  Its property `ClosedForm`
checks that the finished tree and frontiers are what `Flow` says, also at blocks
no path reaches, and `Ssa` uses `Flow`'s closed forms on that ground.

### Ssa

A body gives every block its instructions (at most one register defined, at most
one read, which is all that renaming distinguishes) and its successors.  The
passes are one action each and run in the order of `recover_ir_deadline`:
`Analyse`, `PlacePhis`, `Rename` (`ssa::build`), optionally `Propagate`
(`copy_and_constant_propagation`), `Eliminate` (`materialize` and `eliminate`).

Correctness is stated by *running* the body and the listing side by side.  After
any pass `Start` begins a run; `Execute` and `Follow` take both along one path.
The path may tag one value: one dynamic definition, or one incoming register
value.  `holds` is the set of registers that carry the tagged value in the
original body, `carries` the set of versions that carry it in the listing.  A
read agrees when the register holds the tag exactly when the version does.
Since every value may be the tagged one on every path, *all reads agree* says
that both compute the same.  This replaces an induction over traces by a plain
invariant and finds lost copies, swaps, missing phis and stale entry versions
alike.

*Abstractions.*  Version numbers are names (`EntryOf`, `PhiOf`, `DefOf`), so the
global counter is left out; phi instructions stay in `phis`/`args` rather than
in the listing, and their parallel reading on the edge is the meaning of a
listing before `Eliminate`; afterwards the tables stay as a record of what was
lowered, and `Merged` is empty, so a run merges nothing on an edge any more.  What is kept from the listing is every place where
an index matters: positions of definitions, the terminator in front of which
copies go, and the *old* block bounds that `materialize` uses after the rotation
has inserted instructions (`EdgeBlock`).  Code no path reaches is renamed as if
it stood alone; it is never run and no property looks at it.  Left out: call
clobbers, handler entries, registers whose address is taken, constants, and the
copy at the join that `eliminate` falls back to when no edge can be placed.  The
order of copies at one place is given by ranks (`InOrder`), not by the library's
sort, whose definition the provers cannot expand.

`door` is the position at which a branch enters each block.  It matters when a
block's only instruction is its terminator: the copies go in front of it
(`Spot`), and a branch to the block, re-anchored to the terminator, passes them
over, while a fallthrough runs through them.

### DeadCode

`dead_code_elimination` is one action per round (`CountRound`), since it counts
all mentions before it removes anything.  `liveness_dce` is taken apart as far
as the properties see: `Sweep` joins the sets behind the blocks, `Walk` and
`WalkDone` go backwards over the instructions, `StartCollecting`, `Collect` and
`CollectDone` walk once more, `Strip` removes what was dead and starts over,
`Finish` is the exit.  `trace` and `bound` are history variables: the live sets
of the last walk, and those by which something was last removed.  Correctness is
stated as in `Ssa`, by running the listing as it came and the one that is left
along one path with one tagged value.  An instruction is its kind, the local it
writes and the set of locals it reads; what matters about an operand is whether
it is mentioned.  Memory is not a local, so a store is a `call`: kept, with its
reads.

### HelperRoles

`role`, `nonEntry` and `words` are the maps behind `table`, `invalid_targets`
and `raise_messages`, each with a lock of its own, held for one insertion or one
look-up.  A step is such a section: `RoleSeen`, `NoteAllowed` and `NoteShape`
are the three of one `note_shape`, `RenderName` and `RenderArguments` the two of
rendering a call.  The set-up (`ThinForwarder`, `SecondLook`, `ClassifyBody`,
`StartPool`) runs on one thread; after it every method has its own, and goes
over its call sites five times in the order of the pipeline: `Detect`, the key
functions, `Build`, `Throw`, the rendering.  What a body's decoded calls lead to,
what the statistics of the calls guessed (`guess`, the role an address starts
with), which lists of the dump name it (`family`) and how a call is written are
parts of the program that is run (`ProgramType`).

`key_function_recovery` takes a call by the first of its arms that fits, and
`Arm` is that order: a shape of the call (which counts for functions only), then
the lists - bookkeeping that is dropped (`DropBookkeeping`), strings
(`MakeString`), selector stubs (`SendMessage`), raises (`ThrowException`, which
notes words too), allocations (`Allocation`), and the box functions, whose arm
notes a role again, of whatever address.  An allocation is known by its list, by
its role or by the constructor that follows (`Allocates`).
Left out: calls of managed methods, the symbol names, two roles that behave like `IsInst` and `Raise`
where they are read (`ClassIsAssignable`, `ExceptionNew`), and the debug switch
that skips the second look.

### ElfInit

One action per operation of `init_elf`: `New`, `SetProperties`, `NotADump` or
`TreatAsDump`, then for each strategy `Candidate` or `NoCandidate`, `Refine`
(the version heuristics), `Succeed`, `RetryAsOld` or `GiveUp`, and at the last
strategy `NoAnswer` and `Unregistered`; `Convert` is `from_elf` with the look-up
by name that may follow.  What is in the file is unknown, so whether there is a
candidate, which counts its structure shows and at which table reading it fails
are choices.  What an attempt has done by the time it fails stays done: the
version it corrected, the tables it replaced, the modules it inserted.  `tables`
says of each kind of table whether it holds nothing, the last attempt's data or
an older one's.

### Statements and GotoPasses

A tree is a list of records: the kind of a statement, its name, the lists it
owns.  `body` is the tree the passes work on, `original` the tree as it came,
`queue` what of `PASSES` is still to run.  Two passes are taken apart, one
rewrite per step, because their rewrites of one list prepare or spoil each
other: `goto_simplify` (`OpenList` with the wrapping of loops and the branch
joins, `GotoToReturn`, `GotoToShared`, `GotoToTrailing`, `InlineLabel`, `ScanOn`
for the patterns A, A2, B and C of `simplify_list`; `lists` is its recursion,
`refs` the counts it keeps by hand) and the lift of `goto_fallthrough` (`Lift`,
`FoldList`).  The other four are functions of the tree, applied in one step.

Correctness is stated by running both trees side by side: `Run` puts `here` and
`there` at the first thing to see of the two, `Proceed` takes both on with the
same outcome of a test.  What is seen is statements, tests and the returned
value; jumps, labels and tests without effect whose arms meet again are not
(`Settle`), and a run that goes round for ever with nothing to see hangs
(`Nowhere`).

The comments of the passes claim more than the rewrites keep (section 5), so
`slips` records when a rewrite was of a shape that changes what is run, and
`RunsAgree` speaks of the histories without: *entered* - a label went, or its
content moved, though code falls into it or out of its content onto something
else; *captured* - a jump of a `using` or `lock` is caught by a new loop;
*skipped* - a region was put into the arm of an inner test that an outer one
also guards; *stranded* - a label inside a statement was dropped or moved with
the statement (`JumpsLand` has this proviso too: it says that no label goes on
its own, because a count was wrong, and not that a statement takes none along).
Each is decided from the shape in front of the rewrite, not from
the runs, so that everything else the passes do is held to full agreement.

`join_hoist` may not move what declares a local, nor what reads one declared in
front of it (`ScopeSafe`), and `Over` asks the like of a block it puts under a
test.  `Var` is the assignment that declares a local; which names read which
local is the constant `Reads`.

*Abstractions.*  A `while` stands for the loops that test first, a block for
`using` and `lock`.  Left out: `throw`, `switch` and `try`, `do` and `for`, comments (which every rule skips; with them the
tail behind the comment of coverage repair, which `dead_tail` leaves alone, and
which no tree has), the locals a `foreach` declares, and the difference between a test
without calls and one without any effect (`PureTests` is both).  The passes that
run between the six in `PASSES` rewrite expressions and sugar; none of them
moves a label.  `goto_struct` runs behind a switch that is off.

## 3. Runs and what they show

Distinct states are those of one run of TLC.

| Run | Instance | States | Shows |
| --- | --- | --- | --- |
| `pool` | 2 workers, 3 binaries of 4 methods, deadlines, 1 run, fair | 49,101 | type invariant, own grade, pointer agreement, joint rewriting, the census, the banner, folds; every started run returns |
| `library` | 2 workers, 1 binary, 2 runs in one process | 280,233 | the pool implements `DumpTable`, whatever survives the first run |
| `gate` | 2 workers, 3 methods, 2 processes | 1,959 | the two manifests agree but for folds |
| `dominators` | all graphs of 4 blocks, the first with any switch, and their reversals with the virtual exit | 392,118 | the climb stays in the tree, true dominators are never lost, the tree is dominance, the closed forms, Cytron's frontiers but for the root; the sweeps stop |
| `ssa` | all bodies of 4 blocks over one register whose entry heads no loop, or is its own only latch; loops that copy and advance two registers | 5.5 million | renaming keeps every read, its rotation of a self-looping entry included; forwarding keeps every read, also past the copies of a rotation; lowering keeps every read where nothing was rotated; no read of a removed phi |
| `deadcode` | 12,096 listings of 3 blocks over 2 locals | 1.2 million | every read keeps its value; no set of kept definitions feeds only itself; the number of sweeps grows with blocks and locals only |
| `helpers` | 2 methods, 2 targets, every body and every way of writing the calls; every list of the dump and every guess | 2.1 million | proven raises keep their role; non-functions get none but from a guard or the list of box functions; calls all written alike are shown as what they are |
| `elf` | all 96 combinations of switches and versions, every failure | 302,464 | relocations once; a run with a base does not fail; the winner's tables are handed on |
| `goto_passes` | 8,351 trees of up to a dozen statements with two or three labels, through each of the six passes alone and through all of them in order | 588,514 | runs agree but for the named shapes; no label that is jumped to goes but inside a statement (*stranded*); a hoist leaves a jump into an arm only where what stands behind the label may not move; the counts of `goto_simplify` cover the jumps; every rewrite that makes a pass start over removes a jump |

The runs that end in a violation are in section 5.

**Why the bounds are enough.**  In the pool, all interaction between methods is
pairwise (two methods share an address, a bare name, a pointer, a thread), so
two workers and four methods, with the binaries built to make every kind of pair
meet (`Tangled`), reach each kind of interference; `Skipped` and `Hollow` add
each way of not being translated.  Two runs are enough for what survives a run,
since nothing distinguishes a third from a second.  Four blocks make every
shape the algorithms distinguish: a diamond, a self-loop, nested loops, a loop
with two entries, a join that is its own predecessor, unreachable blocks.  One
register is enough for renaming, which treats registers separately; two are
needed, and taken, where copies connect them.  Dead code needs two locals (one
kept alive by the other), a block before, in and after a loop, and a chain that
takes more than one round, which `MaxRounds = 1` leaves to the liveness pass.
Two methods and two targets give every pair of sections of `HelperRoles` on one
entry of a table: a third method only repeats what a second one did.  The lists
are tried on one address, alone and with the bookkeeping in front of the last
two (`Listed`), and the guesses with and without the list of box functions
(`Guessed`).  `ElfInit`
has no bound of its own; its versions are one below the modules, the first with
them, and the one the code steps down from and retries.

The trees of `goto_passes` come in families: five statements in one list
with jumps both ways, a test whose arms jump to and into what follows, and loops
that are jumped out of or contain a loop made of jumps.  Two labels are enough
for one rewrite to meet what another has left; a third arm or a second loop
repeats what these do, because every rule looks at one list and the lists right
inside it.  `Returning` is a merge block that jumps back into its arm, with and without a
local declared in front of the arm's label or behind it; `Guards` is a guard over
a block that declares what is read behind it, or does not.

The bodies of `ssa` leave out the shapes for which section 5 shows a
disagreement: an entry block that heads a loop, unless it is its own only latch
and the register has two definitions; a register with one definition inside a
loop with two entries; and a block that is nothing but a terminator.  The
conditions are stated in `MCSsa` as sets (`NoEntryLoop`, `SelfLatch`, `Body`),
so that the reader sees what the passes need.  `LoweredReadsAgree` leaves out
listings with a rotated entry for the same reason.

**Symmetry.**  The workers are interchangeable and appear only as model values;
`gate` uses the symmetry; `pool`, which also checks
liveness, does not.

**Deadlock.**  The pool's runs check it: a process that has made its last run
stutters in `Exited`, everything else that stops is an error.  A computation of
dominators, a run along a path, the recovery of two methods, `init_elf` and the
rewriting of a tree do end, so those configurations switch the check off.

**Fairness.**  `FairSpec` gives weak fairness to every pool thread, to the
driver and to the parallel replacement.  A rayon worker runs its closure until
it returns and takes the next item, the operating system schedules every thread,
and no step of the model waits for a lock that is held across steps: that is
weak fairness of each thread.  `Dominators` assumes weak fairness of its only
process, a sequential loop.  The other modules assume none and claim no
liveness: that the fixpoint of `DeadCode` ends is the bound `EnoughSweeps`, that
the scan of `GotoPasses` ends is the variant `JumpsShrink`.

**Mutants.**  Every property of a passing run has a mutant in `PROJECT.json`: a
definition of the model replaced by a plausible slip (the ledger not cleared, a
counter bumped once, a join that does not wait, copies after the terminator, a
worklist that does not iterate, a liveness that looks at one successor only,
labels swept by the jumps of one list)
under which TLC refutes the property.

## 4. Proofs

TLAPS proves these for all values of the constants: any number of workers,
methods, runs, any binaries, graphs and listings of any size.

| Theorem | Module | Says |
| --- | --- | --- |
| `TypeCorrect` | `RecoveryPoolSafety` | `TypeOK` |
| `Exclusive` | `RecoveryPoolSafety` | no two workers hold one method, and what is held has no text yet |
| `Settled` | `RecoveryPoolSafety` | after the join every method has its text |
| `NamedByAgreement` | `RecoveryPoolSafety` | a pointer is named `T` only if all its users are declared by `T`, in every run of the process |
| `OwnGradeStamped` | `RecoveryPoolSafety` | in the first run a body carries the grade of its own code |
| `BannerExact` | `RecoveryPoolSafety` | in the first run the banner's number is the number of grade lines |
| `FoldedToNamesakes` | `RecoveryPoolSafety` | in the first run a construction is folded to a registrable lambda of its bare name and arity |
| `CensusBalanced` | `RecoveryPoolSafety` | in the first run the census agrees with the texts and the methods in hand at every moment |
| `NamedTogether` | `RecoveryPoolSafety` | when the pass returns, a pointer that leads its line is named in all the bodies it leads or in none |
| `PoolImplementsTable` | `RecoveryPoolSafety` | the pool implements `DumpTable` |
| `OnlyFoldsDiffer` | `DetGateProofs` | two processes without a deadline give every method the same kind of text, the same grade and the same pointer names |
| `ReadsAlwaysKept` | `DeadCodeProofs` | where no instruction reads what it writes and the fixpoint was reached, no dead-code elimination changes what any read on any path sees |
| `Typed` | `DeadCodeProofs` | `TypeOK` |
| `EnoughSweepsAlways` | `DeadCodeProofs` | a fixpoint takes at most blocks times locals plus two sweeps |
| `NothingDeadIsEverLeft` | `DeadCodeProofs` | no set of definitions that feed only one another is left |
| `ReattachedByTwoAlways` | `HelperRolesProofs` | an address that is no function gets a role from a static-init guard or the list of box functions only, and only theirs |
| `ProvenRaisesStayAlways` | `HelperRolesProofs` | a proven raise keeps its role in every interleaving of the methods |
| `AgreedSitesReadAlways` | `HelperRolesProofs` | a rendered call of an address that all call sites show alike names that role, whatever the schedule (or box, where the address is a box function only called under guards) |
| `HelperRolesTypes` | `HelperRolesProofs` | `TypeOK` |
| `ImageSafe` | `ElfInitProofs` | relocations once, the mapping kept, nobody asked and no way to fail when a base was given |
| `WinnersTablesAlways` | `ElfInitProofs` | the tables handed on are those of the strategy that is reported |
| `BaseNeverDiesAlways` | `ElfInitProofs` | with a base address and no rewrite the initialisation never ends in an error |
| `ElfInitTypes` | `ElfInitProofs` | `TypeOK` |
| `ReachIsLeast` | `FlowProofs` | `Reach`, a recursive function of the path length, is the least set closed under the edges |
| `WalkNeverAborts` | `DominatorsProofs` | on no graph does `compute_from` abort with "dominator walk before entry" |
| `DominatorTypes` | `DominatorsProofs` | `TypeOK`: among others, the search visits no block twice |
| `DominatorsKept` | `DominatorsProofs` | in every sweep a dominator of a block is on its chain of parents |
| `TreeNamesDominators` | `DominatorsProofs` | the finished tree is the immediate dominators, as paths define them |
| `ClosedFormReached` | `DominatorsProofs` | tree and frontiers end in the closed forms `Ssa` uses, at unreached blocks too |
| `FrontiersAreCytron` | `DominatorsProofs` | the frontiers collected at joins are those of Cytron et al., the entry aside |
| `RenamingKeepsReads` | `SsaProofs` | on every path of a body that is `Plain`, every read of the renamed listing sees the value the register held |
| `PropagationKeepsReads` | `SsaProofs` | so does every read that copy propagation gave another version |
| `LoweringKeepsReads` | `SsaProofs` | on every path of a body that is `Plain` and `Lowerable`, so does every read of the listing whose phis `eliminate` has collapsed or turned into copies on the edges |
| `EliminationDefinesReads` | `SsaProofs` | where the entry is not branched back to and the collapse is `Settled`, every phi version the lowered listing reads is one it defines, after copy propagation too |
| `SsaTypes` | `SsaProofs` | `TypeOK`, for every body |

**Assumptions.**  Those the modules declare: `Workers` and `Methods` are finite,
the absent values are not present ones, the programs are functions from methods
to records, `MaxRuns` is positive; `N` is positive, a root is a block, and the
graphs map blocks to sequences of blocks; listings are of their type, there are finitely
many locals (the proof of the sweeps counts them) and the
bounds of the sweeps and rounds are numbers; a thunk's root is its own root and
both have one body; a job is a record of switches; a body is as `Cfg::build`
leaves it (`Bodied`: no block is empty, a terminator ends its block; `Wired`: a
block without a terminator goes on to the next one, as does a condition by its
second way out, and a terminator that defines a register leads nowhere).  TLC
evaluates all of them.
`OnlyFoldsDiffer` has one hypothesis more, that no deadline fires
(`~TimeLimit`): with one, the kind of a text depends on the clock, which is why
`det_gate.sh` switches it off.  Renaming and propagation
are proved for the bodies that are `Plain`: no branch leads back to the entry, and, if some register
has one definition only, every loop is entered at its header.  Neither condition
can be dropped, as section 5 shows: an entry that is branched back to gets no
phi, and in a loop with two entries the phis of a register with one definition
are incomplete.  `NoEntryLoop` of `MCSsa` is the same class, so run `ssa` checks
the theorems' instances; it goes on to the self-looping entries (`SelfLatch`),
which of these theorems only `SsaTypes` covers.  Lowering needs `Lowerable`
besides, which has two parts.  `Settled`: no collapsed phi is replaced by a phi
that is collapsed itself.  `NoLoneEnds`: no reachable block that leads anywhere
is a terminator alone.  Each excludes a slip of the code that section 5 lists:
without the first, a read keeps the version of a phi that is gone (`Ladder`,
`ssa.rs:1285`); without the second, a branch to the block passes over the copies
in front of its terminator (`ssa.rs:55`).  Both are met by all bodies of `ssa`,
many of which have phis that collapse.

**The pool.**  `TypeInv` strengthens `TypeOK` by `Placed` (a worker is on a
method exactly while its `pc` is not `"free"`).  Exclusion and settlement need to know
where a method *is*: `Accounted` says that during a render each method is in the
worklist, in the hands of a worker, or settled, and in one of them only.
Agreement needs history: between a worker's recording of a pointer and the join
nothing else says who printed it, so `Recorded` states that every pointer of a
settled line, and every pointer a worker has got past, is in `ptrUsers` with its
declaring type, and `Agreed` that a resolved pointer has one type among the
methods that print it.  `PtrInv` is their conjunction.  The first-run theorems use
`Fresh` (nothing is left over before the first run), `GradeInv` (what a worker's
ledger and marker can contain at each `pc`, and that an annotation belongs to
the code at its address) and, for the banner, `StampInv` (an annotated method
has its stamp or is being rendered); for the folds `FoldInv` (what is filed under
a name, what a worker has looked up, what a text contains), and for the census
`Balanced`, whose steps are about cardinalities: a text is added as its worker
becomes free.  Joint naming needs `Visited`: after the join a text no longer in
`unrewritten` names the pointer at its head if that pointer has a name.  The
refinement has one case per action; that `RewriteText` is `Rename`, and not
something weaker, rests on `PtrInv`.  None of these is a property a reader would ask for;
each is what makes the property above it inductive.

**The dominator walk.**  The walk aborts when a finger stands on a block without
a parent.  `WInv` has three parts.  *SearchInv*: the entry is at the bottom of
the search stack and nowhere else, hence first in the reverse postorder and
nowhere else, hence the one block at position 1 (`EntryOrder`).  *TreeInv*: every
placed block but the entry has a placed parent.  *WalkInv*: candidates and
fingers are placed.  The finger that goes up is the one at the greater position,
so it is not the entry (`LowerHasParent`), so it has a parent.  The argument
does not need the tree to be right yet, which is the point: it holds in the
sweeps that still correct it.

**The tree is dominance.**  Paths enter once, through `ReachIsLeast`: an induction
on path length done with `LeastNumber`, after which a set is shown to contain
what a path reaches by being closed.  *DfsInv* says that the search meets no
block twice and that a block put into the order has all its successors met and a
predecessor that precedes it or is still to be put; when the stack is empty this
is `Ordered`, reverse postorder as the sweeps need it.  `InTree`: each placed
block hangs under one that comes before it and above which all its other
dominators are.  `Meeting` carries that through the intersection: neither finger
passes a dominator, since it climbs only from the later of two blocks and a
dominator is never the later; and each predecessor met so far has the candidate
on its chain.  `Swept`: a sweep that has moved nothing leaves every block under a
block of the chain of each of its predecessors.  The last sweep is such a one;
then chains are closed under the edges, a block of the chain cannot be avoided
(`ChainsDominate`), and with the other inclusion the chain is the dominators.
The closed forms and the frontiers follow by comparing sets; the entry is the one
block where joins and Cytron differ.

**Renaming.**  `InStep` relates the two runs at a position.  *Tracked*: of a
register that is still read before it is written (`LiveAt`), the register holds
the tagged value exactly when the version on top of its stack (`Reaching`) does.
Inside a block that is the stack discipline (`LastDefNext`).  Over an edge it
needs that a block without a phi inherits the version that reaches the end of
*each* of its predecessors (`EdgeSame`), and this is where phi placement enters:
a block that makes a version above a predecessor, but not above the join, has the
join in its frontier (`EdgeToFrontier`), the phis are closed under live frontiers
(`SpreadClosed`, `FrontierMerged`), and `LiveIn` after its `N * K` rounds solves
the equations of liveness (`LiveInFlows`).  The dominators of a block lie on one
line (`DomComparable`, `Nearest`), so the top of the stack is unique
(`TopMaker`).

The extra joins of a register with one definition are not put on the worklist,
so the closure has one gap (`Lone`): the join that holds the definition itself.
There the incoming version is that of the nearest dominator with a version, the
`Header`, and *ZonesTracked* carries the agreement from the header to the join,
through the blocks from which the join can be reached without passing the header
again.  The zone must not contain the join, or the definition would spoil it
(`ZoneApart`); that is where loops have to be entered at their headers: one around the join
would have a header that is an extra join itself and hence lies on the way.

*Obeyed* is what propagation needs: behind a copy, its destination and its source
hold the tag together.  It stays true because the version a copy reads was made
before the copy, in a block that dominates it (`ReachingBefore`), so it cannot be
made anew without passing the copy again.  `Propagate` forwards along copies that
are behind the use only (`HopObeys`, for each of the `MaxHops` hops
`ResolveObeys`), so no set that obeys those copies can tell the new source from
the old one (`Linked`).  TLC had found `InStep` invariant on every
`Plain` body of `Entered({})` (`MCSsa`) before it was proved.

**Lowering.**  Three things are established about the passes and one about the
runs; their conjunction is `LowInv`.

*The collapse.*  `CollapseIs` says what every round keeps: a version that is
replaced is a phi's, what replaces it is a version of the same register, and,
if no replacement is replaced itself, all arguments of a replaced phi look up to the same
version as the phi itself.  `ChaseIs` is the walk along chains of candidates
inside one round, whose length bound does not matter: what is still on the chain
at the end is cyclic and stays.  So a phi and its arguments may be identified,
which `Seen` does: the versions that look up to one that carries the tag.

*The insertion.*  `InOrder` lists every edge and nothing else (`Ranks`,
`EdgesInOrder`), so the copies at a place are those of the edges and phis that
lead over it (`CopiesAre`).  Before `Eliminate` the listing has the positions of the body
(`Even`), hence the old block bounds are the right ones and copies land in front
of the terminator of their edge's source, or in front of the block it falls into
(`EdgeBlockIs`); a rotation would break `Even`, and `Plain` excludes it.
`Lowered` says what the blocks are then: copies, the body with its sources looked
up, copies, the last instruction.

*The reads that stay.*  `Supported`: a phi version that is read was not collapsed,
so its block has it in `phis`, is reachable, and one of its edges got a copy that
defines it.  `Origins` carries through propagation that a listing names only
versions of registers.

*The runs.*  `Stage` is the invariant, with four cases: among the copies in front
of a block, in its body, among the copies in front of its terminator, behind it.
In each, `Held` (the invariant of renaming without *Obeyed*) relates `holds` to
`Seen(carries)` at the corresponding position of the body, and `Moved` says that
the copies run so far have source and destination in agreement.  That the copies
are run one after the other and not together, as the phis were, is where a lost
copy or a swap would show.  `CopyHeld`: a copy writes, into a version of a
register, a version that holds what the register holds, because the register is
live behind the edge and therefore `Tracked`; so whatever of that register's
versions was in step before, the read of a branch condition behind the copies
included, is in step after it, and other registers' versions are others
(`NamedApart`).  `CopyKeepsMoved`: two copies at the end of one block have the
same source when they are of one register and touch different versions when they
are not.  Propagation ends this, since a forwarded read names a version that is no
longer the one on top of its register's stack; `FinalReadsAgree` is violated (run
`lost_copy`).  On the edge `EdgeAgrees` turns `Moved` into the agreement of the
phis at its end, and `FollowHeld`, which renaming uses, does the rest.

**The types of `Ssa`.**  `TypeInv` strengthens `TypeOK` by what the listings are
sequences of (`Listings`: also that an instruction that stands for one of the body has
its operation, which is what ties a pick of the run to a register), that the
arguments of the phis are versions, and that a run is at a block.  It needs
neither `Plain` nor `Lowerable`; of reachability it needs that the top of the
stack exists (`TopMaker`), and of the collapse that a round keeps any set of
versions closed under arguments (`CollapseRuns`).

**Dead code.**  The argument needs a set of locals in front of every instruction
on which the two listings agree.  `bound` is that set: it covers what is read
(`Cover`), it is closed backwards over what is left and over the edges
(`Cover`, `Joined`), and nothing was removed whose result it holds (`Thinned`).
With these three, *tagged locals agree on `bound`* (`Agreed`) is preserved by
every step of the run, and a read is covered.  What remains is that a liveness
that has converged yields the next such set.  During the fixpoint the sets stay
within the old `bound`, because a walk adds no more than the closure holds
(`Within`); when it is reached, the traced sets satisfy the equations of
liveness everywhere (`Traced`, `Ends`, `Starts`, `Settled`), so they are closed
over the listing without what is dead by them (`Picked`), and `Strip` makes them
the new `bound`.  The two provisos are needed at two places: `~capped` for
`Settled`, and `SelfFree` for `Cover`, where a kept definition's reads would
otherwise be taken away again by its own destination.

That the fixpoint is reached in time is a potential argument.  The facts "this
local is live into this block" only grow, since sets that grow give sets that
grow (`Rising`); there are at most blocks times locals of them; and every sweep
but the last two has found one (`Sweeping`): a sweep that finds none leaves the
sets consistent with one another (`Walked`, `Still`), so the one after it changes
nothing.  That nothing dead is left goes the other way: take a set of
definitions that feed only one another.  No liveness the walk computes ever comes
from one (`Clear`), so the last walk visits none without marking it dead
(`NoneKept`), and the pass stops only when nothing is marked.

**Helper roles.**  `RInv` adds to the two properties what a method is about to do
between the sections of a lock: when it stands before the insertion of a role,
its target is no proven raise, and it is a function unless the list of box
functions names it (`PendingInv`).  That no raise can
be proven in between is why the check under another lock suffices: raises are
noted only by the set-up, which is over (`PlacesInv`).
`SInv` goes on to the texts.  If all sites of an address show the same role and
the set-up has proven nothing of it, every insertion under that address inserts
that role (`AgreedInv`), or box where the sites are guarded and the list of box
functions names the address (`RolesShown`), and once a method that shows it has
noted it, nothing else replaces it.  A method renders only
after it has noted all its sites, so the renderer's two look-ups, in different
sections of the lock, find the same role, or two of `RolesShown`.

**The loader.**  `ImageInv` says which stage the image is in and that a pair of
addresses is asked for only without a base; `TablesInv` that a strategy is
reported only after its last call of `init` has returned, so the tables that
`init` always replaces are the last attempt's.  That a given base never leads to
an error rests on the last strategy, the only one whose failure ends the run,
being left to runs without a base.

**The gate.**  What a process prints is shown to be a function of the binary.
`Own(m)` is the text of method `m` before the join and `Final(m)` after it, with
the pointers `Name` finds all users of `m`'s pointers to agree on.  `Rendered`
says that during the pool every text but for its folds is `Own`, and that after
the join `resolved` is `Name` and a text is `Own` or `Final` as `unrewritten`
says; this needs `PtrInv` of the agreement and `GradeInv` of the grades (a stamp
is the method's own).  The second process starts from `Init` with the same
binary, so both manifests are `Final`.  Folds are left out because the run `gate`
refutes `Reproducible` with them.

**Model-checked only.**  Liveness (`RunReturns`, `Terminates`) needs fairness,
which is out of the provers' reach.  The trees of `GotoPasses` are data of any
depth and its operators recursive, so all of it is TLC's: a module that declares a
`RECURSIVE` operator is out of reach, and what such an operator computes for
every tree would be an induction over data.  Of `Ssa` there remain the reads of
bodies that are not `Plain` or not `Lowerable`, the self-looping entries of run
`ssa` among them.  `EntryIsAJoin` and `FinalReadsAgree` are false.

**Proved only.**  `OneWorkerPerMethod` and `AllSettled` of the pool, and
`HybridKeepsMapping` and `NobodyWaits` of the loader, hold for all instances, so
no run repeats them; the refinement of `library` would notice the first two.

## 5. Where code and comment disagree

Three of them are runs that end in a violation; `PROJECT.json` quotes the lines.
TLC's trace is a schedule, or a body and a path through it.

| Run | What the trace shows |
| --- | --- |
| `lost_copy` | a forwarded phi version is read after the back-edge copy has overwritten it |
| `helper_words` | one method's raise throws the literal another method passed to the same helper, because the words are kept by address and the last writer wins |
| `goto_return` | `if (a) { A; goto M; } B; goto L; M: C; L: return x;` - pattern A of `goto_simplify` takes label and return to the jump, and the path through `C` runs off the end of the method |

The modules state others of the same kind.  Where a definition is named, TLC
finds the violation when it is put in place of the invariants of the run named
with it:

* the other shapes of `slips`, each refuting `SameExecutions`: with
  `Bodies <- Nested` (`goto_passes`) a region moved into the innermost `else` no
  longer runs when an outer test fails, though `goto_fallthrough.rs:48` says
  "identical control flow"; with `Bodies <- Entered` `dead_tail` deletes a
  statement behind a `return` that is entered at a label inside it, though
  `dead_tail.rs:23` says "an unreachable statement has no effect"; and
  `region_is_loopable` counts a `using` or `lock` as a loop
  (`goto_simplify.rs:603`), so that a `break` in one is captured by the new
  `while (true)`;
* a clean method of a second binary of one process gets the grade the first had
  at its address (`CleanBodiesCarryNoGrade`, `pool` with
  `Programs <- TwoBinaries`, `TimeLimit = FALSE` and `MaxRuns = 2`;
  `verify.rs:545` against `csharp.rs:19274`, "Absent for clean methods");
* `x = x`, the edge copy of a phi whose argument is itself, ends the life of `x`
  in the backward walk; the copies on the other edges are removed and the method
  returns a value never assigned (`EveryReadKept`, `deadcode` with
  `Listings <- SelfMove`, `N = 5`, three locals; `passes.rs:545`).  `Eliminate`
  of `Ssa` produces this listing from a loop with an arm that leaves `x` alone;
* a lambda rendered before its user in one process and after it in the other is
  folded in one manifest only (`Reproducible`, `gate`; `csharp.rs:18276` against
  `src/scripts/det_gate.sh:57`).  `SameButForFolds`, which holds, leaves the
  folds out and so says nothing of this case;
* an entry block with one latch other than itself is in no frontier and gets no
  phi: its reads see the entry version on every iteration (`EntryIsAJoin`, `ssa`
  with `Programs <- OtherLatch` and `N = 3`; `dominator.rs:110`);
* a phi collapsed onto one that collapses a round later leaves reads of a removed
  phi (`EveryReadDefined`, `lost_copy` with `Programs <- Ladder` and `N = 8`; `ssa.rs:1285`);
* when a failed attempt has inserted modules and no registration is found in the
  end, the module map is not empty and the look-up by name does not run, though
  `main.rs:735` says it is why the program may go on (`LookedUpInstead`, `elf`);
  likewise a table that is only replaced when its count is positive can be a
  failed candidate's, and the corrected version is kept (31, 29 and then 29.1);
* an address proven to be no function gets the role of a class initialiser from
  a static-init guard, or that of box from the list of box functions, whose arm
  does not ask whether it is one (`NeverReattached`, `helpers`;
  `runtime_helpers.rs:1041` and `resolve.rs:2325` against
  `runtime_helpers.rs:147`);
* a box function that is only called under static-init guards is noted as class
  initialiser by `detect` and as box by `key_function_recovery` of the same
  method, so its calls do not read as what the guards show, and with a second
  method the name of one and the arity of the other may meet (`RolesShown`);
* `join_hoist` moves a merge block together with its jump back into the arm, and
  is then refused the rest of the arm, because that declares a local, reads one
  declared in front of it, or is nothing but labels: the tree has a jump into an
  arm it did not have before, which is no C# (`goto_passes` with
  `FromOutside(body) \subseteq FromOutside(original)`; `join_hoist.rs:147` and
  `:152`);
* a call can be rendered under its address and still be cut to the arity of a
  role that was noted between the two look-ups (`UnknownKeepsTheDump`, `helpers`;
  `csharp.rs:836` and `:846` against `runtime_helpers.rs:233`), so the texts
  depend on the schedule here too;
* a run without annotation after an annotating one still prints grades, and an
  annotating run after one without stamps every body "not verified", because
  `env_flags.rs:25` caches the flag's first answer (with `MaxRuns = 2`);
* two classes' lambdas of one bare name and arity share an entry of the registry
  (`lambda_inline.rs:179`), so a construction is folded to either body;
* a resolvable pointer behind an unresolvable one on its line stays unnamed
  (`Replace` stops there, as `ptr_resolution.rs:124` does);
* a genuinely empty body is counted as a marker (`csharp.rs:19292`);
* a self-looping entry block with a single definition of a register is not
  rotated and reads its entry version on every iteration (`ssa.rs:420`, `:583`);
* in a loop with two entries the extra joins of a single-definition register are
  in the set of phis before the worklist starts (`ssa.rs:501`), so their
  frontiers are not visited and a phi is missing;
* after a rotation `materialize` works with the old block bounds, and an edge
  copy lands in the block before the one it belongs to (`ssa.rs:1036`);
* an edge copy in front of a block's only instruction, its terminator, is passed
  over by the branches to that block (`ssa.rs:55` re-anchors them behind it);
* the fixpoint of `liveness_dce` is cut off after 128 sweeps, and what follows is
  commented "liveness converged" (`passes.rs:510`, `:557`): where liveness has to
  travel against the order of the blocks, a value whose only read is more than
  that many blocks away is removed (with `MaxSweeps` below what `EnoughSweeps`
  allows, `ReadAgrees` fails; the `capped` of `ReadsKept` is this case).

These are statements about the code as modelled: whether a given binary contains
such a body is a different question, and in the pipeline other passes run
between `materialize` and `eliminate` that may remove a shape before it matters.
The register-level runs use only bodies that `rebuild_cfg` can make.

## 6. What is not modelled and why

* *Decoding, parsing and formatting* (lifters, disassemblers, the metadata
  reader, file formats apart from the order in which `ElfInit` uses one,
  writers): sequential functions of their input without states to get wrong
  between steps; a test against a reference tool says more.
* *The initialisers of Mach-O, PE, NSO and WebAssembly*: shorter forms of
  `init_elf`, without dumps and with fewer strategies.
* *The structurer and the recognisers of idioms and sugar*: rewrites of a large
  expression grammar.  A model that says something about them would need the
  semantics of the grammar and would be as long as the code.  The passes that
  only move control flow are in `GotoPasses`.  What the others share with other
  methods (registries, pointer users, roles and words of the runtime helpers) is
  in `RecoveryPool` and `HelperRoles`.
* *Individual verifier checks*: one stands for them, because the pool's
  properties only tell clean from flagged.
* *Debug switches* (`ILR_*` other than `ILR_ANNOTATE`, `ILR_TIME_LIMIT` and
  `ILR_DUMP_BASE`).
* *Generated and third-party code*: dotnetdll, the Unity headers under `assets`.

Most of the repository's lines are in these groups, and the map covers a small
share of them; what it covers is the part with state, order and concurrency.

## 7. Plan

Done: `RecoveryPool`, `DumpTable`, `DetGate` and eleven theorems; `Flow`,
`Dominators` and seven; `Ssa` and five; `DeadCode` and four; `HelperRoles` and `ElfInit`
with four each; `Statements` and `GotoPasses`.

What would come next, in this order:

1. `Cfg`: how `Cfg::build` and `rebuild_cfg` make blocks of a listing, and the
   index remapping of `transform`; abstract specification: the control flow of
   the listing.  Composes with `Ssa` and `DeadCode`.
2. `Ssa` extended by call clobbers, handler entries and `split_loops.rs`.
3. `MapsCaches`: the per-dump caches (`stack_naming.rs`, `field_fixups.rs`,
   `local_types.rs`) over several dumps of one process, with addresses reused by
   the allocator and hash order as a choice.
4. `StackDepth`: the dataflow of `stack_analyzer.rs`.
5. `IndexWidths`: the thread-local widths of the metadata reader against readers
   on other threads.
6. `GotoPasses` extended by `switch`, `try` and `merge_fallthrough_lists`, and by
   `goto_struct` once its switch is on.
7. `TypeOrder`: the dependency-ordered emission of C++ types, as a function
   checked against "after what it contains".

Proofs to add: renaming and lowering for entries that are their own latch, where
the copies back take the part of the phi's argument; then lowering with lone
terminators that only fallthroughs enter.
