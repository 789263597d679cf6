# A TLA+ development of vcdiff-custom-table-research

The repository asks one question: given the logical trace of an xdelta3 patch,
how many bytes does the best custom VCDIFF code table (RFC 3284, section 7)
save? It answers with a library (`src/vcdiff_opt`), which re-encodes a trace
with a table, proves a table optimal with a MILP solver and writes a
certificate, and with runners (`benchmark`, `benchmark_android`), which do this
for a frozen corpus over days and record what was done in shared state files.

The correctness of an answer rests on three things, and the modules here follow
them: that the encoding is what the decoder reads and its length what the
optimizer charges; that "optimal" is optimal; and that an interrupted, repeated,
multi-threaded run records what happened. On the way the code and what it says
of itself came apart in three places: see `torn_certificate`, `orphaned_study`
and `int64_guard` under Runs.

Paths below are relative to the repository.

## Inventory

| Component | State | Operations | What makes it correct |
|---|---|---|---|
| `src/vcdiff_opt/varint.py` | none | encode, size, decode | decode undoes encode; sizes are exact at powers of 128 |
| `model.py`, `default_table.py` | none (immutable data) | build, validate, to bytes | 256 entries, generic entries survive, sizes fit a byte |
| `parser.py` | cost and choice arrays, tokens | `optimal_parse`, `encode_instruction_section` | no parse is shorter; bytes equal the charge |
| `codec.py`, `decoder.py` | three sections, NEAR/SAME caches on each side | encode/decode a window, file, nested table delta | lossless for every tiling; caches in step; header length a function of q |
| `optimizer.py` | a MILP and its solution | `solve_selection`, `solve_global_selection` | presolve and regimes lose no optimum; the table attains the bound |
| `trace.py`, `study.py`, `verify.py` | the artifacts of one pair on disk | trace, sweep, solve, verify, certify | a certificate names what is on disk and was verified |
| `benchmark/run_corpus.py` | state file, worker threads, mutex | run, reuse, audit, record | no lost update, no torn state, complete means audited, resumable |
| `run_scip_corpus.py`, `run_cpsat_corpus.py` | state file | the same in one thread, with timeouts | complete means audited; a failure stops the run unless it was told to go on; reruns heal |
| `benchmark_android/run_corpus.py` and the programs beside it | one state file, four programs that write it | run, skip, finalize | as above; and no lost update between programs |
| `integer_dual_adapter.py` | LP, dual, proof files | round a dual, bound, propose, replay | every bound is exact, whatever the LP solver returned |
| fixed-q sweep, composite certificate | result files per q | sweep, verify, finalize | 93 bounds and one attained value make an optimum |
| solver adapters | none | translate a model | the same feasible set |
| preparation, statistics, reports, scripts | files | straight-line input and output | not modelled |

Interactions: the study calls trace, parser, codec, optimizer, decoder in turn
and in one process; a runner starts one study per pair as a child process and
sees its exit code and its files; runners, finalizers and report writers meet
only in the state files. The hard behaviours are therefore: the threads of
`run_corpus.py` on the state file; processes killed between or inside writes;
studies that outlive the runner that waited for them; reuse of what an earlier
run left, of the same inputs or of others; encoder and decoder state that must
agree without being exchanged; and arithmetic at the boundaries of
variable-length integers and of machine words. `PROJECT.json` lists them line by
line under `hazards`.

## Modules

Abstractions common to all: a byte is a number below `2 * Base`, so that the
base of the varints (128 in the code) can be 2 or 4 and small numbers have
several digits; an instruction is its type, size, mode and payload; tables are
functions from opcodes to entries.

| Module | Models | Correspondence |
|---|---|---|
| `Varint` | `varint.py` | operators; `DecodeVarint` is the function that the loop computes |
| `VarintReader` | the loop of `decode_varint` | `ReadByte` is one turn, `Truncated` the first raise |
| `Instructions` | `model.py`, `entry_cost` of `parser.py` | `EntryMatches`/`EntryCost` split the `None`-or-cost result; `Emission` is the body of the emission loop |
| `CodeTable` | `default_table.py`, `build_custom_table` | the RFC table with its extents as constants; with (4, 3, 17, 4, 18, 4, 6) it has 163 singles and 93 pairs |
| `Parser` | `optimal_parse`, `encode_instruction_section` | `ChooseToken` is one turn of the backward loop, `Walk` one of the forward loop, `Emit` one of the emission; each check of the emission that could raise leads to a phase of its own |
| `ParserOptimality` | what `Parser` promises | adds a rival that tiles the instructions at will, and the inductive invariant |
| `ParserTables` | `validate_table`, as what it promises the parser | the parser with the opcodes and caches of `CodeTable` |
| `ParserOptimality_proof` | | the proofs of both |
| `Replay`, `LogicalReplay` | `replay_window` | operators, and as an abstract specification that applies one instruction per step |
| `WindowCodec` | `encode_window`, the window loop of `decode_file` | the encoder in the order of the code (replay, data, instructions, addresses), then the decoder one half of an entry per step |
| `WindowCodec_proof` | | the proofs, those of `VarintReader` first |
| `SelectionModel` | `optimizer.py` | the edges and rows of the two integer programs as sets of edges; a selection and a slot count fixed, the rest is a path problem |
| `TableDelta` | `encode_table_delta`, `table_to_bytes` | `Delta` is its instruction list, built by `AppendCopy` and `AppendAdd` field by field, and applied by `Replay` |
| `GlobalSelection` | `solve_global_selection`, the part of `run_study` that checks its answer | `AddEdges` is one turn of the loop, `Solve` and `SolveInexactly` are the solver, then one action per check |
| `GlobalSelection_proof` | | the proofs |
| `Ledger` | what the state file promises | abstract specification: one entry changes at a time |
| `CorpusRunner` | `benchmark/run_corpus.py` | one action per step between which a thread can be interrupted or the process killed |
| `CorpusRunner_proof` | | the proofs |
| `SerialRunner` | `run_scip_corpus.py`, `run_cpsat_corpus.py`, `benchmark_android/run_corpus.py`, and the study scripts that they start | `Reuse`, `StartStudy`, `StudyEnded`, `Timeout` are the branches of `main` for one pair; the study is its reads and its openings and closings of `certificate.json` |
| `SerialRunner_proof` | | the proofs |
| `StudyRun` | `study.py`, `verify.py`, and the file checks of the audits | one action per file that `run_study` writes, in its order; `Verifies` and `Audits` are what the readers accept |
| `StudyRun_proof` | | the proofs |
| `IntegerDual` | `integer_dual_adapter.py` | the standard form as rows and columns; `Relax`, `Rationalize`, `RecordBound`, `Round`, `Fix`, `Search` are its stages |
| `IntegerDual_proof` | | the proofs |
| `FixedQSweep` | `run_fixed_q_sweep.py`, `run_fixed_q_integer_dual.py`, `materialize_replayed_bound.py`, `verify_fixed_q_bound_sweep.py`, `finalize_integer_dual_pair.py` | one action per file a job writes; `Take` is `run_one` up to the start of the job; `VerifyBounds` and `Finalize` are the programs of their names |
| `FixedQSweep_proof` | | the proofs |

Each `MC*` module gives a specification its small instance; the `.cfg` beside it
names the bounds. Definitions marked *Slip* are not part of a specification:
each is a plausible mistake in the definition that follows it, kept to show that
the property it is paired with notices it.

Choices worth knowing:

* `WindowCodec` encodes with any tiling of the instructions by matching entries,
  not only the one `optimal_parse` returns: losslessness does not depend on
  the parse, and `Parser` says which parse is taken. Opcodes and bytes of the
  instruction section share one sequence; an opcode need not be below
  `2 * Base`, which only matters to a reader that is already out of step. The
  `source_copy` flag of an instruction, which `replay_window` compares with the
  address, is what the address says. `CachesOf` says without the loop what the
  caches hold after so many instructions; `IsTrace` is what the constructors of
  `Instruction` and `WindowTrace` let pass, with a source and a target short enough for
  the integers of the header.
* The solver of `GlobalSelection` is external. The program it is given lets the
  edges take fractions; with the integers fixed, the edges form a path problem
  and the varint rows a bound on its cost, so the costs it can meet are all
  those between the cheapest and the dearest path (`Feasible`). `Solve` returns any
  optimal answer. `SolveInexactly` returns any slot count, selection and
  regime, with a primal value, a dual bound and a sum of edge costs each up to
  `Slack` off the optimum on either side: rounding, the tolerances that let an
  answer violate the rows, and a bound that is none, as the repository documents
  one. Whether the dual bound did not exceed the optimum of the program is the
  history `bounded`. The code cannot know it and takes it on trust: it compares the
  bound with the solver's own value, and that with the bytes that the selection
  attains, so a bound that is too high passes beside a worse selection that
  attains it. This happened: HiGHS with presolve found 8,261 bytes where 8,254
  are possible (`README.md:8-10`, `docs/model.md:3-7`), and `optimizer.py` (319, 623)
  still asks for presolve. So `CertifiedIsOptimal` says without a premise that the
  patch is one of the family and has the certified size, and with the
  premise `bounded`, as `docs/model.md` has it, that it is the shortest; TLC finds
  the latter violated without it. `IntegerDual` is the part of the repository that
  needs no such trust. A solver that gives up is refused like a gap.
* A certificate in `CorpusRunner` is the number of the invocation whose study
  wrote it: two studies of a pair are told apart, their bytes are not modelled.
  A truncated certificate (`TornCertificate`) is the state between the opening
  of the file for writing and the end of the write. Killing a run kills the
  studies it started (a study that outlives its runner is in `SerialRunner` and,
  beside its successor, in `StudyRun`). Writing the state file does not fail for
  lack of space.
* `SerialRunner` is three runners: `tool` is chosen once, and the few places in
  which they differ name it. A study is where it is in its writes of
  `certificate.json` (`at`) and the solver calls that it counts. A certificate
  is its format and the calls that it lists; `audited` is no part of the file
  but the history of this copy, and lets `CompleteIsCertified` say that the
  copy on disk is the one that was audited. The hashes that tie a certificate
  to the other files are the subject of `StudyRun`, and left out. An audit is
  one step. Pairs are of four kinds, by the solver calls of their studies. Those
  of a `Candidateless` pair list no evaluation and make no call. `optimizer.py` does
  without a call too when no candidate shortens a token: of a `Hopeless` pair in
  every model (229, 458), of an `Unimproved` one in that of one slot, the only entry of
  the sweep as the runners start it; but the evaluation is listed (`study.py`,
  316-344). `SweepCalls` and `GlobalCalls` say so, and `Certifiable` which
  pairs an audit can pass: for `run_scip_corpus.py` (78) and
  `run_cpsat_corpus.py` (94) only those whose first slot helps, for the Android
  one also the others that are not hopeless. A pair that is refused is refused
  in every rerun. Kills, time limits and studies that fail count
  together as mishaps: each leaves at most one study unattended, so
  `MaxMishaps + 1` places are enough for all that are alive (proved, as part of
  `Attended`).
* In `StudyRun` a trace, and the stock patch with it, is determined by the world
  it was made in: the inputs and the installed xdelta. What is derived from it is
  that world again, or an answer to it; files are compared where the code
  compares them or their hashes. Two studies may overlap, and the world may
  change under a study. xdelta, a solver or the decoder may fail a study at any
  step that calls one (`Fail`: an exit code, a time limit, a gap, an answer that
  does not check), xdelta leaving its patch as it was or torn. The audits of the
  SCIP and CP-SAT runners compare the inputs that a certificate names with the
  hashes in the lock file, never with the inputs; `Locked` is the version that
  the lock file is of. The Android audit hashes no file, so `Audits`, and what is said of
  it, is about the other two. `AuditedIsCoherent` needs its premise `changes < 2`: if
  the inputs change and change back under a study, `trace.json` can name those
  in between, and the audits, which compare hashes only, do not notice. (Checked
  with two studies and `MaxChanges = 2`, and found to fail without the premise;
  `verify_certificate`, which replays, refuses such a directory: `VerifiedIsCoherent`
  holds of that instance, and is proved for any number of changes.)
* `IntegerDual` has words of eight bits for the 64 of numpy, with the guard at
  `2 ^ (WordBits - 3)` as in the code. What HiGHS returns is arbitrary: each
  scaled and rounded marginal is any of a few numbers, each point it proposes any
  feasible one or none. The duals that pass the guard, and the feasible
  candidates, are determined by the program and are computed once, in `Init`.
* In `FixedQSweep` an optimum is a number of instruction bytes, per trace and q,
  that does not grow with q (`SweepAssumption`; `MoreSlotsNoWorse` says it
  of the model of the optimizer, and is proved). A document names a trace by its hash and a proof
  by the fingerprint of its model, and these can differ: `swapped` is the history
  of a trace replaced while a job was at it. The document then hashes the trace
  of the end of the job, and its proof is of that of the start. Without that
  premise `CertificateIsOptimal` is violated; `verify_fixed_q_bound_sweep.py`
  would notice, but its ledger names no trace, and the finalizer takes a ledger
  that agrees with the bounds.

## Runs

| Run | Question | Bounds, and why they are enough |
|---|---|---|
| `varint_reader` | is the loop the function, does it undo `encode_varint`, is no accepted spelling shorter | base 2, five bytes, at most four digits: every length up to one past the limit, every offset |
| `parser` | is the parse optimal, does the emission accept it, does a valid table always encode | four instructions of six kinds, tables of a default layout and 15 or so custom ones: pairs that overlap on either side, ties, one- and two-byte sizes, an entry overwritten, a mode no entry covers |
| `window_codec` | does the decoder do what the logical replay does, with caches in step, and are exactly the right windows refused | three instructions over two source bytes or none, NEAR of two slots and SAME of four: a NEAR slot is reused, SAME slots collide (addresses 1 and 5), COPYs overlap themselves and leave the source; two tables with pairs of every kind |
| `global_selection` | is every certified patch as short as any table of the family allows, is an exact solver ever refused, does the sweep find each fixed-slot optimum, does the optimum never grow with the slots, and does the delta in the file header rebuild the table that was found | base 2, so both varint lengths change within a window; windows of one to three of five atoms and some of four, up to two slots over a pair bank of four, so that default pairs of the window are lost at one slot, at two, or never; headers that grow and headers that do not, a solver whose value and bound are one byte off on either side |
| `corpus_runner` | is the state file a ledger, does the exit code agree with it, do pairs proceed independently, does the proof's invariant hold | two pairs, two threads, one crash, one failing study, two free invocations: two calls of `update_state` interleave at every step, and each is killed at every step |
| `serial_runner` | does complete mean audited, is a pair ever complete whose studies make fewer calls than its audit counts, does a run stop at a failure, do reruns complete every pair that can be | four pairs, one of each kind; every tool; two free invocations, reruns without limit, one mishap: a kill or a time limit leaves a stray study beside the one attended, of the same pair or of another, or a file that is torn |
| `study_run` | does an accepted directory hold one coherent answer, does an undisturbed study leave one, why may it fail | three studies, two at a time, over two versions of the inputs and three builds of xdelta; one change, one kill, any failures of the tools: a third study meets what two that overlapped left |
| `fixed_q_sweep` | does the composite certificate name the smallest patch, does a sweep account for its jobs | q up to 4 with own bounds at 2 and 3, so one transferred; two threads, two sweeps out of three kinds, one failure or kill, one change of trace; optima about the length at which both varints grow |
| `integer_dual` | are stored bounds bounds, and successes optima | two windows, one or two slots over one pattern or more, so that the limit is too large for the adapter once, multipliers from -70 to 2 so that the guard refuses some, two denominators, three calls over one proof directory, a deadline anywhere |
| `torn_certificate` | is a killed run resumable, as the docstring of `run_corpus.py` says | the same with no failing study: TLC finds that it is not |
| `orphaned_study` | are the pairs run serially, as `run_scip_corpus.py:2` and the Android runner say | as `serial_runner`, with one free invocation and no kills: TLC finds that they are not |
| `int64_guard` | is the guard against overflow safe from it, as its comment says | as `integer_dual`, with multipliers -128 and 0: TLC finds that it is not |

What they show. The nine passing runs find no violation. In particular the check
that "this formulation must be strengthened" (`optimizer.py:676`) cannot fail for a
solver without rounding, and does catch one with (`unattained` and `mismatch` are
reached).

The three others exhibit real disagreements.

* `torn_certificate`: `write_json` writes `certificate.json` in place, so a kill
  during the write leaves a file that every later invocation takes for a
  finished study and fails to read, and that makes `--rerun` fail too, since
  `run_study` reads the certificate of an earlier study for its diagnostic sweep.
  `Independent`, in the passing run, states what does hold: a pair that is not
  obstructed in this way (or by a certificate of a former format) is completed
  whatever befalls the others. `HealsByRerun` says the same of the serial runners,
  for the pairs that their audits can pass.
* `orphaned_study`: the time limit of a study ends `/usr/bin/time`, the process
  that `subprocess.run` started, and not the study below it. With
  `--continue-after-failure`, or in the next invocation, two studies are at work.
  What this can and cannot spoil is in `serial_runner` (`CompleteIsCertified` holds
  of all pairs that no stray study belongs to, `UncertifiableStayOpen` of all) and in
  `study_run` (`VerifiedIsCoherent` holds whatever overlaps).
* `int64_guard`: the guard of `integer_dual_adapter.py` against overflow of the
  sparse products takes `np.abs` in int64, and the least number is its own
  absolute value. A dual with that entry passes. In `integer_dual`, whose
  multipliers do not include it, every bound that passes is a bound.

### Fairness

`VarintReader`, `Parser`, `WindowCodec` and `GlobalSelection` are checked for
safety only: each is one call. In
`CorpusRunner` each thread is weakly fair, because the operating system
schedules it and its child, and so is the end of `main`. `Invoke` is weakly fair
too: whoever runs the corpus starts it again while pairs are missing, which is
what "resumable" is about. Crashes and failures are not fair and are bounded
(`MaxCrashes`, `MaxFailures`). Weak fairness is enough for the mutex, because the
threads that compete for it finish their pairs.

In `SerialRunner` the runner and every study are weakly fair, for the same reason
(a stray study is a process like any other). `Retry` of each pair is strongly
fair: somebody comes back to a pair that is not complete, each time that no
runner is at work, and does not forget one pair over another. Mishaps are not
fair and are bounded, so from some point on nothing goes wrong. `StudyRun`,
`FixedQSweep` and `IntegerDual` are checked for safety only: the first two are
about what is found on disk, and the last is a call whose loops are bounded.

## Proofs

`ParserOptimality_proof` proves, for every base, every table and every
instruction sequence,

* `TypeCorrect`: the types of all variables;
* `SectionCorrect`: `encode_instruction_section` accepts what `optimal_parse`
  returns (the tokens are contiguous, match, cover, and spell as many bytes as
  they were charged);
* `ParseIsOptimal`: no tiling by entries of the table is shorter than the
  section that was written;
* `ValidTablesServe`: with a table that `validate_table` accepts, the parse raises
  only for a mode that the address caches do not have.

The first three follow from `Invariance`, that `IInv` is an invariant of `RivalSpec`. `Optimal`
is not inductive: it speaks of the end. `IInv` adds Bellman's equation for the
suffixes already costed (`DynamicProgramme`: the cost is that of the recorded
choice, and no single entry does better), that the tokens are these choices end
to end (`Contiguous`), that the bytes spelled and the cost of the rest add up to
the cost of the whole (`Spelled`), and that no step of the rival gains on that cost
(`RivalBound`). There is one lemma per action. Two lemmas carry the rest:
`BestEntryExists`, that the least cost and then the least opcode exist (from
the well-ordering of the naturals), and `EmissionLength`, that `Emission` spells
as many bytes as `EntryCost` says. `ValidTablesServe` rests on `Stuck`, that the parse has
raised at an instruction without options, and on `GenericEntry`, that a valid table has an
entry there.

`WindowCodec_proof` begins with `VarintReader` and proves, for every base, every limit
on the digits, all data and every offset, `LoopCorrect` (the loop of `decode_varint` returns what `DecodeVarint`
says, the operator by which the other modules read integers, or fails as it says),
`RoundTrips` and `EncodingIsShortest`. The invariant is that every byte read went on, and
that `value` is the number they spell. `Value` is a recursive function on the length;
that it exists is shown without induction on an operator, by the least length for
which it would not (`NumbersExist`), and that it is the only one in the same way.
The digits of `encode_varint` come from dividing repeatedly, which is dividing by the
product (`DivDiv`), and its length from the powers that the integer lies between
(`SizeBounds`).

It goes on to prove, for every window, every table, every tiling of the
instructions by its entries, every base and every size of the two caches,

* `CachesInStep`: encoder and decoder have the same caches at every COPY;
* `LosslessCoding`: the decoder never fails on what the encoder wrote, and ends with
  the target;
* `RefusalsAreJustified`: a window is refused for, and only for, a COPY that may not
  be replayed or that its mode cannot express;
* `Refinement`: the decoder implements `LogicalReplay`.

The four follow from `Invariant`. Encoder and decoder meet in three sections only,
and the tokens of the parse are not among them, so the invariant has to say of
bytes alone where one instruction ends and the next begins. `Laid` says that a section
is the pieces of the first instructions end to end, with the offset behind each;
`Tiling` that the instruction section has boundaries, a set of pairs of an offset and a
number of instructions, such that at each but the last an entry stands (`Token`) whose
halves and sizes stand for the next instructions and which ends at another. The decoder
is `InStep`: its caches, its output and its three readers are those of the same number d
of instructions (`HasDone`), and it stands at a boundary or between the halves of an
entry (`AtBoundary`). `HalfDecoded` is the core: in such a state a half does what
instruction d + 1 says. It needs of each kind of instruction that its bytes are read
back (`AddDecoded`, `RunDecoded`, `CopyDecoded`, `AddressDecoded` for each mode), and of
integers `WrittenIsRead`, which is what was proved of the reader. `CachesStep` shows
that the loop over the caches computes `CachesOf`, `OutputsGrow` that the output ends
where the instructions do, and `Counted` that the instructions begun are the
instructions done, so that `Decoded`, on which the refinement maps `applied`, is d.

The recursive definitions (the outputs of a window, a COPY from its own output,
`FlattenSeq`) are shown to exist by the least length for which they would not
(`OutputsExist`, `BytesExist`, `FlatExists`), and what holds of each step by the least
step for which it would not; no theorem here uses induction on an operator. `IInv`
speaks of boundaries and offsets that exist, sets that no state names, so TLC checks
the four properties and not the invariant.

`GlobalSelection_proof` proves, for every window, every extent of the table, all header
lengths and numbers of slots, and whatever an inexact solver answers,

* `CertifiedPatchIsOptimal`: a certified patch is a patch of the family and has the
  certified size; it is as short as any patch with any table of the family if the
  solver's bound did not exceed the optimum of the program it was given;
* `ExactCertifies`: a solver that finds the optimum is never refused;
* `SweepFindsOptimum`: `solve_selection` finds the cheapest parse for each number of
  slots, with what it leaves out counted in;
* `MoreSlotsNeverWorse`: the optimum does not grow with the slots, which is the
  assumption of `FixedQSweep` on its optima;
* `HeaderIsCarried`: whatever was selected, in any number of slots up to the whole bank,
  the delta of the header is accepted by its guard and replays to the custom table;

and `TypeCorrect`. A table and an integer program meet in covers of the window: a parse
with a table is a least cover by its edges (`ParseIsCover`), and a cover by some edges
costs no more than one by others if each of these has a counterpart over the same
instructions that is no dearer (`CoverCompare`). What edges a custom table has is
`CustomInstalled`: the order of `sorted` on patterns is a strict total one
(`WordsOrdered`), so that `Place` numbers a selection and `InPlace` inverts it
(`InPlaceIs`), and every pattern has an opcode, every opcode of the bank that is
overwritten a pattern, and every other its entry. The generic entries survive
(`GenericStays`, from `DefaultTableIs`, which derives the two parts of the table from its
construction), so every table parses every window. For one more slot
(`OneMoreSlot`) the pair that is lost is itself observed, hence may be selected.
For the program of `solve_global_selection`, `CollectedAll` says what the loop leaves
out, `RegimeBounds` that a regime holds exactly the instruction bytes whose two varints
have its lengths, and `AnswersAre` that among the answers with one choice the shortest
is that of the least cover with the lengths it really has: fractional edges buy
nothing, as the patch grows with its instruction bytes. `PatchesBounded` and `OptimumIs` conclude that
the optimum of the program is the least patch of the family (`LeastPatch`). The
properties are about the end of the call; `IInv` adds that the edges are those of the
instructions passed, that the bound of an answer at hand does not exceed
`LeastPatch` if it was `bounded`, that an answer of the exact solver is, and that what was checked holds. It is the same brute force over the family that the properties
compare with, and TLC checks those. For the header (`DeltaReplays`), the instructions
built so far tile the bytes up to `position`, and a COPY is of bytes at the same place that no
selection changes (`Reaches`); the output after each is therefore the first bytes of
the custom table.

`CorpusRunner_proof` proves, for every corpus, every number of workers and any
number of crashes, failures and invocations,

* `TypeCorrect`, which includes that the state file is always whole;
* `CertificatesHold`: an entry that says complete names the certificate on disk;
* `FailuresAccounted`: the exit of `main` reports exactly the incomplete pairs;
* `Refinement`: the runner implements `Ledger`.

These four follow from `Invariant`. None of the properties is inductive: that
`os.replace` changes one entry needs that what the thread read is still what the
file says (`SnapshotCurrent`), hence that no other thread is between its own read
and replacement (`MutualExclusion`); that the entry is right needs that nobody
else studies the pair between the audit and the update (`OneThreadPerPair`,
`PostsAreTrue`), and that a certificate is rewritten only while the entry says
running (`PostsAreTrue`, of the threads that study); the exit code needs that a
pair no longer queued or held is complete or has raised (`Settled`). `IInv` is
their conjunction; the run `corpus_runner` checks it too. There is one lemma per
action, and three on what it does to the pairs when a worker moves on or leaves.
In the refinement every action but `ReplaceState` is a stutter.

`SerialRunner_proof` proves, for the three runners, every corpus and any number of
invocations, kills, time limits and failures, `TypeCorrect`, `CertificatesHold`,
`UncertifiableNeverComplete` and `FailsFast`. `CompleteIsCertified` says nothing of the
studies that may still write to a certificate; `Attended` does: each is the one the
runner waits for, whose entry says running, or its pair is orphaned, and there is
always a place for one more. That a pair which no audit of its runner can pass is never
complete needs that its certificate and its studies carry no more calls than its kind
makes (`MostCalls`), and, if that is none, for two of the tools that they never get past
the first format (`Stuck`); both are `Fruitless`; `FailFast` needs that no pair is
scheduled twice (`Scheduled`), since a later start would undo the entry of an
earlier one.

`StudyRun_proof` proves all six properties of its run, for any number of studies,
changes, kills and failures of the tools. A study that nobody ran into finds on disk what it wrote (`Wrote`, of
each file once it is past it), and the world as it was (`Steady`); as long as no two
have overlapped, its `trace.json` names the inputs of its own trace, unless they
changed twice (`NamesInputs`), and a certificate hashes the files of one world
(`Honest`). `Company` ties the history to the studies: one at work has disturbed
every other. That an undisturbed study raises for four reasons only is itself part of
the invariant, as it has to be carried from the step that raises to the end.

`FixedQSweep_proof` proves `TypeCorrect`, `CompositeIsOptimal` and `SweepsAccount`, for any
number of slots, threads, sweeps, failures and changes, any header lengths, and all
optima that do not grow with q. `Documents` says that each document is true of the
trace it names, unless one was swapped; `Threads` that so is what a thread has in
hand; `Assigned` that every q of a sweep is waiting, at exactly one thread, or has an
outcome, and `Recorded` that an outcome of success has its document. For the transfer
of the bound at the anchor to every smaller q, one lemma steps the optimum down to q, and one shows that `PatchBytes` grows with the
instruction bytes, by that of `VarintSize`.

`IntegerDual_proof` proves, for every window, table, number of slots, word size,
sequence of denominators and number of calls, and whatever the solver returns,

* `BoundsAreBounds`: no bound that is stored exceeds the optimum of the program;
* `SuccessesAreOptima`: a call that succeeds, or replays one that did, names an
  optimum that its selection attains;
* `GuardRulesOutTheRest`: a dual that passes the guard is worth in words what it is
  worth in exact integers.

All three have a hypothesis, `NoLeast`: no multiplier is the least number of a word.
It holds of the instance of `integer_dual` and not of that of `int64_guard`, whose
violation shows that it is needed; the third theorem says that nothing else is. The state machine is the
small part: `IInv` says of each bound at hand or on disk that it is one of the program's,
and of a witness that it is an optimum, since it is certified against a bound that is
there. TLC finds it to hold too. The rest is the program. `WeakDuality` is the
textbook argument, in integers: the sum over the rows of multiplier times activity is
the sum over the columns of what each makes of the rows (`ProductExchange`), and a reduced cost counts at
the better of its two bounds. `FeasibleIs` says which candidates the rows accept,
without rows: every instruction is covered once, some patterns are selected and
no others used, and then the aggregates that the links replace hold as well.
`BestCandidate` turns the cheapest cover for a selection into a candidate
(`PathExists`), and `CandidateCover` a candidate into a cover that costs no more; so
the optimum of the rows is that of `SolveSelection`, which dynamic programming
defines. `ReducedFits` is the guard: a bound on every product by the largest
column and the largest multiplier, with room to spare. Sums over finite sets are the
folds of the community modules; `SumPick` is the one equation that is taken from their
definition, and the lemmas after it (monotone, additive, exchange) are proved from
that by the least set for which they would not hold.

Assumptions: `OpcodesAssumption` (the parser's opcodes are those of the table); `RunnerAssumption` and `SerialAssumption` (the order of submission lists
every pair once, a candidateless pair is hopeless and a hopeless one unimproved, `NoPair` and `NoThread` are neither pair nor thread);
`StudyAssumption` (unfaithful builds are builds, fruitless and locked inputs inputs,
the worlds that the first slot does not help worlds);
`SweepAssumption` (lengths are naturals, the anchor lies below the last q, optima do
not grow with q); `ParserAssumption` (programs are sequences of atoms, tables map
opcodes to entries); `WindowAssumption` (windows are what the constructors of a trace let
pass, no longer than the header can say; opcodes and sizes of caches are naturals) and `VarintAssumption`, whose last conjunct, that the powers of
`Base` are positive naturals, is a fact of arithmetic that the provers have no
theory for, as is `PowerAssumption`, how they are defined. TLC evaluates all of them on the instances.
`TableAssumption` says that the extents of the table are naturals, and bytes where an entry
or a mode stores them. `SelectionAssumption` says that a window is not empty and has
modes of the caches only, that the header of a file without a code table is the shortest,
that there are no more slots than pairs in the bank, and that no patch is longer
than the longest integer (`solve_global_selection` has no such check; the files it is
given are far shorter).
`DualAssumption` of `IntegerDual` says that slots and denominators are positive,
multipliers fit a word, there is a pattern to select (without one the adapter is not
called), and every instruction alone has an entry outside the pair bank, as it does in
any table with the generic singles of `default_table.py` (15-20). `WordAssumption`, that
a word is eight times the range of the guard, is arithmetic again.

Every invariant that a passing run checks is the subject of a theorem. Only
model-checked are the resumability of the runners (`Independent`, `HealsByRerun`), which is
liveness under fairness and so out of the prover's reach, and the three violations, which
are traces. Theorems by induction over data are out of reach too, where a least
counterexample does not serve instead.

## Not modelled

* The programs that are run by hand on the Android state file
  (`record_scaling_gate_skip.py`, the two finalizers' update of it, and
  `write_status.py`, which reads it). Each reads, changes and rewrites the file without
  a lock, so one that is run beside a runner loses an update; nothing in the
  repository says when they may run, so there is no promise to check.
* `verify_cpsat_corpus.py`, `finalize_zero_candidate_pair.py`, the summary of a sweep and the
  report of a study: they replay or render finished results.
* The bytes of file and window headers, and files of several windows: one window is
  modelled, with the caches as they start anew in each.
* The scaled and the continuous proposals of `integer_dual_adapter.py` as such: they
  are among the duals that `Rationalize` may meet.
* Preparation and freezing of the corpus, statistics, diagnostics, reports and shell
  scripts (input and output without interacting state, or floating point); the LP and
  MILP solvers, their translations, and the xdelta3 binaries (external); wording and
  layout of JSON documents.

## Plan

1. `Varint`, `VarintReader`, with proofs. Done.
2. `Parser`, `ParserOptimality`, with proofs. Done.
3. `WindowCodec` implementing `LogicalReplay`, with proofs. Done.
4. `CorpusRunner` implementing `Ledger`, with proofs. Done.
5. `SelectionModel` and `GlobalSelection` against brute force over all tables and
   parses, with proofs. Done.
6. `StudyRun`, the artifacts of one pair on disk and `verify_certificate`, with
   proofs. Done.
7. `SerialRunner`, the serial runners with time limits and stray studies, with
   proofs. Done.
8. `IntegerDual`, bounds in exact integers from an untrusted solver, with proofs. Done.
9. `FixedQSweep` and the transfer of a bound to smaller q, with proofs;
   `MoreSlotsNoWorse`. Done.
10. `TableDelta`, the nested delta of a code table, with proofs; `ParserTables`. Done.
11. Left: file and window headers with several windows, once the format of the
    header is worth a model of its own; the programs run by hand on the Android
    state file, once the repository says when they may run.
