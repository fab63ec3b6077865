# OpenCollate: a TLA+ model of its core

OpenCollate compares what the views of a hardware project say about the same
interface (RTL, LEF, Liberty, UPF, register descriptions, netlists, ...) and
ends with an exit status that gates a build. This directory models the parts of
it whose correctness rests on order, concurrency, failure or a search, checks
them with TLC and proves the most important results with TLAPS. All paths below
are under `src/src/opencollate/` unless they say otherwise.

## 1. The system

A run (`cli.py: _run`) is a pipeline: sources -> parsers -> observations ->
reconciliation -> checks -> diagnostics -> report and exit status.

| component | state it keeps | operations | what is hard about it | what makes it correct |
|---|---|---|---|---|
| command line (`cli.py`, `demo.py`) | none | one handler per subcommand | failures must end as status 2, interrupts as 130 | a verdict only for a complete result |
| configuration (`config.py`) | none (immutable project) | load and validate TOML | no state | fail closed |
| parallel parsing (`execution.py`) | block, futures, results | `ordered_parallel_map` | thread schedules, barriers, first failure | the outcome of a serial loop |
| observation cache (`cache.py`, `cache_codec.py`) | directory of entries, one lock per process | `parse`, `_load`, `_store`, `_make_room` | files edited meanwhile, several processes, crashes, eviction | an answer is a parse of one moment's contents |
| parsers (`parsers/*.py`, 15 formats) | cursors, scopes, hierarchies while reading | `parse` of each adapter | recovery after malformed input, bounds | facts are present, absent or unparsable, never guessed |
| domain model (`model.py`, `diagnostics.py`) | none (frozen records) | construction and validation | - | ordering and fingerprints are stable |
| engine (`engine.py`, `catalog.py`) | canonical contract under construction | reconcile, check, override, waive | taint, missing views, order of overrides and waivers | no defect is lost, no tainted fact is reported as missing |
| plugins (`plugins.py`) | registry, what was discovered | discover, register, run checkers | exceptions in the middle of an iteration, a host that changes the registry meanwhile | every checker is heard or named as failed |
| contracts (`contracts.py`, `contract_review.py`) | frozen snapshot with digest | freeze, migrate, review | version migration, damage | a snapshot is used only if it is intact |
| baseline (`baseline.py`) | two reports | compare, gate | duplicates, waived and overridden severities | a new defect always gates |
| Boolean checks (`boolean.py`, `formal.py`, `symbolic.py`) | none | prove equivalence, receipts | resource limits | inconclusive is never proven |
| sequential verification (`sequential.py`, `sequential_smt.py`, `sequential_spec.py`, `sequential_cone.py`, `sequential_ir.py`) | solver contexts, results, budget | `run_request`, `verify_property`, `replay` | induction windows, reset, unknown answers | proven means true without a bound |
| RTL lowering (`sequential_rtl.py`, `sequential_hierarchy.py`, `sequential_procedural.py`, `sequential_sources.py`) | IR under construction | lower syntax trees | unsupported constructs | fail closed |
| certificates (`sequential_certificate.py`, `sequential_cnf.py`, `proof_producer_io.py`, `proof_kernel.py`) | clause database, watches | `certify`, `verify_certificate`, `verify_rup` | untrusted proofs, in-place watch lists | an accepted proof refutes the obligation |
| watchdog (`guard.py`, `guard_worker.py`, `guard_status.py`, `atomic_output.py`) | a worker process, its files | `run_guarded`, publish | timeouts against completion, descendants, half-written files | only complete results are forwarded |
| reporters (`reporters/*.py`) | none | render | - | formatting only |

How they interact: the command line calls the engine with the observations that
`ordered_parallel_map` collects; each of its workers calls the parser through the
observation cache, so the cache is entered by several threads at once, and by
several processes when commands share a directory. The watchdog runs the whole
command line again in a worker process and talks to it through four files. The
sequential verifier is called by its own subcommand; a certificate repeats its
obligation as a CNF formula that the proof kernel checks without a solver.

What is hard to test in all this is listed, line by line, under `hazards` in
`PROJECT.json`, with the properties that watch each of them.

## 2. The modules

| module | models | abstract specification | composed with |
|---|---|---|---|
| `RupKernel` | `proof_kernel.py`, all of it | `RupCheck` | - |
| `ParallelParse` | `execution.py`, as `cli.py: _load_observations` calls it | - | - |
| `ObservationCache` | `cache.py` | `FreshParse` | - |
| `Guard` | `guard.py`, `guard_worker.py`, `guard_status.py`, `atomic_output.py`, `cli.py: _command_guard` | - | supervisor and worker in one module: they share the files |
| `Inventory` | `engine.py`: aliases, canonical design, presence checks, generated contract; `cli.py: _command_check`, `_command_contract_build` | what the files really say (`TrueInput`) | the engineers who edit files and aliases |
| `Review` | `engine.py`: overrides, waivers, exit status; `baseline.py`; `cli.py: _command_review` | - | the calendar and the project between reviews |
| `KInduction` | `sequential.py: run_request`, `sequential_smt.py`, the meaning of properties in `sequential_spec.py` | the design itself, run after the verification | - |
| `TransitionIR` | `sequential_ir.py`; expressions and drivers of `sequential_rtl.py`; `holds` and `validate_signals` of `sequential_spec.py` | the integer interpreter is the reference of the next three | - |
| `BitBlast` | `sequential_cnf.py`, all of it | `TransitionIR!Runs` | extends `TransitionIR` |
| `SmtLowering` | `lower` and `append` of `sequential_smt.py` | `TransitionIR!Runs` | extends `TransitionIR` |
| `PropertyCone` | `sequential_cone.py` | `TransitionIR!Runs` | extends `TransitionIR` |
| `Certificates` | `sequential_certificate.py` | what the design does (`True`) | `BitBlast`, `SmtLowering`, `PropertyCone`, and who edits the files |
| `Reading` | what the adapters of `parsers/` share: the record stream with its damage, facts, tainted scopes | - | extended by the five below |
| `ReadGds`, `ReadSdc`, `ReadUpf`, `ReadCdl`, `ReadDef` | `parsers/gds.py`, `sdc.py`, `upf.py`, `cdl.py`, `defparser.py`, from their records or commands on | what the source states (`meant`), as the tools of its format read it | `Readers` |
| `Readers` | `parsers/dispatch.py` and `base.py: read_source` | - | the five adapters |
| `Comparing` | fact states, selection of a contract value, taint of a whole view (`engine.py`, `model.py`) | - | extended by the next five |
| `Ports` | bus shapes of `model.py`; port values and bus integrity of `engine.py` | `SameBus`, `SameDirectionOfBits` | `Checks` |
| `PinFunctions` | `boolean.py`; `_check_functions` | `SameMeaning` | `Checks` |
| `Registers` | `_check_registers` with its groups, fields and integrity; frozen registers | `SameRegister`, `FieldsShareBit` | `Checks` |
| `Bindings` | object references, definitions, clocks, interfaces and pin maps of `engine.py` | names of the design (`DesignPaths`) | `Checks` |
| `Connectivity` | rows of `parsers/connectivity.py`; selectors and searches of `engine.py` | `Satisfied`, on every netlist the view may stand for (`Worlds`) | `Checks` |
| `Plugins` | the checkers of `plugins.py` | - | `Checks` |
| `Checks` | `CollationEngine.run` over the six above, `build_contract`, a second run | the definitions above | adapters that lose parts, who edits the views, the host of the plugins |

`MCRupKernel`, `MCObservationCache`, `MCKInduction`, `MCCertificates`, `MCInventory`,
`MCReview`, `MCReaders` and `MCChecks` define the small instances; `ParallelParse` and `Guard` have numbers as constants and are run
directly. `RupKernelProofs`, `ParallelParseProofs`, `GuardProofs`,
`ObservationCacheProofs`, `KInductionProofs`, `ReviewProofs`, `InventoryProofs` and
`ReadersProofs` hold the proofs.

**RupKernel.** One action is one iteration of a loop of the code; a clause is a
sequence of integers; `positions` and `watches` are the code's two tables, index
by index (from 1). `Conflict` clears the locals of `conflicts`, which is what an
early return does. `Meter` is abstracted to `Exhaust`, enabled wherever the code
spends: this includes every value of the work bound and every clock. The code
raises an internal error when a visited clause does not watch the false literal;
there is no action for that, so a deadlock or a violation of `WatchesAgree`
would show it.

**ParallelParse.** The calling thread (`Gather` ... `Shutdown`) and the pool
(`Take`, `Complete`) interleave freely; submissions and cancellations are one
future at a time.

**ObservationCache.** A fingerprint and a parse read one file per step, so every
file may change between any two reads; `_make_room` lists the directory in one
step and evicts one entry per step; the lock is per process, and a crash of a
process may come at any step. The contents of a file are a version number: the
documentation (`docs/incremental-and-guarded-checks.md`) excludes changes that
are undone within a call, and so does the model. `FreshParse` knows nothing of
disks and keys: an answer is the parse of the contents that all files of the
source had at one moment of the call.

**Guard.** The supervisor, the worker, one descendant, the clock and a program
that creates the status path interleave. The completion record is `Absent`,
`Partial` or complete; reports are counted in chunks, so that a report can be
half written. Interrupts are possible at every step, with what the code does
about them: inside the watch loop the worker is stopped, elsewhere it is not.

**KInduction.** A solver context is the set of frame sequences that satisfy it,
and a query is a question about that set, or no answer. The lowering of a circuit
is the constant function `Circuits`, from a frame to the next register values;
that the code's terms and cones have these solutions is `SmtAgrees` and `ConeExact`.
After the request the design itself runs for `MaxCycles` cycles from any
register values, which is what the exit status is compared with.

**TransitionIR, BitBlast, SmtLowering, PropertyCone.** These are the algorithms.
A circuit is the code's `Circuit`: a sequence of nodes that refer to earlier
nodes, and the nodes that drive each signal. `BitBlast` is the code's CNF
construction gate by gate, with the cache of gates and the constant literal; a
formula is threaded through its operators in the order of the calls (`Then`), so
variables have the numbers that the code gives them up to the order in which
signals are sorted. `ModelsOf` enumerates all models of the result.
`SmtLowering` takes a Z3 term for its value, with the width that Z3 gives it; the
operations of Z3 are external. The widths and signs that slang infers are part of
an expression. The node, width and state limits are left out.

**Certificates.** One action is one obligation, one query or one check. A digest
stands for what it digests, and a refutation for the obligation it refutes:
`RupKernel` and its proofs are about that. The model for a guard witness is any
model, since the producer may return any. Running out of a limit, the deadline
and a producer that gives up are `Exhaust`, possible at every step. Certificates
may also be put together from the rows of others, with the digests made again
(`EditDocument`). The outcomes `not-certified` (a command that fails) and
`rejected` (a certificate that is refused) are told apart here; the command
reports both as `not-certified`.

**Inventory.** A file is a function from its components to their ports; a parser
reports part of it, and the scopes it lost. That it taints what it loses
(`Honest`) is assumed of the parsers, and everything said about tainted views
rests on it. One action is one command, since a run of the engine shares nothing
with another but the contract file; the work is in the operators, one for each
method of `engine.py`, from `Candidates` (`_resolve`) to `PortDiagnostics`
(`_check_component_ports`). An alias selector is the set of views it matches and
the rank of the match. The loop of participation rules over a port's views is
written by its outcome (`RuledPortViews`): a view is left when no rule takes it
away after the last one that adds it. Left out: the diagnostics of the parsers themselves, views
that share no component (`OC2001`), the checks of values (they are in `Checks`), and the choice of a
port's role, which is taken to be the same in every view (`PGPort`). A role
restricts a participation rule for ports only: for components `_required_component_views`
ignores it, and so does the model.

**Review.** A report is a set of occurrences: an entry of the report with its
number among the equal ones. Matching equal contents first, as `_compare_group`
does, is then the difference of two sets, and a count of left-overs its
cardinality. Fingerprints are the code and the object. The order in which
left-over occurrences of a fingerprint are paired is that of SHA-256 digests, so
the model takes any order (`NewOccurrences`). A baseline is saved once as it is,
and later only after a review with the default gate passed, which is what
`docs/baseline-review.md` tells the user to do. `report_unmatched_waivers` is on.
A finding is fatal by itself, by its rule, or because the policy promotes its rule
(`config.py:495-507` allows an override to "fatal" of any rule, and no other one of
a fatal rule); waivers are judged after the overrides, as in `engine.py:3997`.

**Reading, the five adapters, Readers.** A source is a sequence of abstract
records, and one action is one handler of an adapter's loop. Beside the source
stands what it states (`meant`): for GDS and DEF it is given with the source,
for the scripts and netlists it is computed by rules that know no recovery. A
binary stream or a layout may reach its adapter damaged (`Lose`, `Repeat`,
`Spoil`, `Cut`), and any source may be unreadable or not UTF-8. An observation
is a set of facts, known or not, with the scopes that are tainted. The two
properties are what the rest of the program relies on. `Inventory` and `Checks` assume a
little more of a parser than `LossIsDeclared` gives: the reader properties only ask
that what is lost lies in some scope the adapter taints under the name it reads it
by, while `Honest` of `Inventory` asks for the component whose scope it is, and the
UPF adapter may taint the name of a supply port where the component lost it
(section 3). What opaque directives of a netlist say (`ReadCdl`) is stated by
nobody, so their loss is only tested by the taint of the whole view. A UPF script's
meaning finds each object by its path from the top of the design (`At`), by tables
of what each option names that share nothing with the reader's; the reader's pair
of a scope and a name is compared as the path that `_reference_matches` takes it for
(`Path`), and a part of an object, such as the port of a switch, by the name its owner
has in the command, since that is all the adapter keeps. A Tcl word is a form over sets of names (a
literal, a variable, a call), and a list is of one word (`SdcScript`), because only
then a list and its text are the same; the tokenisers are left out.

**Checks and the modules it extends.** An analysis reads one view per step, then
does the checks that need no search in one step (`StaticFindings`), decides the
connectivity rows by searches of one node expansion per step, and asks the
checker plugins one by one. `Freeze` saves the generated contract and `Revise` changes
a view before the next analysis; `Host` registers, withdraws, disables, resets or
lists plugins, between analyses or while checkers run. What it did is kept
(`hosting`), so that `CheckersAnswer` can tell from the history alone whom a run owes
an answer; the answers of a run are `asked`, beside the findings of the engine. A view is a record of what
an adapter reports; `truth` keeps what it should have reported, for the
property about losses only. The operators are those of `engine.py`, method by
method, and each family of checks has a reference definition that uses none of
its groupings, sort orders, caches or searches. An edge that is not known is one
of the wires a netlist may or may not have, of either parity, and an incomplete
graph may have any others: `Worlds` are the netlists that remain possible. Names
are canonical here, since aliases are the matter of `Inventory`. Left out: the
case-insensitive modes, bit-suffixed names, messages about references that are
themselves unknown, and the z3 backend of `boolean.py`.

## 3. What the runs check

| run | bounds | what it shows |
|---|---|---|
| `kernel` | 3 variables, 223 obligations, 8 certificate lines, certificates of up to 3 lines, 7 clauses, 14 literals | `Soundness`, `WatchesAgree`, that the kernel implements `RupCheck` (exactly the reverse-unit-propagation lines are accepted), and that every certificate gets a verdict |
| `parallel_parse` | 4 sources, 1 to 3 jobs, every combination of safe and failing sources | `SameAsSerial`, `NoUnsafeOverlap`, `NothingLeftBehind`, termination |
| `cache` | 2 threads of a process, or one in each of 2 processes; 3 calls, 2 files with one edit each, one of which becomes uncacheable, entries of 1 and 2 bytes, target of 2 | `EntriesBounded` (of entries, for one process: the code promises it neither across processes nor of temporary files), implements `FreshParse`, a call ends |
| `guard` | deadline 1 tick, output limit 1 chunk, reports of up to 2, 1 chunk of noise | `OnlyCompleteResults` (with the status that goes with the result), `NothingSurvives`, `NeverClobbers`, `GuardEnds` |
| `k_induction` | 3 states, 4 inputs, 27 circuits, 8 requests, depth 3, induction 2, one reset cycle, 6 cycles of operation | `Soundness` beyond the depth and without vacuous contexts, `CheckedThrough`, `CounterexamplesReplay` |
| `certificates` | every operator and pairs of operators over a 2-bit input and a 2-bit signed register (1 to 4 bits wide), two cycles; designs of up to 5 signals with a reset, depth 2 to 4, induction 1 to 4, certified, verified and edited twice; runs 3 cycles beyond the depth | `EncodingExact` (of the unrolling and of the obligations), `SmtAgrees`, `ConeExact`, `CertificateSound`, `FreshVerifies` |
| `inventory` | 2 edits of files or tables in three projects: 2 components, 2 ports (one a power pin), a netlist, a library, a package map and 2 participation rules; or 2 views, 1 port, 3 alias tables and 3 ways for a parser to give up; or 3 views and a rule that exempts one from its port | `CleanMeansAgreement` (of the views and with the contract), `AbsenceIsReal` for what a parser lost, `FreezeIsClean` through renamings, `FrozenNamesHold` |
| `inventory_tainted_contract` | 2 views, 2 ports, the same parsers, no aliases | first finding below |
| `readers` | GDS: 2 cells, 3 elements, one item of a kind per cell, one damaged record; SDC: scripts of 3 commands; UPF: 2 commands, 3 with a design top, or 2 to 4 inside an instance and back at the top, 7 objects; CDL: 5 lines, 3 nets, 2 files; DEF: up to 3 sections of up to 2 entries, one damaged record; sources of up to 2 records (`MaxUndecoded`) also unreadable or not UTF-8 | `NothingInvented`, `LossIsDeclared` |
| `readers_collections` | SDC: a query of a collection held in a variable | second finding below |
| `checks` | nine projects, each with the views one family of checks compares: one port with 15 shapes, one output with 13 expressions over 2 inputs (`MaxBooleanInputs`), one register name in 2 blocks with 3 fields, 5 endpoints and 6 wires with 16 lists of rows (3 bits, 3 searches, 7 states), 9 constraint references and 6 power-intent lists in a hierarchy of 2, 2 clocks of 3 periods, 2 balls and pads, 4 installed checkers, one of which does not load and one whose name is taken, and 3 that a host may register; one edit after the freeze for ports, registers and plugins, 3 operations of the host | `CleanMeansSame`, `AccusationsHold`, `LossNeverAccuses`, `FreshContractOfKnownAgrees`, `CheckersAnswer`, `SearchEnds` |
| `review` | 5 findings, 2 at a time, 4 policies with 3 waivers, one of which promotes the rules of findings that it waives, 3 days | `FatalSurvives`, `RatchetHolds`, `NewGateBounds`, `TimeNeverHelps` |

Why the bounds are enough: three variables are what it takes for a watch to move
from a false literal to a third one and back; the obligations contain every
ordered choice of three out of six long clauses. Four sources hold a block, a
barrier and another block. Two entries of different sizes need an eviction of
one or of two. With a deadline of one tick every step of the worker happens
before, at and after it. A run of 6 cycles is twice the depth, and 3 states
allow properties that are inductive only with one or two hypotheses. Two bits are
the least with a sign bit, a carry, two stages of a shift and counts at and
beyond the width, and operands of 1 and 3 bits make counts that have to be cut;
two cycles make a register an alias of a bit of the cycle before. Two edits
after a freeze can move a port or a component from one view to another, and a
third view lets a contract pin a port in a view that a rule exempts; two
findings with a common fingerprint are the least that left-over occurrences can
be exchanged among, and two overlapping waivers the least that can hand a
finding over.

For the readers, three commands are the least with a definition, a change of it
and a use; one damaged record is enough to open every recovery path, and the
limits of two or three objects are reached. For the checks, a third field is
what it takes to contain one field and reach into another; five endpoints hold
two parallel bits, a detour and a crossing, and seven search states are fewer
than a search with parities needs there, so searches end by a path, by
exhaustion and by the limit; two blocks are the least that make a register name
ambiguous.

Deadlock is checked in the kernel, the pool, the guard, the inventory and the
review. It is off for the
cache (callers that have used up `MaxCalls` are idle), for the verifier (the
design stops at `MaxCycles`) and for certificates (a design that cannot be loaded
leaves nothing to do once the edits are used up), for the readers (a source that
has been read is done) and for the checks (a project that has been analysed with
its contract, and whose edits are used up, rests).

**Fairness.** `RupKernel`: one thread that keeps running. `ParallelParse`: the
threads of the pool are scheduled and parsers return, which the code cannot do
without either. `ObservationCache`: a thread inside `parse` keeps running; edits,
damage, crashes and new calls are never forced. `Guard`: the supervisor is
scheduled and the clock advances; nothing is assumed of the worker, which may
hang for ever. `Checks`: the thread that searches goes on (`Search`) and waits for
nothing but the checker plugins, which are taken to return: the code gives them no
timeout; parsing, freezing, editing and hosting are never forced. The other modules
state no liveness.

**Findings.** Each is a run that violates what a document of the repository says.

1. `inventory_tainted_contract` contradicts `docs/architecture.md:57-58`: the two
   checks of the design against the contract (`engine.py:835` and `:916`) have no
   taint test, so a component or port that an incomplete parser lost is reported
   as missing, next to the message that absence checks are suppressed.
2. `readers_collections` contradicts the same lines: a query that is handed a
   collection held in a variable (`sdc.py:1001`) takes the text of the command
   that built the collection for an object name, reports it as known in a
   complete view, and the comparison reports it as absent.

Others were met while modelling and have no run:

* Once the cache directory lists more than 4097 names (many small entries,
  unrelated files, or temporary files of dead processes), `_make_room`
  (`cache.py:202`) gives up before it evicts anything, so nothing is ever stored
  or evicted again although the byte target has room, while
  `docs/incremental-and-guarded-checks.md:61` says that it evicts the oldest. No
  property covers this limit: every call still ends and answers rightly.
* The byte target is one of entries. Temporary files of failed or dead writers stay
  in the directory uncounted (`cache.py:204`, `:251-258`), and a new entry lies beside
  the one it replaces until the rename.
* What a process has discovered it remembers, so `OPENCOLLATE_DISABLE_PLUGINS` set
  after the first run has no effect before the next reset, although `README.md:276`
  tells a host to set it when a run must ignore installed entry points.
  `CheckersAnswer` asks for what the code does: the state at the time of discovery counts.
* A computed UPF word is put down to the first word of its command that can be read
  (`upf.py:995`). When it is an option with a value of its own (`create_supply_net
  $option PD S`), the taint falls on that value and not on the object; when it is a
  flag before the name of a supply port, it falls on the port and not on the design
  top that loses it; when it stands before the name of `set_scope` or
  `set_design_top`, later commands are read as if that command were not there.
* A UPF `set_scope` replaces the scope, and `set_scope .` leaves it for the top
  (`upf.py:1120`), where the language goes on from the current one; the instance `.`
  is resolved inside a scope but kept as a name at the top (`upf.py:849`), where the
  comparison cannot find it; and a name inside a scope that begins with the scope's
  own is taken for a whole path (`engine.py:1790`).
* `OC1004` and `OC1005` are appended after the overrides (`engine.py:3987`,
  `:4012`), so a policy that promotes them changes nothing, while
  `docs/exit-codes.md:11` lets a policy promote a warning.
* A package map that a contract names becomes a required view through the
  fallback of `_expand_view_selectors` (`engine.py:749`), against
  `docs/rule-catalog.md:49-50`.
* A contract freezes values that the preferred view states without knowing them
  (`engine.py:4089`), against `docs/canonical-contract.md:186-187`; a fresh
  contract may then disagree with the views it was made from. `FreshContractAgrees`
  says what is promised, and the run checks `FreshContractOfKnownAgrees`.
* A netlist without a title line loses an unsupported device in its first line
  (`cdl.py:1610`): it is taken for the title, with no diagnostic and no tainted
  scope, while `docs/supported-syntax.md:276` says that they remain explicit.
* Checks of one view against another that is incomplete (`OC5001`, `OC6001`,
  `OC6201`, `OC6301`) ask for the taint of the scope of the reference, and some do
  not ask whether the view that lacks the object lost part of itself; the message
  of `engine.py:420` says that they are suppressed. The projects of `checks` lose
  edges, values, fields, registers and power-intent definitions, not the RTL
  objects a reference names.
* A view whose bit order is unknown hides a disagreement about the order between
  two other views (`engine.py:1144`); `CleanMeansSame` asks for the order only when
  all views know it.
* Of three rows for one path, a connectivity file compares the third with the
  expectation of the first only (`connectivity.py:385`).
* `get_*` marks a pattern as `dynamic`, but a pattern given directly to a delay is
  taken for a name (`sdc.py:1103`): `set_input_delay 1 -clock c a*` becomes a known
  constraint of an object named `a*`. The `-source` of a generated clock is asked
  for its state only (`sdc.py:1345`), its targets for `dynamic` as well (`:1316`): a clock whose source is `[get_pins u*]` is known, with
  the source `u*`, and the comparison (`engine.py:2199`) compares that text.

The sources of `readers` leave out, by name in `MCReaders`: queries of queries
(the second finding, `Requeries` of `ReadSdc`); patterns that the SDC adapter takes
for names (the last item above, `TakesPatterns`); netlists without a title that hold a device
(`MCTitled`); a nested `.SUBCKT` with one `.ENDS` missing, where either may be the
one meant (`MCUnbalanced`); a supply port created after `set_scope`, which the
adapter gives to the design top, the supplies of a domain in a scope, likewise, and a
scope in a scope (`MCScopedPort`); and a power state of an object that only another
scope has defined, which is not legal UPF (`MCForeignState`). By construction
no UPF script has `set_scope .`, a computed option with a value of its own, a
computed word before the name of a supply port, a scope or a design top or before
a second name (not legal UPF), an instance `.` at the top, a name that begins
with that of its scope, or a domain with a `-scope`. An unnamed clock is
named after each of its targets, as `tests/test_sdc_parser.py:118` expects.

## 4. What is proved

From the assumptions named in `RupKernel` (a positive number of variables, any
obligations and certificates that are sequences of integers, any positive
limits):

* `Typing` (`RupKernelProofs`): `TypeOK` is an invariant, because it bounds the loop
  indices by what they index; the strengthening (`Shape`) adds that the watched
  positions of a long clause are positions of it.
* `WatchesKept` (`RupKernelProofs`): `WatchesAgree`. The inductive invariant
  (`Watching`) says that clauses repeat no literal, that the two watched positions
  differ, and that a clause is in the list of a literal, once, exactly when it
  watches it. The step that matters moves a watch: the list under the walk loses
  one entry and keeps the others, whichever entry fills the hole
  (`FillHoleFacts`), and the list that gains one did not have it, because the new
  position is none of the watched ones. `InternalErrorUnreachable` follows: the
  error "inconsistent proof-checker watch state" cannot be raised.
* `RetainedEntailed` and `KernelSound` (`RupKernelProofs`): every retained clause
  follows from the obligation, and an accepted obligation is unsatisfiable. The
  argument: fix an assignment that satisfies the obligation. Each clause of the
  database is true in it; while a line is under test, either the line is true in
  it or each literal on the trail is, because a literal is put on the trail only
  when it is a unit, the negation of a literal of the line, or the last literal
  of a retained clause whose others are false. A conflict would make a literal
  and its negation true, so the line is true and may be retained; an empty clause
  is true in no assignment. The inductive invariant says this at every program
  counter; the watches play no part in it, which is why soundness needs nothing
  of their consistency.
* `KernelDecidesRup` (`RupKernelProofs`): the kernel implements `RupCheck`, so it lets
  in, and denies, exactly the lines that the textbook definition does. The argument
  is about the fixpoints of a line under test, the sets of literals closed under
  the clauses of the database that hold its negation. The trail stays inside every
  fixpoint (`TrailForced`), so after a conflict none is consistent. When a walk
  ends without one the trail is itself a consistent fixpoint (`TrailIsFixpoint`):
  units and negations are on it, and for a long clause the two-watched-literal
  discipline (`OtherTrue`) says that a watch may rest on a literal whose negation
  is propagated only while the other watch is true. `EmptyExact` and `UnitsExact`
  tie the flag and the list beside the clauses to the clauses, and `LastLine` puts
  the empty clause into the database before the last check.

From the assumptions named in `ParallelParse` (any number of sources, at least one
job):

* `SerialOutcome`, `UnsafeAlone` and `NoneLeftBehind` (`ParallelParseProofs`). One
  inductive invariant serves all three. The block under way is a run of
  consecutive safe sources that ends just before `next` (`Blocked`), so the calling
  thread parses only when the block is empty (`Inlined`); the control state of the
  calling thread and its position in its loop leave each source of the block a few
  states of its future (`Allowed`): none is `pending` after the pass that cancels,
  none `running` after the shutdown; what precedes the block is collected, in
  order, and did not fail (`Outcomes`); the pool has no more workers than jobs
  (`Crew`). A failure is recorded only at the turn of its source, after all the
  sources before it have been resolved, so it is the first one in the order of the
  configuration, whatever the pool finished first.

From the assumptions named in `Guard` (a deadline and an output limit of at least
one unit, any report and any noise; a complete record or status is told from no
file, a half-written one and somebody else's):

* `CompleteResults`, `NoSurvivors` and `StatusKept` (`GuardProofs`). The inductive
  invariant follows a result from the worker to the status file. `Recorded`: a
  record is complete only when the worker is about to exit, and one that says
  `normal` for exit code 0 or 1 was made with the whole report written. `Judged`:
  from the judgement on the worker is gone, so neither code nor report changes;
  what is still `completed` was read to be in time, and at publication it is
  attested. A verdict then carries the attested code. `NothingSurvives` needs that
  the worker does nothing before it is launched (`Unstarted`) and that a
  descendant is started only by a worker that runs. `StatusKept` needs no
  invariant: both steps that write the path look whether it is free.

From the assumptions named in `ObservationCache` (every source has files and an
entry with a size; threads belong to one process each; the marks for no answer, an
exception and an unchecked parse are told from observations):

* `CacheIsInvisible` (`ObservationCacheProofs`): the cache implements `FreshParse`,
  step by step. The moment of a call is the end of its first fingerprint, where
  `seen` is taken (`Sighted`). Contents only get newer, so whatever is read after
  it is at least as new as `seen` and at most as new as what the second fingerprint
  will find (`Parsing`, `Rereading`); when both fingerprints are equal there is no
  room between them (`Squeezed`, `StableMoment`), and key, parse and `seen` are the
  same. An entry that is not damaged holds the parse its key names (`Sound`), which
  every removal and replacement keeps, so a hit answers as a parse would. An
  `encoded` observation stays that of the moment however long its thread waits for
  the lock, which is why the invariant carries it to the end of the store. Edits
  that bring old contents back would break exactly the second step.
* `ByteTargetKept`: `EntriesBounded`, for any number of threads of one process: the
  entries are within the target in every state, and while a temporary file holds
  a new one, it fits beside all entries but the one it replaces. Orphaned temporaries
  are in the model, and no part of the statement. The invariant (`Directory`) says that the lock admits one store (`Alone`, `Critical`),
  that a directory has one entry for a name (`Partition`), that what a store has
  listed is the directory without the entry it will replace, and has not changed
  since (`Listed`), and that `total` is the bytes of the entries it has not yet
  evicted (`Fitting`). So when the write comes, the bytes that stay and those of the
  new entry are what the loop compared with the target (`Writing`), and the loop does
  not run out of entries before they fit, because a store is attempted only for an
  entry that fits alone. Bytes are counted as the cardinality of the bytes that the
  names occupy, so a removal or a replacement is a union of disjoint sets and no sum
  over a list is needed.

From the assumptions named in `KInduction` (some state; an input that meets the
assumptions with the reset inactive, and one with it active exactly when there are
cycles of reset; finitely many guards in a property, none of which looks back
beyond its first cycle, which is within the depth: `normalize` refuses the rest):

* `ProvenIsSound`, `CheckedThroughIsKept` and `CounterexamplesAreReal`
  (`KInductionProofs`). The context of the unrolling is exactly the runs of its
  length (`BaseExact`) and the context of the step exactly the windows past the
  reset in which the property holds in every cycle but the last (`StepExact`), so an
  answer of the solver is a statement about all runs. A verdict on a cycle depends
  only on the window of frames up to it (`SameWindow`), every stretch of a run past
  the reset is a window (`RunWindow`), and so a step that was proven carries the
  property from the cycles before any later cycle to it (`InductionCarries`): the
  first cycle it is used for is past the reset by the history and past the start,
  because k is tried only while `Prefix + k` is within the depth that was checked.
  The invariant keeps for each verdict what it claims (`AllKept`). That the
  hypotheses of the step can be met (`NeverVacuous`), which the code does not ask
  the solver, follows from the base case: a window of a checked run meets them
  (`StepsMet`).

From the assumptions named in `Review` (an override of a fatal rule keeps it fatal, which
the configuration enforces; finitely many waivers, with positions and dates). The
invariant says that every count is of a finite set (`Ground`), what a review that
has been done says about the present state (`Reviewed`), and what the baseline owes
to the first one (`Ratchet`):

* `FatalAlwaysFails` (`ReviewProofs`): a finding that is fatal after the overrides, as
  those of a fatal or promoted rule are, is not waived, so its entry is active and
  fatal in the report, and both exit statuses look for one first. A review that has been done is of the present state, because every
  step that changes the state forgets it.
* `DebtNeverGrows`: `RatchetHolds` for every history. A gate that passes leaves no
  active error outside the baseline; a baseline is refreshed only after that, so
  its active errors are always among those of the first one.
* `NewGateIsBounded`: `NewGateBounds`. Of each fingerprint, what is not new was
  matched with an occurrence of the baseline or paired with one that is gone
  (`NotNewIsBounded`), whichever are left to be new.
* `DaysNeverHelp`: `TimeNeverHelps`. A day only adds to the expired waivers, so an
  entry that is active stays in the report and stays active, the ones about
  expired waivers included.

From the assumptions named in `Inventory` (a view key folds to a key that folds to
itself; files hold the ports of the project; ranks are natural numbers), for all
projects, participation rules, alias tables, honest parsers and histories of edits
and freezes. The invariant (`IInv`) says that the project is one of the
configured ones with one of its alias tables (`Configured`), that what is observed
is an honest parse of the files (`Parsed`), that a report is of the present input
(`Told`), and that a contract names views and components that exist
(`NamesOfViews`):

* `FrozenNamesStay` (`InventoryProofs`): `FrozenNamesHold`, which is about the names of
  components and not of ports. The rule that the contract adds
  for a native name has rank 0 in its own view (`RankOfRules`), so no rule of
  the tables hides it: either the closest rules agree, and then with it, or the
  run reports a collision.
* `OnlyTheAbsent`: `AbsenceIsReal`. An honest parser taints what it loses, and a
  port's absence is asked of the components whose scope is not tainted
  (`PortNotShownIsNotThere`). `RequiredIsNamed` adds that a contract requires
  components only in views of the project or of its rules.
* `CleanIsAgreement`: `CleanMeansAgreement`, of the views with each other
  (`ViewsAgree`) and with the contract (`FrozenIsKept`), because a completely
  parsed view shows exactly what its file holds (`FullyParsedShowsAll`).
* `FreshContractIsClean`: `FreezeIsClean`. `Written` keeps that a contract just built
  came from what the parsers report now, by a run that had some other contract
  before. The argument is that every rule the new contract adds says what the old
  resolver had answered (`ContractRuleSettles`), so names, components, ports and
  their views are the same in both runs (`SameDesign`, `SamePortInventory`), the
  views required of a component are those it was required in
  (`SameMissingViews`), and those required of a port are at most the old ones
  (`FewerMissingPorts`).

`OnlyTheAbsent` and `FreshContractIsClean` assume in addition that view names are in
lower case (`PlainKeys`). Without it TLC finds both properties violated: a contract
that names a package map `Csv.K` requires the view `csv.k`, which does not exist
(the fallback at `engine.py:749`, section 3). `NoContractIsNone` says that "no
contract" is not a contract.

Of the adapters, for any set of SDC scripts whose commands have the words their type needs, any
patterns and designs (`SdcAssumption`: also, a script is text, so no line of it
is lost or doubled without notice; the other four adapters may run beside it):

* `SdcFollows` (`ReadersProofs`): the inductive invariant. A script's meaning is a
  recursive function over its commands (`SdcRun`), whose existence is itself proved,
  by a least length that has no run (`RunExists`). While nothing is tainted, the
  reader's variables are those of the run after as many commands: a text or list has
  the same names, a collection the names it was queried with, and it remembers of
  each whether it is a pattern (`Same`, `Follows`); every statement of the run has its
  fact, and every known fact is a statement of the run. A word that raises no issue
  is followed (`WordFollowed`); a command that raises none keeps all of it
  (`SetFollowed`, `ClockFollowed`, `DelayFollowed`, `PathFollowed`); and no command
  takes a taint back (`Changes`), so after the first issue nothing more is to be
  shown.
* `SdcInventsNothing`: `NothingInvented` of SDC. A constraint is known only when its
  references are sure, hence no patterns, and then the objects the shell finds are
  the names themselves (`ExactObjects`). The scripts must not query a collection held in
  a variable (`Requeries`, the second finding), nor give a pattern where the adapter
  does not ask (`TakesPatterns`, section 3): TLC finds the property violated in either
  case.
* `SdcDeclaresLoss`: `LossIsDeclared` of SDC, which needs the first of the two
  hypotheses only.

The proof changed the model: the first version lost a prefix that is written before
an empty value, named a clock after the first word of a text of several words,
and no script of it gave a pattern where the adapter does not ask, so the
exception for patterns was missing.

The proof of `FreshContractIsClean` changed the property. It used to say that the
second report is a subset of the first, which is false: a rule may exempt a
view from a port that the old contract still pins there, in which case the new contract,
built while the port is absent from that view, lets go of it, and the next
check names fewer views in the same message. `FreezeIsClean` therefore compares a
message with one of the same code and object and at least the same views, and
the run has a project with such a rule.

Only model-checked: `Certificates`, the checks, the readers of GDS, UPF, CDL and DEF, and all liveness (`CallEnds`, `GuardEnds` and the others),
which the prover does not do. `TransitionIR` and the modules on top of it,
`PinFunctions`, `Connectivity` and with them `Checks` recurse over expressions with
RECURSIVE operators and use the bitwise operators of the community modules, both
out of the prover's reach: what they compute stays with TLC.

## 5. Plan

1. Contract snapshots: migration, review and upgrade (`contracts.py`,
   `contract_review.py`).
2. Receipts: `replay` of `sequential.py` after edits; procedural and hierarchical
   RTL lowering (`always_comb`, `if`/`case`, instances) against direct execution.
3. The cache inside the pool (`CachedLoad`: `ParallelParse` with
   `ObservationCache`).
4. The readers of IP-XACT, Liberty, LEF, SystemRDL, Verilog and C headers, as far
   as they keep state between nodes; parser plugins in the dispatch.
5. Proofs: `NothingInvented` and `LossIsDeclared` of the UPF adapter, whose scripts
   have the same shape as those of SDC; then the adapters whose source may be damaged.

## 6. Not modelled, and why

The walk of RTL lowering over the syntax trees of an optional native library; the
text of the proof producer; tokenising and
field extraction in the parsers, the adapters that map a syntax tree node by node
(IP-XACT, Liberty, LEF, SystemRDL, Verilog, C headers, pin tables), configuration
and reporters keep no state and are tables of cases that tests reach. Process-number reuse, file-system races of
symbolic links and permissions are the operating system's. Statistics counters,
messages and layout are left out everywhere.
