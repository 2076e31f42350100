# A TLA+ verification project for PLUMED (agoscinski/plumed2 sources)

This directory holds TLA+ models of the control of the PLUMED library, the TLC
configurations that check them, and the TLAPS proofs of their main invariants.

## The system and its parts

PLUMED is a library that an MD engine drives through one entry point,
`PlumedMain::cmd(key, value)`. The input file is a list of *actions* kept in
`actionSet` in input order. Each action depends on earlier actions: through
`requestArguments` for the values it reads, and through `requestAtoms` for the
input actions that hold positions, masses and charges.

Every MD step, the host calls `setStep`, passes its data pointers, and then calls
`calc` (or `prepareDependencies`/`prepareCalc` followed by `performCalc`,
`performCalcNoUpdate` and `update`). Those calls run, in order:

* **prepareDependencies** (`PbcAction.cpp:2064-2097`): deactivates every
  action. It then activates each *pilot* (a PRINT, a bias, an UPDATE_IF...) whose
  stride divides the step, and through `activate()` everything that pilot depends
  on. If nothing is on step, it writes 1 through the host's stop flag.
* **justCalculate** (`2142-2196`): the forward loop. Each active action clears
  the forces on its input, then calculates.
* **backwardPropagate** (`2203-2238`): the reverse loop. Each active action that
  has a force on its values passes it through `apply()` to the actions it depends
  on.
* **update** (`2240-2272`): pushes `true` onto the `updateFlags` stack. Then, for
  each action, it calls `beforeUpdate()`, where an UPDATE_IF pushes its condition
  and an UPDATE_IF ... END pops. It calls `update()` on active actions while the
  top of the stack is true.

The source tree also holds:

* the code that builds the derivative layout of chained actions (ActionWithArguments);
* multicolvars, functions of vectors and matrices, and adjacency matrices;
* contour finding, histograms (HistogramBase), and the task-list filters of
  several actions;
* input shortcuts, which only build input lines as strings.

`PROJECT.json` lists every part with its status.

## Modules

| module | models | code |
|---|---|---|
| `PlumedMain` | the step cycle above, driven by any sequence of host cmd calls | `src/src/core/PbcAction.cpp` 1197-2420 (the second copy of PlumedMain), `ActionToPutData.h` |
| `PlumedMainOld` | the step cycle of the first PlumedMain copy: its own stop test and `firststep` test, and the second copy's loops, which it repeats line for line | `PbcAction.cpp` 313-352, 875-1069 |
| `MCPlumedMain` | a small input for TLC, given to both copies: `Init` picks the copy, the other stays in its initial state | – |
| `PlumedMainProofs` | the TLAPS proofs about `PlumedMain` | – |
| `PlumedMainOldProofs` | the TLAPS proofs about `PlumedMainOld`, built on the lemmas of `PlumedMainProofs` | – |
| `MCPlumedMainProofs` | the first copy's theorems restated for `MCSpec`, where the run checks them | – |
| `FindContour` | `FindContour::setupCurrentTaskList`: the per-step choice of grid edges that cross the isovalue | `src/unnamed/part_000` 136-171 |
| `MCFindContour` | a 3 x 2 grid for TLC | – |
| `FindContourProofs` | the TLAPS proofs about `FindContour` | – |
| `StepSchedule` | what one step promises, in any order: the abstract specification `PlumedMain` implements | spec.md, "DependencyGraph / Scheduler" |
| `ArgumentChain` | the derivative layout of a chained action: `requestArguments`, `setupActionInChain`, `setForcesOnArguments` | `PbcAction.cpp` 2688-2943, 3128-3164 |
| `ArgResolve` | how an `ARG` list is read: every branch of `interpretArgumentList` but the regex one, and `ActionShortcut::interpretDataLabel` | `PbcAction.cpp` 2491-2672, `part_006` 102-154 |
| `MCArgumentChain` | both for TLC: `Init` picks `ArgumentChain`, with three producer actions, or `ArgResolve`, taken through `INSTANCE` over a small action set with one shortcut | – |
| `TaskDerivatives` | one task of a chain: a multicolvar's derivatives and active indices, then a function of its vectors | `MultiColvarBase.cpp` 284-417, `Angle.cpp` 106-115, `part_004` 181-232, `PbcAction.cpp` 3191-3204 |
| `FunctionOfVectorTasks` | a function of vectors outside a chain: its task count and each task's derivative indices | `part_004` 85-99, 232-270, 298-306 |
| `HistogramTasks` | HistogramBase: the normalisation shortcut, the constructor's checks and task list, `buildCurrentTaskList` and the weight each task's kernel deposits | `src/src/gridtools/HistogramBase.cpp` 33-139, 162-170, 221-229 |
| `MCTaskDerivatives` | the three for TLC: an ANGLE-like task and a three-argument function in a chain, a three-argument function outside one, or a histogram of two arguments; `Init` picks the part | – |
| `HostCmd` | how the MD code sets PLUMED up through `cmd()` in the second PlumedMain: the setup commands, `init`, `clear`, `readInputLine`, `createValue`, `read`, the data, energy, data-grabbing and full-list commands, and the inputs they keep | `PbcAction.cpp` 1319-2419, PbcAction's constructor 37-53 |
| `MCHostCmd` | both copies for TLC: `Init` picks the copy the host links against, `HostCmdOld` is taken through `INSTANCE` with its own variables | – |
| `HostCmdOld` | the same commands in the first PlumedMain, which keeps the MD data in `Atoms` and makes the PUT actions in `createAtomValues` | `PbcAction.cpp` 136-1195 |

### PlumedMain: state and actions

**Actions as constants.** The actions are the numbers `1..NActions` in input
order. The input gives the constants that describe them:

* `Deps`: the dependencies (`getDependencies()`).
* `Pilots` and `Stride`: the pilots and their strides.
* `Inputs`: the interface actions of `setupInterfaceActions`.
* `DomainDecomp`: the inputs whose `onStep()` is true.
* `Biases`: the actions whose own values carry a force.
* `UpdateIfBegin` and `UpdateIfEnd`: the two kinds of UPDATE_IF.

**Variables.** `initialized`, `step`, `active`, `updateFlags` and `stopFlag` are
the members of the same name. `isActive` is the set of active actions. `pc` and
`cursor` give the loop in progress and the action it visits next.

**Data is abstracted to its provenance:**

* `forces[a]` is the set of pairs `<<consumer, cycle>>`. It records who deposited a
  force on the input of `a`, and in which forward loop, since `a` last cleared it.
* `calculated[a]` is the forward loop in which `a` last calculated.
* `inputFirst` and `constCycles` follow the `firststep` flags and the loops that
  ran `setupConstantValues(true)`.
* `failed` records a fatal outcome: a write through a NULL stop flag, or use of an
  empty `std::stack`.

**Host calls.** `InitCmd`, `SetStep`, `SetStopFlag`, `PrepareDependencies`,
`Calc`, `PerformCalc(upd)` and `UpdateCmd` are the host's cmd calls. The host may
call any of them in any order between loops (`HostMayCall`).

**Loops.** The loops are one action per iteration:

* `JustCalculateStep` and `JustCalculateEnd`;
* `BackwardPropagateStep` and `BackwardPropagateEnd`;
* `UpdateStep` and `UpdateEnd`.

Nothing else runs during a loop, because PLUMED is single-threaded inside a
cmd call.

**Not modelled:**

* The data cmds (`setPositions`...), which only store pointers.
* `runFinalJobs`, checkpointing, the `stopNow` flag raised by actions, replica
  exchange and CLTool.

`Stopped` is the stutter after the process ended.

### StepSchedule and the refinement

`StepSchedule` says what a step must do, independently of the input order.
The actions scheduled form a set closed under dependencies. The forward pass
calculates each once, after all it depends on. The backward pass applies each
once, after every scheduled action that consumes it. Any order that respects
this is allowed.

At the end of `PlumedMain`, `Sched == INSTANCE StepSchedule WITH ...` maps the
detailed state onto the abstract one:

* `phase` is "forward" during the calc loop, "backward" during the apply loop,
  and "idle" otherwise;
* `scheduled` is `isActive` during a loop;
* `fwdDone` is the active actions below the cursor in the forward loop, and all
  of them in the backward loop;
* `bwdDone` is the active actions above the cursor in the backward loop.

`ImplementsSchedule == Sched!FairSpec` is checked as a PROPERTY of `FairSpec`.
The update loop maps to "idle" steps.

### PlumedMainOld: the first copy's step cycle

`PbcAction.cpp` holds two copies of `PlumedMain`. The first (lines 136-1195)
keeps the MD data in `Atoms`. Its `justCalculate`, `backwardPropagate` and
`update` loops are the second copy's, line for line, so `PlumedMainOld`
takes them from `PlumedMain` through `P == INSTANCE PlumedMainProofs` (which
extends `PlumedMain`) over the same variables, so that the lemmas proved there
are at hand for the first copy, and maps them to the first copy's lines. Three things differ and
are written out:

* `PrepareDependenciesEffect`: `(*stopFlag)=1` when no pilot is on step and
  `atoms.getNatoms()==0` (constant `Natoms`). The second copy asks whether an
  input is on step. Both dereference `stopFlag` with no NULL test.
* `StartForward`: `firststep` holds when an input that is `fixed` (constant
  `Fixed`) has not calculated yet. The second copy drops the test on `fixed`.
* `Calc`, `PerformCalc` and `PrepareDependencies`, which use the two above.

`MCPlumedMain` runs the first copy with `Charges` fixed and no atoms. Its
`OldImplementsSchedule` is `P!ImplementsSchedule`: the same mapping to
`StepSchedule`, read on the first copy.

**Fairness.** `FairSpec` adds `WF_vars(LoopStep)`, where `LoopStep` is any
iteration or end of the three loops. The loops are plain `for` loops run by the
thread that called `cmd()`. They wait on nothing, and the host cannot call
again before they return. The host owes nothing, so its calls carry no
fairness. The fairness is what the liveness part of `ImplementsSchedule`
needs: `StepSchedule` promises that a step that has started ends.

### ArgumentChain: state and actions

**What is modelled.** An action whose arguments are streamed through a chain
keeps the derivatives of all its arguments in one buffer. The code computes the
layout of that buffer three times, and the three must agree:

* `RequestArguments` (`requestArguments`, done_over_stream path) lists the
  distinct actions the arguments come from. Each gets a kind: 0 chained, 1
  stored, 2 average. Each argument gets the start of its block
  (`arg_deriv_starts`). `Layout` is the loop over arguments, written as a
  recursive function.
* `SetupActionInChain` sizes the buffer from the distinct actions
  (`SetupWidth`). It fails when two arguments come from a multi-component
  stored action.
* `SetForcesOnArguments` walks the distinct actions again, and takes forces
  from the force vector with a cursor (`ForceWidth`). Only names containing
  "_ones" are deduplicated.

**Abstractions.** An argument is a value `<<action, component>>`. `Init`
chooses any arguments, and any set of stored values that contains what
`requestArguments` always stores: rank-0 values, constants and averages. It
requires at least one chained argument, so that the path is done_over_stream.
`getFirstNonStream` is taken to be the argument's own action.

`ComponentsFitAssumption` says a component of a multi-component action has no
more values than its action has derivatives. The code does not check this. It
holds for atomistic actions, which have 3 derivatives per atom plus 9 for the
box.

### ArgResolve: state and actions

**What is modelled.** `interpretArgumentList` reads the words of an `ARG`
keyword one at a time, and appends the values each names to `arg`. A word is
`*.*`, `a.*`, `*.name`, `a.name`, `*` or a bare label, and each form has its
own branch (`AllValues`, `LabelStar`, `StarName`, `LabelName`, `AllLabels`,
`Label`). `InterpretWord` first does the setup check: a word that labels an
`ActionSetup` is skipped for `PRINT` when it has no components, and the
`dynamic_cast` to `ActionWithValue` is used unchecked (undefined behaviour,
`res = "ub"`, when the setup has no value). A word naming a shortcut goes
through `InterpretDataLabel`: `ShortcutStarComp` for `d.*`, `ShortcutNamed`
for `d.name`.

**State.** `words` is the list, `k` the next word, `arg` the values so far,
`res` the outcome (`ok`, `error` for `action->error`, `ub` for a NULL
dereference, `hang` for a loop that never exits), `last` and `added` the last
word and what it added. `InterpretArgumentList` is one iteration of the loop;
`Finished` is the state after the loop or after it ended early.

**Abstractions.** A label is a sequence of one-character strings, because the
code matches substrings (`find != npos`) and builds names such as
`a + "_" + out_comps[k] + numstr`. An action is a record of its label, its
component names and its kind (value, interface, ENERGY, setup with and without
a value); a shortcut is its label, its keyword output components and its
wildcard flag. `copyOutput(name)` of a name the action does not have is taken
to raise an error, and `Value::use` to append; both are outside `src/` and
marked `spec_modelled`. Numbered actions are looked for up to 9.

### TaskDerivatives: state and actions

**What is modelled.** One task of a chain, through the task's MultiValue:
`deriv[s][k]` is the derivative of stream `s` in index `k`, and `active[s]` is
its active list.

* `MultiColvarPerformTask` is `MultiColvarBase::performTask`. `Compute`
  (Angle's `compute`) adds a derivative for each block's atom. Through
  `SetBoxDerivativesNoPbc`, it then adds the virial over the distinct atoms.
  `McvActive` then lists three indices per distinct atom and the nine virial
  indices, for every component.
* `FunctionOfVectorPerformTask` is the chained branch of
  `FunctionOfVector::performTask`, one `VisitArg` per argument:
  * `ArgumentPositionInStream`: a stored argument's stash gets derivative 1 in
    the task's element, and that index is made active if nothing is;
  * the argument's derivatives, times the function's, go to
    `arg_deriv_starts[j] + index`;
  * indices are marked only for the first argument with a given start.
* `Starts` is `ArgumentChain`'s `Layout`, taken through `INSTANCE ArgumentChain
  WITH` on the same arguments. The two modules agree on the layout by
  construction.

**Abstractions.** The reals are small positive integers:

* `G`, the derivative `compute()` gives each block;
* `Pos`, the atom positions;
* `FD`, the function's partial derivatives.

Positive values keep a touched slot from summing to zero. Distinct `FD`s
(1, 10, 100) tell apart which argument's contribution was counted how often.
The tensor of the virial is reduced to one number per component, added to all
nine box slots.

`MultiValue` is not among the sources. `updateIndex` is taken to append to the
active list without checking it, as the callers' own checks "to avoid double
counting" imply.

### FunctionOfVectorTasks: a function of vectors outside a chain

An argument is its rank, its number of values and whether it is a time series.
`FD[j]` stands for the function's derivative in argument `j`.

* `Construct` is the constructor's task count. `GetNumberOfFinalTasks` folds
  over the arguments: the first vector gives the count, a later vector of
  another length is an error, and a shorter time series sets the count to
  `isTimeSeries()`, that is 1 (line 258).
* `PerformTask(c)` is one task of `runAllTasks` in `calculate()`, in any order.
  Each task has a clear MultiValue. `NonChainTask` is the unchained branch of
  `performTask`. For each argument in order, `FD[j]` goes to `base + c` (vector)
  or `base` (scalar), the index is marked, and `base` moves past the argument's
  values.

### HistogramTasks: the tasks of a histogram

An argument is its rank (0 or 1) and its number of values. `arg_ends`, the
grouping of the arguments, is empty when the constructor starts: nothing under
src/ fills it. ActionWithArguments's constructor (`PbcAction.cpp` 2946-2982)
and `requestArguments` leave it alone. So `nvals` is 1, and the check that the
groups have equal numbers of values (lines 75-78) never runs. A kernel is
reduced to its height, the weight it puts on the grid.

`HistogramAssumption` says what the constants may be: argument kinds of rank 0
or 1, a scalar having one value, at least one argument.

* `Shortcut` is `resolveNormalizationShortcut`. With `HEIGHTS` and without
  `UNORMALIZED` it writes three actions: the sum of the heights, a histogram
  `lab_unorm` with `UNORMALIZED` and the heights, and `lab = lab_unorm /
  lab_hsum`. Otherwise it writes one histogram with the keys as given.
* `Construct` is the constructor. `nvals` is 1, and `arg_ends` becomes one
  argument per group (lines 79-80). The heights must have `nvals` values, that
  is one, and are appended as a group of their own (lines 85-96). In a chain,
  every later argument must be a group of its own with the first's shape; the
  shape of a rank-0 argument is read although it is empty (line 110), which
  is undefined, so the outcome is a crash, an error or a pass. Outside a chain,
  vectors give `nvals` tasks, one, and every argument must be a vector (the
  assertion on line 133); scalars, one per group, give one kernel at a time
  (not modelled further).
* `Calc` is `calculate()` and `buildCurrentTaskList`: every task is flagged and
  `norm` is set to their number. `Gather(t)` is `gatherGridAccumulators` for
  task `t`: its height is 1 or element `t` of the heights, divided by `norm`
  unless `unorm`, and it is added when it is not zero. The weight is kept as
  an exact fraction. `NextCycle` is the next `calculate()`.

### HostCmd and HostCmdOld: state and actions

`PbcAction.cpp` holds two copies of `PlumedMain`. The first (lines 136-1195)
keeps the MD data in an `Atoms` object and makes the PUT actions that hold them
in `createAtomValues`. The second (lines 1319-2419) makes an action for each
piece of MD data as soon as the host passes it. Both are modelled, each as the
whole sequence of `cmd()` calls a host may make, in any order. A command's
outcome is `res`: "ok" or the exception it raises. A host may catch the
exception and go on, so every command may follow every other.

**HostCmd (second copy).** An action is its label:

* `setNatoms(n)` with `n > 0` makes the DOMAIN_DECOMPOSITION action labelled
  with the engine's name (`engine`, set by `setMDEngine`);
* `setTimestep` makes "timestep" unless it exists; `setKbT` makes "KbT" always,
  so a second call hits the duplicate label;
* `createValue` and `readInputLine` add "Box" (a PBC action) or "cv" (a colvar);
* `init` sets `initialized` first and then reads the plumed.dat lines `DatLines`
  (`ReadInputFile`, a fold that stops at the first exception);
* `clear` reads the atom count from the engine's domain decomposition, deletes
  every action, empties `inputs`, and makes the domain decomposition again;
* `setNoVirial` (`turnOffVirial`) marks the PBC action NOFORCE if there is one,
  raises if there is none but the domain decomposition exists, and otherwise
  does nothing;
* the data commands (`setBox`, `setPositions`, `setForces`...) succeed when some
  input offers the name, and the full-list commands when exactly one input is a
  domain decomposition;
* `readInputLine` may also read "ene", an ENERGY action. Its constructor
  records its label in `name_of_energy` (`energyName`, through
  `setEnergyValue`, line 2377). `setEnergy` passes the pointer to that input
  when the name is set. `isEnergyNeeded` looks the action up by that name
  (line 1791) and marks a NULL result "null";
* `getDataRank` reads the line "grab_cv: GET ARG=cv", which fails when "cv"
  does not exist and raises on the label the second time. `getDataShape` and
  `setMemoryForData` (`GrabData`) assert that the GET action exists;
* `read` reads the plumed.dat lines again, and `setExtraCV` passes the pointer
  on only when an input has the label.

Every `readInputWords` ends with `setupInterfaceActions`, so it recomputes
`inputs` inside the same action. `box.iface` is the interface PbcAction's
constructor captures: the first interface action that is not a PUT (lines
46-51).

**HostCmdOld (first copy).** The setup commands only record `natoms`,
`novirial` and `kbt`. `CreateAtomValues` makes "pos", "Box", "Energy", "Masses"
and "Charges" in that order, with "Box" NOFORCE after `setNoVirial`. It runs in
`init` before `initialized` is set, so an exception there leaves PlumedMain
uninitialized, and in `clear` after `initialized` is lowered, because
`createVector` refuses to run once PlumedMain is initialized. An action is a
label and the number of clears before it was made (`gen`), so an input left
over from a deleted action is told from the one made again under its label.
`inputs` is the `std::map` from label to action; `createValue` of a label with
no PUT action enters `Null`. `CmdSetValue` of a name that is missing or `Null`
dereferences an unchecked `find()`; the model records that as `res = "ub"`.
The first copy also has `getDataRank`, `getDataShape`, `setMemoryForData` and
`read`, as in the second copy. Its `isEnergyNeeded` looks up "Energy" with no
NULL test, and its `setExtraCV` writes through any entry of `inputs`, `Null`
entries included. Both record `res = "ub"` when the pointer is NULL.

**Assumptions.** The `Action` constructor is not among the sources. The model
takes it to refuse a label already in use, as the spec says. `Offers`, the names
a PUT action takes pointers for, is written from `ActionToPutData` and marked
`spec_modelled`. In the first copy the host adds only colvars: a PUT line
written by hand in plumed.dat is left out.

### Code that is not under src/

`ActionPilot::onStep`, `Action::activate` and `UpdateIf::beforeUpdate` are not
among the sources. `OnStep`, `Needs` and `FlagsAfter` are written from their
documented behaviour and marked `spec_modelled` in the map.

### FindContour: state and actions

**What is modelled.** Before each step, FIND_CONTOUR restricts its tasks to the
grid edges where the field crosses the isovalue, as described in spec.md
("contour edge detection").

**Variables and actions.**

* `grid` is the field `f - contour` at each flat grid point.
* `i`, `j`, `ind`, `edge` and `tasks` are the locals of the two loops and the
  output's task list.
* `StartPoint` and `EndPoints` are the head and the end of the loop over points.
* `SearchDirection` is one whole iteration of the loop over dimensions:
  * it skips the last point of a non-periodic dimension;
  * otherwise it moves `ind[j]` up, or wraps it to 0;
  * it looks up the neighbour and adds task `Rank*i + j` on a strict sign change;
  * it moves `ind[j]` back (`Restore`).
* `EndDirections` ends the loop over dimensions.

**Abstractions.** Only the sign of `f - contour` matters to the code, so its
values are the integers `{-1, 0, 1}`. `GridBase` is not among the sources, so the
flat numbering `GetIndices`/`GetIndex` (first index fastest) is written from the
spec. The task list is taken to be empty on entry.

**Reference.** `ContourEdges` is an independent definition written from the
spec's rule. It takes every point's index vector and its neighbour along each
dimension (if there is one), and keeps the edge when `s_i * s_j < 0`.

## Runs

All runs use `MCPlumedMain.cfg`'s input of 8 actions:

1. `pos`: positions, an input.
2. `Charges`: an input that no action uses.
3. A DISTANCE on 1.
4. A RESTRAINT on 3, stride 2.
5. An UPDATE_IF on 3, stride 3.
6. A PRINT on 3, stride 3.
7. The END of the UPDATE_IF in 5, stride 3.
8. A stray UPDATE_IF ... END on 3, stride 5.

The bounds are steps `0..3` and at most 2 forward loops. With these bounds there
are:

* steps where all pilots are on step (0);
* steps where only the bias is (2);
* steps where nothing is (1, 3);
* a bias whose force flows down a chain of two dependencies;
* a second forward loop that must discard the forces of the first.

A third loop adds no new case. Every deposit is cleared or recorded per cycle, so
two cycles already separate "this step's force" from "a stale one".

| run | cfg | expect | shows |
|---|---|---|---|
| `step_cycle` | `MCPlumedMain.cfg` | pass (17630 states, both copies) | `TypeOK`; `ForcesExact`: when an active action applies, its input holds exactly the forces its active consumers with a force deposited in this cycle; `CalculatedAfterDeps`: an active action calculates after every action it depends on, in the same loop. The run is under `FairSpec`, so it also checks `ImplementsSchedule` (see "StepSchedule and the refinement"). For the first copy, `OldForcesExact`, `OldCalculatedAfterDeps` and `OldImplementsSchedule` are the same properties. |
| `stop_flag_null` | `MCPlumedMainStop.cfg` | violation | `StopFlagNeverNull` fails. A host that never calls `setStopFlag` reaches step 1, where no pilot is on step, and `prepareDependencies` writes through NULL (line 2089). The first copy has the same write at line 914. |
| `update_flags_check` | `MCPlumedMainFlags.cfg` | violation | `UnbalancedUpdateIfReported` fails. The stray END leaves the stack unbalanced, and update() empties the stack before it checks it, so the error is never raised (lines 2256-2257). |

`contour_tasks` (`MCFindContour.cfg`, pass, 18954 states) checks every one of
the 729 fields on a 3 x 2 grid, periodic along the first dimension and not along
the second. This grid exercises the wrap, the skipped last point, and values
exactly on the isovalue. It checks three properties:

* `TypeOK`;
* `IndexRestored`: at the head of each dimension, `ind` is the current point's
  index vector again;
* `TasksMatchReference`: at the end, the task list equals `ContourEdges`.

**ArgumentChain runs.** `MCArgumentChain` has three producers:

* `x`, with two components of 2 values each and 4 derivatives;
* `y`, with one component of 3 values and 2 derivatives;
* `av`, an average with one rank-0 value.

Each run takes every list of 4 arguments over these values, with every legal
choice of stored values. Four arguments is the fewest with which a repeated
action can follow a different one twice (x, x, y, y).

The same MC module also instantiates `ArgResolve` (chosen by `part` in
`Init`; the other part stays in an initial state). Its actions are `p` (an
interface), `e` (ENERGY), `u` (a setup with no value), `r` (a setup value with
no components), `c` (components x and y), `cd`, `d` (component x) and the
shortcut's own actions `d_n`, `d_b1`, `d_b2`. The shortcut `d` declares the
output components `a`, `n` and `b`, the order `MultiColvarBase` uses (`altmin`
before `min`). `ARG` is every list of one or two of 16 words that exercise
each branch: a component that exists and one that does not, `*`, `*.*`,
`*.x`, `*.n`, `d`, `d.*`, `d.n`, the setup labels and the interface.

| run | cfg | expect | shows |
|---|---|---|---|
| `arg_layout` | `MCArgumentChain.cfg` | pass (7088 states) | `BlocksWithinBuffer`: every argument's derivatives, from its start, fit in the buffer `setupActionInChain` sizes. `ArgPlainWordsExact`: a word with no `*` adds exactly the values it names, each once, and fails exactly when it names none, through shortcuts included. `ArgStarNameExact`: `*.name` adds every value called `label.name`, each once, though both the shortcut and the action loop may find it. |
| `arg_resolve` | `MCArgumentChainResolve.cfg` | violation | `ArgResolutionEnds` fails with `ARG=d.b`. `b` is an output component of shortcut `d`, so `interpretDataLabel` looks up `d_b` and calls `copyOutput` on NULL (`part_006` line 139): the shortcut's actions are `d_b1`, `d_b2`. `d.b1` looks up `d_b11` (NULL again, line 146), and `d.nx` never leaves the loop at line 142, which has no `break`. Only the words about the shortcut are enumerated in this run. |
| `arg_starts` | `MCArgumentChainStarts.cfg` | violation | `StartsMatchForceLayout` fails. With x.1, x.1, y.1, y.1 the last argument gets `arg_deriv_starts[argno]` with `argno` = 1, the index of y in `distinct_arguments`, used as an argument index. Its start is 0, inside x's block, while `setForcesOnArguments` hands y its forces at 4 (line 2856). |
| `arg_forces` | `MCArgumentChainForces.cfg` | violation | `ForcesConsumeExactly` fails. With x.1, x.1, y.1, y.1 and y.1 stored, the buffer is 4 (x chained) + 3 (one block for y) = 7. `setForcesOnArguments` takes y's 3 forces once per stored argument, and ends at 4 + 6 = 10, past the buffer (line 3152). |

**TaskDerivatives runs.** `MCTaskDerivatives` has:

* a multicolvar with four blocks over three atoms, so every Angle task, with its
  repeated middle atom, is among them;
* two components, one with derivatives on all four blocks and one on blocks 1
  and 4, both with a virial;
* a stored vector of two elements;
* a function of three arguments;
* for the part outside a chain, arguments taken from a scalar, a vector of three
  values and a time series of two. Every list of three is tried, and so are the
  error of two vector lengths and the shorter time series.

* for the histogram, two arguments each a scalar, a vector of one value or a
  vector of two; heights 0 or 1 on each task. This gives vectors of unequal
  lengths, heights of the wrong length, the chain's rank-0 shape read and
  every outcome of the constructor.

Lists of three arguments never meet the `argno` slip above: it needs a repeat
after two different actions.

| run | cfg | expect | shows |
|---|---|---|---|
| `task_derivatives` | `MCTaskDerivatives.cfg` | pass (50776 states) | Over every block assignment, task index and argument list with the stored vector at most once, three properties hold. `SparsePatternSound`: every stream's active list has no repeat and lists every index with a derivative. `VirialFromDistinctAtoms`: the virial sums position times derivative once per atom. `ChainRuleExact`: the output's derivative in each index is the chain-rule sum, each argument counted once. Outside a chain, `NonChainDerivativesExact`: each task's derivative in index k is the function's derivative in the argument value at k of the arguments laid end to end (element c of a vector, or a scalar), marked once. The histogram part fires the shortcut, the constructor's outcomes, the task list and the gather steps; no property of it is checked (see `TasksCoverValues` under the observations). |
| `stored_twice` | `MCTaskDerivativesStored.cfg` | violation | `ChainRuleExact` fails for m.1, st.1, st.1. Each call of `getArgumentPositionInStream` adds 1 to the stash's derivative, so the second st.1 is weighted 2: 10 + 2 x 100 = 210 where 110 is due (line 3198). |

**HostCmd runs.** `MCHostCmd` has two engine names, `mdcode` (the default)
and `gromacs`, atom counts 0 and 2, and a plumed.dat of "cv" then "Box". Every
command is enabled in every state its guard allows. So TLC explores every
order of setup commands before and after `init`, `clear` with and without a
domain decomposition, and a plumed.dat read that fails on a label the host
already used. For the first copy, the plumed.dat is "cv" and there are at most 2 clears.
Two clears are needed to reach a clear that deletes the actions made by
an earlier clear.

| run | cfg | expect | shows |
|---|---|---|---|
| `host_setup` | `MCHostCmd.cfg` | pass (614250 states, under a minute) | Second copy: `TypeOK`; `InputsLive`, after every command `inputs` is exactly the interface actions that exist, in order; `ClearKeepsEngineDD`, no command loses the current engine's domain decomposition. First copy: `OldInputsPointToLiveActions`, every non-NULL input is an action that exists, across clears; `OldNoVirialHonoured`; `OldClearKeepsMDInputs`, `clear` keeps the atom holders and KbT. |
| `host_clear` | `MCHostCmdClear.cfg` | violation | `ClearKeepsMDInputs` fails. `clear` makes only the domain decomposition again (line 1592). "timestep" and "KbT" are lost, and `setTimestep` and `setKbT` refuse to run after `init`. The first copy's `clear` kept them. |

**Observations kept out of the runs.** Some more properties in the modules
fail when TLC checks them, and some behaviours of the code show in the traces
TLC gives. They are recorded here, and not as runs of their own:

* `ConstantsSetupOnce` (PlumedMain). `Charges` is never active, so its
  `firststep` is never cleared. `setupConstantValues(true)` then runs in every
  loop (line 2153). This costs time, not correctness.
* `NoVirialHonoured` (HostCmd). `setNoVirial` before any Box and before
  `setNatoms` returns normally and does nothing (line 2408). A Box made later by
  plumed.dat takes forces. The first copy made Box NOFORCE whenever `setNoVirial`
  had been called (line 714); `OldNoVirialHonoured` holds.
* `ARG=*` (ArgResolve) leaves out the plain action `cd`, whose label contains
  the shortcut label `d` (line 2653), and expands every shortcut whatever its
  `NO_WILDCARD` flag (line 2660; the flag is documented at `part_006` line 33).
  The trace of `*` gives e, c.x, c.y, d.x, d_n, d_b1, d_b2.
* An `ARG` word that labels an `ActionSetup` which is not an
  `ActionWithValue` dereferences the NULL `dynamic_cast` result (line 2496).
* `EngineNamesDD` (HostCmd). `setMDEngine` after `setNatoms` renames the engine
  but not its domain decomposition (line 1742). `clear`, `init` and
  `turnOffVirial` then no longer find it by label.
* `FinalTasksFollowShortestSeries` (FunctionOfVectorTasks). Take a scalar, a
  vector of three and a time series of two. `getNumberOfFinalTasks` gives 1
  task, not 2, because line 258 assigns `isTimeSeries()` where the series'
  length was meant. Outside a chain, only the first element is computed.
* `EnergyNameLive` (HostCmd). `clear` deletes the ENERGY action and keeps
  `name_of_energy`. TLC's trace is `init`, `readInputLine` of "ene", then `clear`.
  After it, `isEnergyNeeded` calls `isActive` on the NULL pointer that
  `selectWithLabel` returns (line 1791). `setEnergy` raises instead, because no
  input offers the name.
* The first copy's `isEnergyNeeded` after `init` with no atoms calls
  `isActive` through NULL, because "Energy" exists only when `setNatoms` gave a
  positive count (line 615). Its `setExtraCV` of a label that `createValue`
  entered as NULL writes through that NULL (line 632). TLC reaches both as
  `res = "ub"` in `host_setup`.

* `TasksCoverValues` (HistogramTasks): the tasks are exactly the values of
  every group. Since `arg_ends` is always empty, `nvals` stays 1 (line 72).
  TLC, checking it on `MCTaskDerivatives.cfg` in place of the run's
  properties, finds it violated outside a chain by two vector arguments of one
  and two values: `Construct` gives `ntasks = 1`, `ends = <<0, 1, 2>>`, so the
  second vector's second element is never histogrammed, and the vectors'
  different lengths are not compared. Every vector histogram outside a chain
  histograms only the first element of its arguments. No spec sentence,
  comment or test says how many tasks a vector histogram must have, so this
  is an observation rather than a run.

Each property of the passing runs has a mutant in `PROJECT.json` that TLC
catches:

* a reverse loop that runs one step past the first action breaks `TypeOK`;
* a forward loop that does not clear input forces breaks `ForcesExact`;
* activation that does not follow dependencies breaks `CalculatedAfterDeps`;
* restoring a wrapped index by decrementing breaks `TypeOK` of FindContour;
* restoring a wrapped index by leaving it at 0 breaks `IndexRestored`;
* accepting `val1*val2 <= 0` as a crossing breaks `TasksMatchReference`;
* activation that does not follow dependencies breaks `ImplementsSchedule`;
* a new block starting after its own width breaks `BlocksWithinBuffer`;
* marking a repeated atom's indices again breaks `SparsePatternSound`;
* counting every block in the virial breaks `VirialFromDistinctAtoms`;
* skipping the derivatives of an argument that shares a start breaks
  `ChainRuleExact`;
* advancing `base` by one per argument, whatever its length, breaks
  `NonChainDerivativesExact`;
* `*.name` without the check that a shortcut already gave the value breaks
  `ArgStarNameExact`;
* a bare label that takes every component of its action breaks
  `ArgPlainWordsExact`;
* in the first copy, a forward loop that does not clear input forces breaks
  `OldForcesExact`, activation of the pilots alone breaks
  `OldCalculatedAfterDeps`, and a forward loop that starts at the second
  action breaks `OldImplementsSchedule`;
* a PbcAction that captures the first interface action, a PUT included, breaks
  `TypeOK` of HostCmd;
* a `clear` that does not empty `inputs` breaks `InputsLive`;
* a `clear` that reads the atom count after deleting the actions breaks
  `ClearKeepsEngineDD`;
* an earlier `clear` that does not empty the input map breaks
  `OldInputsPointToLiveActions`;
* a cell holder made without the NOFORCE test breaks `OldNoVirialHonoured`;
* an earlier `clear` that keeps `initialized` raised, so that `createVector`
  refuses, breaks `OldClearKeepsMDInputs`.

**Fairness.** Only `step_cycle` assumes fairness, and only for the loops
inside one `cmd()` call (see above). Under `MCFairSpec` the loops of the copy
that runs are weakly fair; the other copy never moves. The host may stop calling at any point.

## Proofs (checked by `tlapm`)

**`PlumedMainProofs`.** Its four theorems hold for every value of the constants that satisfies the module's
ASSUMEs:

* `NActionsAssumption`.
* `DepsAssumption`: a dependency is an earlier action, as `requestArguments`
  enforces for the arguments from `argstart` on (lines 2737-2742).
  Arguments before `argstart` get a dependency without that check (line 2734).
* `PilotsAssumption`.
* `InputsAssumption`.
* `ActionKindsAssumption`.
* `BoundsAssumption`.

**`TypeCorrect` (`Spec => []TypeOK`).** `TypeOK` alone is not inductive. A loop
step stores `cycle` into `calculated` and `forces`, so the proof carries `TInv`,
which adds that `cycle` is in `1..MaxCycles` while a loop runs. The lemma
`FlagsAfterType` shows the UPDATE_IF stack stays a sequence of Booleans. Each
action then has its own step in `TInvNext`.

**`ForcesExactCorrect` (`Spec => []ForcesExact`).** The inductive invariant is
`TInv /\ FInv`. `FInv` says two things:

* During the forward loop, each active action already visited has empty input
  forces. Those forces were cleared in this cycle.
* During the backward loop, each active action `a` at or before the cursor holds
  exactly the deposits of `Passed(a)`. These are its active consumers with a force
  that lie after the cursor, since the reverse loop has already visited them.

A backward step at the cursor changes only the forces of the cursor's
dependencies, which are earlier actions (lemma `BackwardFrame`). Those
dependencies gain exactly the new consumer. At the cursor itself, every consumer
lies after it, so `Passed` is all of them, and that is `ForcesExact`.

**`CalculatedAfterDepsCorrect` (`Spec => []CalculatedAfterDeps`).** `Needs`
is written without recursion, as the least set that contains the pilots on
step and is closed under `Deps` (`DepClosed`): the intersection of all closed
supersets. The lemma `ActivatedClosed` shows that this set is itself closed.
The inductive invariant is `TInv /\ OInv`, where `OInv` says that `isActive`
is closed under dependencies and that, during the forward loop, every active
action below the cursor has `calculated = cycle`. A forward step at the cursor
`c` may calculate `c` only after the actions below it, and every dependency of
`c` is below it (`DepsAssumption`) and active (closure), so it was calculated
in this cycle.

**`ScheduleRefinement` (`Spec => Sched!Spec`).** The safety part of the
refinement of `StepSchedule`. The initial state maps to `Sched!Init`
(`SchedInit`). Under `TInv /\ OInv`, every step maps to a step of `Sched` or a
stutter: preparing dependencies maps to `Begin` (`BeginStep`, from the closure
of `isActive`); a forward iteration at the cursor to `Forward` of that action,
whose dependencies are below the cursor and so already in `fwdDone`
(`ForwardIteration`); a backward iteration to `Backward`, whose consumers are
above the cursor (`BackwardIteration`); the ends of the loops to the phase
changes; the host calls and the update loop to stutters. The steps common to
both copies are gathered in `SharedNext`, and each invariant has a lemma
(`TInvShared`, `FInvShared`, `OInvShared`, `SchedShared`) over it.

**`PlumedMainOldProofs`.** `OldTypeCorrect`, `OldForcesExactCorrect`,
`OldCalculatedAfterDepsCorrect` and `OldScheduleRefinement` are the four
results above for the first copy. They assume `ConstantsAssumption`: the
assumptions of `PlumedMainProofs`, `Fixed \subseteq Inputs` and a natural
`Natoms`. The inductive invariant is `OldInv == P!TInv /\ P!FInv /\ P!OInv`.
The steps the first copy shares with the second are shown to be `P!SharedNext`
(`SharedSteps`), so the lemmas over `SharedNext` apply as they are. Only the
first copy's `PrepareDependencies`, `Calc` and `PerformCalc` get proofs of their own: its stop
test sets `stopFlag` and leaves the rest unchanged, and its `firststep` test
changes nothing the invariants read (`PrepareDependenciesEffectOK`,
`StartForwardOK`).

**`MCPlumedMainProofs`.** `MCOldForcesExactCorrect` and
`MCOldCalculatedAfterDepsCorrect` state the run's properties `OldForcesExact`
and `OldCalculatedAfterDeps` for `MCSpec`: a behaviour of `MCSpec` is a
behaviour of the first copy's `Spec` (`OldCopyRuns`), and `MCPlumedMain`
assumes `ConstantsAssumption` of its constants (`OldStepAssumption`).

**`FindContourProofs`.** `TypeCorrect` and `IndexRestoredCorrect` hold for
every rank, bin counts and periodicity. The inductive invariant adds, inside the
dimension loop, `i < NPoints`, `ind = GetIndices(i)` and a lowered `edge` flag.
The lemma `SearchRestores` shows that the move and the restore of one iteration
cancel: a wrap only happens on a periodic dimension, where `Restore` writes back
`NBin[j] - 1`, the value `ind[j]` had.

The proof rests on `StrideAssumption`: the recursive `PointStride` (products of
the bin counts) is a positive natural. This is a fact about the constants.
TLC evaluates it, but the provers cannot derive it by induction.

**`TasksMatchReferenceCorrect` (`Spec => []TasksMatchReference`).** This holds
for every grid and every field: when the loops end, the task list is exactly
`ContourEdges`. The inductive invariant `TInv` adds one thing. The tasks are
the edges `Found`, those already `Visited` (every dimension of the points below
`i`, and the dimensions below `j` of `i`) that cross the isovalue. Its proof
has one step per action. `SearchDirection` adds `Rank*i + j` exactly when
`CrossesAt(i, j)`. The code's guard `~Periodic[j] /\ ind[j] + 1 = NBin[j]` is
the negation of `HasNeighbour` (lemma `NeighbourMove`). The moved vector is
`Neighbour(GetIndices(i), j)`, and `grid[GetIndex(x)]` is `FieldAt(x)`
(`FieldAtIndex`).

These lemmas rest on `GridNumberingAssumption`: `GetIndex` and `GetIndices`
are inverse numberings of the points and of the index vectors in `IndexBox`.
Like `StrideAssumption`, it is a fact about the constants. TLC evaluates it on
the run's grid. It needs induction on `Rank` over recursive sums and products,
which the provers cannot do.

**Only model-checked:**

* The fairness part of `ImplementsSchedule` and
  `OldImplementsSchedule`: liveness under fairness is out of the provers'
  reach. The safety part of both refinements is proved.
* The properties of `HostCmd` and `HostCmdOld`. `InitCmd` and `Read` build the
  action list by a `FoldLeft` over the lines of the input file; an invariant
  about the result needs induction over that sequence, which the provers cannot
  instantiate.
* The properties of `ArgumentChain`, `TaskDerivatives` and
  `FunctionOfVectorTasks`. They are stated over layouts built by recursive
  functions, `FoldLeft` and `SelectSeq`. A recursive function's defining
  equation can be derived only from the library theorems that take an operator
  parameter (`RecursiveFcnOfNat`, `NatInduction`), and tlapm cannot
  instantiate these.
* The violation runs.

## Not modelled

* The regex branch of `interpretArgumentList` calls POSIX `regexec`. Its
  result depends on the strings, which the models abstract to labels.
* The input shortcuts' constructors, which only build input lines as
  strings. `interpretDataLabel`, which resolves references to their outputs,
  is modelled.
* Logging, units, checkpointing, replica exchange, CLTool and `runFinalJobs`.
* The numerical kernels (RMSD, histograms, clustering, matrix algebra). Only
  their control, where it decides which tasks run or where a derivative goes,
  is modelled.
* The task filters of SecondaryStructureRMSD and ClusterWeights. Each is one
  `buildCurrentTaskList` loop that sets `tflags[i] = 1` on a numerical test:
  a squared periodic distance below the strand cutoff, or a cluster number
  equal to `CLUSTER`. The code that merges the flags of several actions and
  runs the flagged tasks (`runAllTasks`) is not among the sources. Nothing is
  left to model but the comparison, on data the models do not carry.
* HistogramBase one kernel at a time (`buildSingleKernel` and the grid-point
  tasks belong to the subclasses, which are not among the sources), and the
  rank-2 branch of `gatherGridAccumulators`.

## Plan for the next sittings

1. **Proofs.** An action property of the step cycle (no step of a loop changes
   `isActive`).
