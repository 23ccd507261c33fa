# TLA+ models of JModelica.org

JModelica.org compiles Modelica models to C code and links them with a runtime library
into FMUs (Functional Mock-up Units); its Python packages compile models, simplify and
collocate optimization problems, solve them, and use them for control and estimation.
This directory holds TLA+ models of the control logic of the runtime and of the Python
packages, the TLC configurations that check them and TLAPS proofs about them. Paths
below are relative to `src/`; `pyjmi` is `src/Python/src/pyjmi`.

## Inventory

| part | state it keeps | operations | interacts with |
|---|---|---|---|
| FMI 2.0 Model Exchange (`RuntimeLibrary/src/fmi2/fmi2_me.c`, `jmi/jmi_me.c`, `jmi/jmi.c`, `modules/jmi_get_set_module/jmi_get_set.c`) | `fmu_mode`, the vectors `z` and `z_last`, the event flags, the epsilon, the next time event, dirty flags | life cycle, setters, getters, `set_time`, `completed_integrator_step`, `new_discrete_state` | called by an importing tool or by the co-simulation part; calls the generated equations, the blocks, the delay blocks |
| Delay blocks (`jmi/jmi_delay.c`) | a growing ring buffer of samples in segments, an event buffer, positions | record, evaluate, truncate, next event | evaluated by the equations, sampled at completed steps and events |
| FMI 2.0 Co-Simulation (`fmi2/fmi2_cs.c`, `jmi/jmi_cs.c`, `jmi/jmi_ode_*.c`) | the integrator, active input derivatives, the pending event | `do_step`, event update, callbacks from CVODE and Euler | drives the Model Exchange part |
| FMI 1.0 interfaces (`fmi1_me`, `fmi1_cs`) | as above, older calling sequence | as above | the same runtime |
| Equation blocks (`jmi/jmi_block_*.c`, solvers) | iteration variables, last accepted values, solver state | solve, local event iteration, save and restore | evaluated by the equations |
| Dynamic states, chattering, memory (`jmi_dynamic_state.c`, `jmi_chattering.c`, `jmi_dyn_mem.c`, `jmi_global.c`) | chosen states, counters, block list, try depth | choose, verify, count, allocate, reset | event iteration, completed step |
| Log (`jmi_log.c`) | a stack of open nodes | enter, leave, unwind | everything |
| External process cache (`Compiler/ModelicaFrontEnd/src/java/.../evaluation`, `ceval_external_template.c`) | entries by function and external object, failed or live; the living processes in order of use; communicators with timers and pipes | evaluate, start, mark and evict, time out, destroy, tear down | constant evaluation in the compiler; an external process by words on two pipes |
| Compiler front end, middle end and code generation | syntax trees, options | flatten, transform, generate | build the FMU |
| Compilation from Python (`pymodelica/compiler.py`, `compiler_logging.py`, `compiler_wrappers.py`) | the process, its log pipe, the parser's queue of parsed problems | compile inside or in a separate process, copy and parse the log | the compiler by JPype or by a process; raises errors or returns a result |
| Symbolic elimination (`pyjmi/symbolic_elimination.py`) | a bipartite graph with its matching and components, the solved expressions | match, sort, tear, solve or keep a block, build the reduced model | replaces an optimization problem by a smaller one |
| Derivative-free optimization (`pyjmi/optimization/dfo.py`, `dfo_tools`, `func_eval.py`) | simplexes and function values, files of a parallel evaluation | four search methods | evaluates functions, in processes |
| Collocated problem and its handle (`pyjmi/optimization/casadi_collocation.py`) | parameters, scaling, bounds, guess, the last solution, the inputs of the solver object, flags of the handle | set a parameter, data, trajectories, options, warm start; solve; inspect | driven by a caller, by MPC; calls IPOPT |
| Layout, result and scaling of it (same file) | index maps of variables and constraints, scale factors | build, bound, guess, extract the result, shift, rescale | the above |
| Model predictive control (`pyjmi/optimization/mpc.py`) | the sample's number, last successful solution, which input to use | `update_state`, `sample`, result | the handle |
| Real-time loops (`pyjmi/optimization/realtimecontrol.py`) | the recorded states and inputs, the error estimate | run, integral action, save | the controller, a simulated plant |
| Moving horizon estimation (`pyjmi/optimization/mhe/*.py`) | the window of inputs and measurements, the covariance, the arrival cost, the linearization | step, change of covariances and of parameters | the collocated problem, an extended Kalman filter, an FMU to linearize |
| CasADi interface | expression graphs | transfer | the flattened model |

What is hard in it. Nearly everything is called sequentially, and nearly every promise
spans several calls. In the runtime one event iteration spans several FMI functions:
`jmi_event_iteration` keeps its progress in `nbr_event_iter`, `atEvent`,
`save_restore_solver_state_mode`, the epsilon and the caller's own event information, it
recurses for the second phase of a time event, and it can be left at a dozen error
returns. Evaluations are cached behind `recomputeVariables`, and a step back in time or
a failing evaluation rolls the variables back to `z_last`. In the Python packages an
object keeps a copy of what another one has: the solver object has inputs that a change
of options erases, the parameters are a copy of those of the problem, the guess is in
the units of a scaling that a call may change, the window of the estimator is moved in
three lists. Only the process cache and the separate compilation have concurrency
proper: a timer against the evaluating thread, and a process, a thread that copies its
log and a parser. A test exercises one order of calls at a time. The hazards that were
found are in `PROJECT.json`, at their lines.

What makes each part correct:
* Model Exchange: a value that is out of date is marked, and evaluated before it is
  served; relations switch at events only; the
  event ends; what an event changed is reported; the next time event is told and
  respected; restoring `z_last` never undoes an event.
* Delay blocks: the ring buffer holds the newest part of the signal's history, an
  evaluation interpolates between the two samples around the delayed time, and no event
  stored in it is skipped or met twice.
* Co-Simulation: the internal importer conforms to the calling sequence the Model
  Exchange part relies on; `do_step` ends at the requested time or reports.
* Blocks: the local event iteration ends; a failed solve restores what it saved.
* Process cache: at most the allowed number of processes; a call is answered by its own
  function for its own arguments, or fails; a failed call leaves nothing that a later
  one can mistake; every call ends in time.
* Compilation from Python: whatever happens to the process and its log, the caller
  returns, is told what the compiler did, and a broken log is shown where it broke.
* Elimination: a perfect matching is found when there is one, blocks come after what
  they depend on, the reduced system is square, an eliminated variable is left nowhere
  and every solved one can be computed from those that remain.
* Derivative-free search: it never leaves the bounds, replaces a vertex only by a better
  one, and ends for every function, with NaN too.
* Collocated problem: each solution has what its caller last asked for, in the present
  units; each constraint and result can be led back to its equation and variable; what
  is inspected belongs to the solution.
* Control: the input is that of the present sample, from the newest solution there is;
  the guess is moved as far as time went; measurement and prediction compared are of the
  same time and input.
* Estimation: inputs, measurements, estimates and covariance are of the same samples,
  and the cost and the filter weigh the same names alike.

## Plan

1. `JmiRuntime`, `Fmi2ModelExchange`, `Fmi2Importer`, `HybridTime` and their proofs: the
   core, and the interface everything else is called through. (done)
2. `DelayLine` (abstract), `DelayBuffer` (operators), `DelayBlock`,
   `SpatialDistribution`: refinement of the abstract history by the ring buffer. (done,
   with the proofs for both blocks)
3. `ExternalProcess`, `ProcessCache`: eviction, failures, the timer race. (done, with
   the proofs that what is kept may be kept and that no call gets another one's values)
4. The optimization packages: `BLTModel`, `DerivativeFree`, `MovingHorizon`, `NlpSolver`
   with `ModelPredictive` and `RealTimeControl`, `CollocationLayout` with its result and
   scaling. (done, with the proofs for search, estimation, the handle and its clients)
5. `CompilerLog`, `CompileUnit`: compilation from Python. (done)
6. Left: `CoSimulation`, composed with `JmiRuntime`: the `do_step` loop as importer;
   `BlockEvents`: the local event iteration of `jmi_block_residual.c`; `DynamicStates`,
   `Chattering`, `DynMem`: the smaller state machines; the graph algorithms of the
   compiler's middle end.
7. Theorems left: `ToldRight` of compilation and `ScalesRight` of the scaling, which need
   induction over the lists they are about.

## Modules

| module | models |
|---|---|
| `JmiRuntime` | `jmi_me.c` and `jmi_get_set.c`: the part of `jmi_t` behind the interface, one operator per function or step |
| `Fmi2ModelExchange` | `fmi2_me.c` for any caller: every function at any time, with the mode checks the code makes |
| `Fmi2Importer` | the same FMU under an importer that keeps to the FMI calling sequence; the safety and liveness properties |
| `HybridTime` | abstract specification: flows and jumps |
| `DelayBuffer` | `jmi_delay.c`: the ring buffer, its segments and events, as operators on a buffer |
| `DelayLine` | abstract specification: the history of a signal as a plain sequence |
| `DelayBlock` | one `jmi_delay_t` in a simulation: fixed, variable or without events |
| `SpatialDistribution` | one `jmi_spatialdist_t` in a simulation whose flow reverses |
| `ExternalProcess` | `ProcessCommunicator.java` and `ceval_external_template.c`: the communicator, its timer, and the process behind it |
| `ProcessCache` | `ExternalProcessCacheImpl.java`: the evaluating thread and the cache, with their properties |
| `BipartiteGraph` | matching and strongly connected components of `symbolic_elimination.py` |
| `BLTModel` | `BipartiteGraph`'s blocks, tearing, the elimination of each block and the reduced model |
| `DerivativeFree` | `dfo.py`: `fmin` and its methods, vertex by vertex and evaluation by evaluation |
| `MheInputs` | the names of inputs, with aliases and checks, as `check_mhe_inputs.py` and `initial_values.py` order them |
| `MovingHorizon` | `mhe.py` and the Kalman filter: the window, the covariances, the arrival cost, the linearization |
| `NlpSolver` | the collocated problem between solutions and the handle `OptimizationSolver` |
| `NlpInspection` | what the handle tells about the problem and its solution |
| `ModelPredictive` | `mpc.py`, on `NlpSolver` |
| `RealTimeControl` | `realtimecontrol.py`, on `ModelPredictive`; the specification of the whole stack |
| `CollocationLayout` | the placing of variables, constraints and blocked inputs in the vector of the problem |
| `CollocationResult` | guess, bounds, the result read out of the vector, the shift of a controller |
| `VariableScaling` | the modes of scaling, factors from trajectories and their update |
| `CompilerLog` | the log's text as copied and parsed: problems, broken logs and the lines shown of them |
| `CompileUnit` | compilation inside and by a separate process, with its pipe, reader and the errors raised |
| `MC...` | the instances for TLC |
| `..._proofs` | the proofs |

How the state corresponds to the code. `fmu_mode` and `stopTime` are fields of
`fmi2_me_t`; `info` is the caller's `fmi2EventInfo`; the variables of `JmiRuntime` carry
the names of the `jmi_t` fields. `z` and `z_last` stand for the discrete part of the two
vectors: `d` for all variables that change at events only, `pre` for their pre values,
`u` for the discrete inputs. The continuous variables are not kept: what the properties
need of them is whether they are up to date, the history variable `stale`. Dependent
parameters are evaluated by other code than the equations, and only before the
initialization is done; `dependents` says whether they are current, outdated by a
parameter set before the initialization, or by one set after it. `unreported`
is a history variable too (a state was changed by an event and the importer has not been
told), and so is `failed`. `call`, `event_info` and `saved_svc` are the control point
and the local variables of a running `jmi_event_iteration`, including those of the outer
frames of its recursion: the function is one step in the C code, but it is split here
into its start, one pass of its loop and its final step, because with
`intermediate_results` the pass is also where it returns to the importer.

The equations are generated code. An evaluation succeeds or fails; it may write any
value of the discrete variables, unless the generated code guards them with
`jmi->atInitial || jmi->atEvent` (`CCodeGenExpressions.jrag:1111`), it may call
`terminate()`, and it may choose other dynamic states, under the same guard.

The delay modules stand for one block each. A buffer is a record with the fields of
`jmi_delaybuffer_t`; slots outside of the buffer keep what was last written there, as in
the code, so that a stale index reads what the code would read. The actions are the
calls that reach a block from `jmi_me.c` and the equations: `Integrate` is an evaluation
at a trial point, `CompletedStep` the sample of `jmi_completed_integrator_step`,
`IterateEvent` a pass of the event iteration and `FinishEvent` its final step, with the
last evaluation, the sample and the next time event. The input, and for a variable delay
the delay, are chosen anew each time. The importer is the one FMI asks for: it completes
a step before it enters an event, never steps past a time event, and enters an event
when an accepted step turned an event indicator negative (`phase`). Two simplifications:
times and positions are integers, the length of the pipe is `Length` instead of 1, and
the value at which a buffer is cut off is any between the two samples around it.
`last_x` and `x` may differ: the block keeps the one, trial steps use the other.
`offered` is history: the input of the last sample, whether it was taken or refused.

In `ExternalProcess` the variable `com` holds for each slot the fields of its
`ProcessCommunicator` and the process behind it: where its `main` is, the objects it
constructed, and the two pipes. `ProcessCache` adds the Java side, one action for each
step of `setup`, `evaluate`, `teardown` and `ready` that can wait, fail or be overtaken
by the timer; `pc` is where the evaluating thread is, and `slot` the entry `<<function,
name>>` it works on. A slot stands for the object `LiveExternalFunction`, or for the
local variable of an uncached call. Exceptions are `Throw` (all handlers destroy the
process) and `Aborted` (the one that does not). The process may hang, crash in the
library's code or abort whenever that code runs. A timer's run has two steps, and
cancelling its task in between does not stop it; after `destroy()` it finds no process
and changes nothing, so it is dropped with the communicator. A message carries its data:
`OBJECTS` the objects, `EVAL` the arguments, `DONE` both, for they determine the value.
Left out: `LOG` messages, the text of errors, a partly filled pipe that blocks a write
(the same timer runs), external objects in arrays.

`BLTModel` keeps of an equation which variables it has and whether a product of two of
them appears, which is what the code asks of CasADi (dependence, linearity). Whether a
linear block is solvable is a fact of the numbers and taken for granted; the sparsity
measures are counted as in the code. A problem is solved in the steps of the
constructor: match, compute components, create the blocks one after the other, then
build the reduced model.

`DerivativeFree` runs `fmin` on a line. A vertex is its position; the function gives any
value, NaN among them, so a path through the state space is a function as far as the
search asked for it. Which points are evaluated at once, and which by a branch of the
step, is decided by the tests of the number of cores as the code has them; a branch that
compares a variable nothing was assigned to in this iteration finds any value in it.
`step` is history: what the last step replaced the worst vertex by. The global solvers
`de` and `galileo` raise a `NameError`, as in the code. The bounds on iterations and
evaluations are those of the call.

In the modules of optimization, control and estimation numbers are replaced by where
they come from. A guess is the solution, or the trajectory, it was made of, how far it
was shifted and the version of the scaling it is in; a parameter is the number of the
change that set it; a covariance is the list of the names it weighs; an input is the
sample and the element it is for. A property then says which data must meet in one
place. `coll` has the fields of the collocator, `handle` those of `OptimizationSolver`,
`mpc` those of `MPC`, `loop` those of the loops of `realtimecontrol.py`; `coll.used` is
a history variable: what an evaluation of the solver was given and what the problem was
then. `client` says who drives the collocator; a run has all the four callers. A
solution may fail or succeed at every sample. The result of a simulation of the plant is
external: it is named by the input it is a result of.

`CollocationLayout` builds the index maps of one problem as functions: from a place in
the vector to the variable, element and point it is for, and from a constraint to its
equation. `CollocationResult` follows the same places out into the result and into the
next guess, a place's value being its origin and its units. `VariableScaling` runs the
steps of `set_nominal_traj`; shapes of trajectories (absent, zero, constant, crossing
zero, wide) are what the code distinguishes by numbers.

`CompilerLog` takes the log as a sequence of tokens: an XML tag, a word of a message, a
line's end. `CompileUnit` has the compiler process (which may die at any token), the
pipe with its capacity, the reader's chunks and the parser, which calls its handler; the
log may be disturbed at any place, by junk or by a line that ends with a "<". Junk is
never well-formed text inside the root element. The reader may die of the message about
a broken log (`ReaderDies`). The text kept for the error message is kept by line
numbers, because a property is about them.

Abstractions of the core: time is `0 .. MaxTime` and time events are compared exactly
(the code uses a tolerance); a positive `events_epsilon` is 1; the blocks' solver state
is the flag `save_restore_solver_state_mode`; `z_last` of parameters and Real variables
is left out; a failing `fmi2_instantiate` frees the component and is no step; logging,
directional derivatives, runtime options and the string variables are left out. The
importer may go on after `terminateSimulation`.

## Runs

| run | question | bounds |
|---|---|---|
| `importer_safety` | Are outdated values always marked, and do the other invariants and the refinement of `HybridTime` hold under a conforming importer? | times 0..1, 3 iterations, 2 discrete values |
| `importer_liveness` | Does every event come to an end? | times 0..1, 3 iterations |
| `delay` | Does the ring buffer implement the plain history, is an event indicator negative exactly when the delayed value would be extrapolated over an event, does a fixed delay ask for every event still to come? | all four kinds, capacity 2 at first, times 0..3, delays to 2, 2 values |
| `pipe` | Does the buffer cover the pipe through reversals, is it cut off at a known place, is the inflow taken whenever the flow moved? | length 2, positions -1..1, 5 samples |
| `cache` | Does a call get the values of its own function, arguments and objects, whatever went wrong before on its process; is the list of living processes exact; is nothing left behind; does every call end? | 3 entries, 2 places or none, 2 arguments for one entry |
| `elimination` | Is a perfect matching found when there is one, are blocks sorted, is the reduced model closed, are the known dependencies exact? | every incidence of 3 equations and 3 variables; with a diagonal also derivatives, one product, five tearings, an ineliminable variable, six sets of options |
| `dfo` | Does a search stay inside, replace a vertex only by a better one and end, whatever the function yields? | all calls of `fmin` and `nelme_modified` with none, one or both bounds, 1 to 4 cores or a function, side 3 in 0..6, 2 iterations, 13 evaluations, 2 values and NaN |
| `mhe` | Are inputs, measurements, estimates and covariances of the same samples; does the filter weigh as the cost does? | horizon 2, six steps, two changes, names in several orders, aliases, wrong names |
| `mpc` | Has every solution the present data, bounds, units and multipliers; is the input that of this sample; is the guess aligned; is the error that of the step; is what is told of a solution that solution's? | four callers; 7 calls of the handle; 6 samples, horizon of 3, 1 or 2 elements per sample, and a count that does not divide; 4 guesses, 3 result modes |
| `layout` | Does each variable have one place, does each constraint lead back to its equation, do result, shift and scale factors reach all places? | 1..4 elements, 1..2 points, three discretizations, every pattern of blocking of 2 and 3 elements, every shape of trajectory and mode |
| `compiler` | Is the caller told what the compiler did, and does every compilation return, if the reader lives? | 5 outcomes, pipe of 3 tokens, chunks of 4, 2 calls |
| `gauss_result` (violation) | Are states at the ends of elements in the units of the model? Not with Gauss points and scaling | as `layout` |

Several properties are conjunctions of named parts, so that one run of TLC answers them
together: `HistorySound` (types, the buffer's shape, the event indicators), `PipeSound`
(with `CoversPipe` and `TruncationInside`), `KeptRight` (types, quiet processes between
calls, an exact list of the living, nothing left) and `AnswersKeptApart` (the right
answer, an own process never evicted, an error closes), `ReducedClosed`,
`DataInPlace`, `SolvesAsAsked` (`SolvesCurrent`, `WarmStartRight`),
`PlacedRight`, `ScalesRight`, `ToldRight`. Each part has a comment of its own, and most
have a mutant of their own.

Further configurations are kept beside the runs. `any_caller` (of `MCFmi2Importer`)
lets a caller call anything at any time. It has the invariants of the theorems
`TypeCorrect` and `FreshCorrect`, which hold, and `EpsilonReset`, which does not. The
others reproduce divergences told under Findings: `late_parameter` (of
`MCFmi2Importer`), `reader_dies` (`MCCompileUnit`), `delay_inactive` (`DelayBlock`), `cache_calls` (`MCProcessCache`, with `-continue`), `inel`
(`MCBLTModel`) and `blocking` (`MCCollocation`). Three more are shown by a run's
configuration with another property: `pipe` with `NoEvent = TRUE` and the invariant
`TruncationInside`; `importer_safety` with the property `InputKeptBackInTime`; `mpc` with
`MaxCalls = 5` and the invariant `StartsAtLastSolution`.

What the properties leave out. `DependenciesExact` is about plain blocks, not about
derivatives, variables that must not be eliminated, solved or torn linear blocks. The
properties of the estimator are claimed as long as no call failed. `PlacedRight` is
checked with the factors of blocked inputs in the order of the inputs. `ShiftMoves` is
checked with one blocked input at most, whose values it moves by one factor: that is one
sample only when factors are as long as samples, as a controller makes them, not for a
pattern of the user's; and it moves values in the units of the solver, which are the same
at the new place unless scale factors come from trajectories and differ from point to
point. `OriginsRight` is about
problems that are built, not those that an assertion stops. When problems end a
compilation inside, `AnswerRight` asks for the problems only, not for the warnings that
were logged before; and it asks nothing once the reader died (see Findings).

Why the bounds are enough: two times allow a step, a step back, a time event now and one
later; three iterations allow one that converges, one that goes on and one that exhausts
the limit; two discrete values tell a changed value from a kept one. A second phase at a
time event and the third in a row, which is an error, both occur. The theorems below
cover every bound of the core.

The buffers start with room for two samples instead of 256, so that both ring buffers
grow twice, wrapped and not; a delay of two time units holds a step, an event pair and
the sample kept before the limit. A pipe of length 2 has an inner point for an event of
the initial contents, and five samples allow two reversals. Deadlock is not checked for
the pipe, which stops at its bound on samples.

One function is enough for the process cache, for entries of different functions share
only the list of the living; two arguments tell a stale answer from the right one. With
three entries and two places the order of use decides which one is evicted. There is no
bound on the number of calls, aborts or crashes. `max_proc` is an option that does not
change; it is a variable so that one run checks the cache turned on and off, as `fixed`
and `no_event` are for the delay block.

Three equations are the least with a cycle, a chain to augment and a block that depends
on another one; every incidence is tried. The search of `dfo` has room for a reflection,
an expansion, both contractions and a shrink of each method, and for bounds to cut them.
Six samples move the estimator's window of two through its filling phase and four times
beyond it, with the changes in every place. Six samples of the controller with a horizon
of three let it use all the inputs of a solution, fail beyond its end and succeed again;
seven calls of the handle hold a solution, a change of each kind, a failure and two more
solutions. The layouts have first, inner and last elements and points. A pipe of 3
tokens with chunks of 4 blocks the compiler, and cuts chunks inside of tags. Deadlock is
not checked in these runs: the programs end.

Fairness (`cache`): the evaluating thread goes on when it can, and the timer threads,
taken together, do. Nothing is assumed of the processes. A limit of -1 in the option
turns the timer off, and then nothing is promised; the run has `Timed = TRUE`.

Fairness (`importer_liveness`): a running call takes its steps (it is sequential code),
and the importer goes on asking for new discrete states while they are needed and then
enters continuous-time mode, which is the loop every importer runs (`fmi2_cs.c:318`).
Nothing is assumed of the equations.

Fairness (`dfo`): the search is sequential code and a function evaluation returns.
Fairness (`compiler`): the compiler process writes, until it ends in one way or another,
when its pipe has room (there is no limit of its run time in the code, so nothing could
be promised of one that hangs); the thread that reads, the caller and the compiler
inside the process go on. Nothing is assumed of what is written or of when the process
is killed.

## Proofs

What is proved holds for every value of the constants that the named assumptions of the
modules allow, and for behaviours of any length; the bounds of the runs play no part.

| module | theorems | assumptions |
|---|---|---|
| `Fmi2Importer_proofs` | `TypeCorrect`, `FreshCorrect`: types, and no outdated value without its mark for any caller; `ImporterInvariant`; `FlagsCorrect`, `HysteresisCorrect`, `RestoreCorrect`, `ReportCorrect`, `NextEventCorrect`; `ImplementsHybridTime`, the refinement | those of `JmiRuntime`: 0 is a discrete value, the bounds are numbers |
| `DelayBuffer_proofs` | lemmas only: what each operation does, at either end, to the samples and events of a buffer | `CapacityAssumption` |
| `DelayBlock_proofs` | `Invariance`; `HistoryIsAlwaysSound`, `NextEventIsAlwaysAsked`; `ImplementsHistory`, the refinement | `CapacityAssumption`, `DelayAssumption` |
| `SpatialDistribution_proofs` | `Invariance`; `PipeIsAlwaysSound`, `InflowIsAlwaysTaken` | `CapacityAssumption`, `PipeAssumption`; a block with events (`~ NoEvent`) |
| `RealTimeControl_proofs` | `HandleInvariant`, `HandleSolvesAsAsked`: a caller of the handle changes anything in any order, with no assumption; `StackInvariant`; `EveryClientSolvesAsAsked`, `OptimumToldRight`, `InputIsForNow`, `GuessIsAligned`, `ErrorIsOfThisStep`: the same for the whole stack, and what controller and loops promise | `CountsAssumption`, `ModesAssumption` |
| `DerivativeFree_proofs` | `SimplexInvariant`; `StaysInside`, `StepsAlwaysImprove` | `BoundsAssumption`, `ValuesAssumption`, `CallsAssumption` |
| `ProcessCache_proofs` | `CacheInvariant`, `KeepsWhatItMay`; `ConversationInvariant`, `AnswersStayApart` | those named in `ProcessCache`; the last two also `OneObject` |
| `MovingHorizon_proofs` | `EstimatorInvariant`; `DataRightlyPlaced`, `ArrivalAtFirst`, `WeighsAlike`, `LinearizesRight` | `ModelAssumption`, `AliasAssumption`, and those named in `MovingHorizon` |

What the assumptions say. The first capacity of a delay buffer is a power of two up to
256, which is what the code starts with; a delay and the end of time are positive
numbers. The bounds of a search enclose its start, and a function value
is not taken for NaN. A controller has elements and points, and results interpolated
inside of elements have both ends of each (`NEval` > 1). An external message is not taken
for none. Variables of a model have names of their own, and an alias is none of them.
`KindsAssumption` is what the estimator's documentation asks of its options: inputs and
noises are inputs of the model and `P0` is about states; it leaves out measurements of
inputs, which share rows with the inputs in the code. `StartAssumption`: the states have
start parameters. `OneObject` leaves out calls with several external objects, for which
`cache_calls` shows the property violated.

### The inductive invariants

The invariants that TLC checks are seldom inductive. Each was first strengthened so that
it is, TLC found no counterexample to the strengthened one in the model of its run, and
then it was proved with one lemma per action.

*The FMU.* The properties speak of the moments in which the importer has control; an
error in the middle of an iteration, or the value of `info` between two calls, is what
they depend on. `IInv` adds what holds inside a call (`FlagsInv`, by the control point),
that a cleared epsilon can be put back (`EpsilonInv`), where an unreported change is kept
at each point of the recursion (`ReportInv`), and what a settled event leaves until the
next one (`SettledInv`). The refinement adds that outside of events nothing evaluates
relations (`FrozenOutsideEvents`), so that a flow keeps the discrete state also when an
evaluation is rolled back.

*The delay.* Two ring buffers, one of samples and one of the events between them, are
used with indices that run on in both directions and are reduced by the capacity when
they are used, and either may be full and wrapped when it is reallocated.
`DelayBuffer_proofs` therefore begins with remainders: which slots an index range may
share (never two, while the range is no longer than the capacity) and where the two
blocks of a wrapped range are after a reallocation. On top of that, one lemma for each
operation says what it does to the samples by their index: recording appends, replaces
the end, or does nothing; discarding leaves a suffix that reaches the limit; an
evaluation puts the input at the end, and what it takes away again is what it put
(`Stays`). None mentions slots any more. A search is the least or the greatest index
with some quality, and that there is one follows from the well-foundedness of `<`.

`HistorySound` is not inductive, since what an evaluation may reach depends on what was
discarded. `Sound` adds that the samples reach back as far as the longest delay, or to
the first one with an event behind it (`Covered`), which is why one sample older than the
limit is kept, and that the last sample is that of the last accepted step. `NextEventAsked`
needs where the look-up of the next time event starts: `SegmentRight` says that the events
left of the position's segment are past and that the one at its right end is the next; it
is broken during event iteration, where only `AtEvent` holds, that the position is the
interval of the event (an evaluation at the event may have gone over it or not), and the
sample at the end of the event restores it. `IInv` is the conjunction. The
refinement maps the buffer to the sequence of its samples: an evaluation is a stutter,
recording appends and drops what is no longer needed, which `ShortenedIsNeeded` shows to
be the same suffix.

*The pipe.* The same buffer is used from both ends, so each lemma about recording,
discarding and searching has a counterpart at the left end; and a sample may be put in
where the buffer is cut off. Which samples come and go depends on how often the flow
reversed, and no history of it is kept, so the invariant cannot say which interval a
position is in: an evaluation moves it within its segment, and may find nothing there.
What is kept is coarser. `IsAround(b, sg, t)` says that segment `sg` has samples on both
sides of `t`, and `IntervalAround` that a search from anywhere on `sg` finds the interval
of `t` just when this is so. `Holds` says it of both positions, for the two ends of the
pipe at the last sample: from this follow `CoversPipe`, that a sample put at the limit is
interpolated (`TruncationInside`), and that an event indicator is negative just when
the outlet is not found. `FilledTo` adds that the inlet is the end of the buffer and that
the position there is on the segment at that end; it is what keeps `Holds` when the flow turns
later, since the inlet is then the outlet. It does not hold while events are iterated,
where the direction may change in each pass and only the final sample brings it back.
`InflowTaken` is an action property: a sample is refused only if its coordinate does not
go on beyond the end of the buffer, and that end was cut off at the last sample, so this
happens only if the flow stands still; any other sample, an event included, ends the
buffer with the inflow at the present position.

The theorems are about blocks with events. Without events an evaluation may move a
position over an event in a trial step, so that `Holds` is not kept, and `TruncationInside`
is violated (see Findings): the hypothesis cannot be dropped.

*The handle.* `SolvesAsAsked` speaks of the last evaluation. `HandleInv` adds what the
next one relies on: the solution that is kept is that of the last run, its multipliers
are unscaled, the interpolation is that of the trajectory last set (`Kept`), bounds and
solution are in the present units unless the handle has noted that they are not
(`UnitsNoted`), and what is told and evaluated belongs to the solution (`Told`,
`Evaluated`). Values play no part, so the records are described by their fields alone
(`Shaped`); there is one lemma for each operator of a solution, and `Solution` puts them
together. `HandleSolvesAsAsked` is about `HandleSpec(op)`, the part of the specification
of `RealTimeControl` in which a caller drives the handle.

*The stack.* `StackInv` takes `HandleInv` along, for whoever drives the handle, and
relates the parts: a sample is a run; the last solution is as many samples back as
samples failed since, which is what the index of the input to use counts; the guess was
shifted as often as the time of the problem has moved; what a loop recorded belongs to
its step.

*The search.* A step is right when the branch that decides it has the value of its own
point, and when the simplex is in order, for a branch compares with one vertex and
replaces another. `OwnPointEvaluated` goes through the numbers of cores and the branches:
what the batch leaves out, the branch evaluates. `SimplexInv` has the order
(`SortedInv`) at the point where the step is decided, and where a search starts
(`StartInv`), which restarts of the barrier method need too. From both follows that the
point taken is better than the vertex it replaces. The bounds are kept because each
vertex, and the point that replaces it, is moved inside before it is evaluated, or lies
between vertices.

*The process cache.* `KeptInv` says which communicator may be open at each point of the
evaluating thread, when a timer may be armed, and that the list of the living is exact
and within the limit. `ConvInv` describes both pipes at each point of a call, what may
be in them, in which order, and what the process on the other side is about to read: a
process of another call has at most `READY` to say, so nothing that arrives later can be
taken for an answer.

*The estimator.* Its properties hold as long as no call failed, and need what the next
step will find: samples that follow each other, the same in every array of the window
(`TimesInv`, `ColumnsInv`), `P` and guess of the first one (`ArrivalInv`), names each
once, of the right kind, the rows of the data being those of the external inputs
(`ConfInv`), the filter's last linearization one sample before the window (`FilterInv`),
and a marked parameter either compiled or still to be compiled (`ModelInv`).

Some of these need induction over the length of a list: that sorting the names keeps
them, each once, and that replacing aliases does. The induction theorems of the library
cannot be used here, for they take an operator as a parameter; `InductionUpTo` is derived
instead from the well-foundedness of `<`, for a set of numbers, which is all that these
proofs need. `Only` in `MheInputs` is a recursive function for this reason.

### Only model-checked

* Liveness, under fairness: `EventEnds`, `CallsEnd`, `Terminates`, `CompileReturns`.
* Elimination (`MatchingSound`, `BlockLowerTriangular`, `ReducedClosed`,
  `DependenciesExact`): the graph algorithms are recursive operators, which the prover
  does not take.
* Layout and result of the collocated problem (`PlacedRight`, `OriginsRight`,
  `RescaledInside`, `ShiftMoves`) and its scaling (`ScalesRight`): positions are sums over
  the lengths of all blocks before, compared place by place.
* Compilation (`ToldRight`): the answer depends on every token of a text that is put
  together from lists of problems and taken apart again by lines, chunks and elements;
  both are folds over sequences, so a proof is by induction over the data.

## Findings

`PROJECT.json` quotes one as a run: with Gauss points and scaling of variables the
states at the ends of elements are not brought to the units of the model
(`gauss_result`). Those that another configuration shows:

* `late_parameter`, `DependentsReevaluated`: a parameter set after the initialization
  marks those that depend on it, but `jmi_init_eval_generic` (`jmi.c:571`) evaluates
  them only before: what is computed next mixes the new value with old dependent ones.
  `jmi.h:602` says that the mark triggers "reevaluation on the next call to
  jmi_init_eval_dependent".
* `reader_dies`, `EndsWithStream`: the message about a log that is broken at the end of
  a line asks for a character that is not there (`compiler_logging.py:181`); the
  `IndexError` ends the reader. If more follows than the pipe holds, compiler and caller
  wait for ever; if not, the caller gets an answer without the error, a result even. The
  docstring of `end` says of the thread that it finishes "only ... when the log stream
  is closed".
* `any_caller`, `EpsilonReset`: the epsilon of event indicators is not put back when an
  initialization failed and is tried again.
* `importer_safety` with `InputKeptBackInTime`: a discrete input set after the last
  saved point is lost in a step back in time.
* `delay_inactive`: an `if` expression evaluates one branch only (`COND_EXP_EQ`), so a
  delay in the other keeps its position while its samples are discarded, and the look-up
  of the next time event reads a slot that is no longer in the buffer.
* `pipe` with `NoEvent = TRUE`, `TruncationInside`: a spatial distribution without
  events may be evaluated over an event in a trial step, and `truncate_left` cannot go
  back over it to the point at which the flow really turned.
* `cache_calls`, `ReadyForEval`: an aborted evaluation returns 0, without values, and
  leaves the process with its `READY` unread and its timer armed, so the next call
  fails. (The abort has another consequence that no configuration shows: in the
  constructor of a process that is started again it leaves the process outside of the
  list of the living, so `destroyProcesses` passes it by.)
* `cache_calls`, `OwnObjects`: all calls with several external objects share one entry,
  whose process has the objects of the first.
* `inel`: a variable that must not be eliminated is eliminated when it is in a torn
  block.
* `mpc` with `StartsAtLastSolution`: a warm start after `set_nominal_traj` takes over
  the values of the last solution in the old units.
* `blocking`: blocked inputs are placed in the order of the dictionary of factors and
  read in the order of the inputs.

Met while modelling, modelled as the code is (an error is an error in the model),
without a configuration:

* Layout: with Gauss points blocking factors end in a `KeyError`, a path equality over
  several elements in an `AssertionError`, free element lengths with results at
  collocation points in an `IndexError`, and states at mesh points get neither bounds
  nor a guess. Free element lengths with point constraints are not refused: the check
  (`casadi_collocation.py:2169`) is in a part that only other lengths reach. A controller with two blocked inputs shifts the second with another
  factor's value. An exception in `set_nominal_traj` leaves the factors half updated;
  without trajectories the default mode stays "attribute" for ever.
* Inspection: after new scaling or data, and before the next solution, residuals "at the
  optimum" evaluate the last solution with the new parameters; the factor of the
  objective in the Hessian is computed at the guess for the optimum too.
* Control: with element lengths given and longer elements later, a failure returns the
  input of a later time; with `element_interpolation` rows are miscounted from the
  second failure on; more than one element per sample raises `IndexError` instead of
  `RuntimeError` when the inputs are used up; external data is written before its bounds
  are checked; the options object of the caller is changed. `run(save=True)` of the
  loops raises, as results are saved before the flag of a finished run is set.
  Unobserved states need an `estimate_states` of the user's. Overridden options with
  other numbers of elements make the prediction one of another time.
* Compilation: the error of an illegal log level is a `NameError`, as the exception is
  not imported; the same problem raises different exceptions inside and outside the
  process; the return code of the process is ignored; an interrupt while reading is
  swallowed by a `return` in a `finally`.
* Estimation: the options object of the caller is changed; an alias among the inputs can
  raise a `KeyError`; wrong names pass when lists have the same length; a rejected step
  leaves its time in the list.
* Search: `de` and `galileo` construct a `GLP`, which is not imported (`dfo.py:35`), and
  end in a `NameError`. At the limit of iterations the vertex returned need not be the best.
  Elimination: derivatives as tearing variables raise a `KeyError`; closed form with
  tearing raises `NotImplementedError`.

Hazards known but not listed in `PROJECT.json`, or without a property: a failed
initialization that marks the model initialized first (`jmi_me.c:146`, `:167`); the
counter of time events after its check failed (`jmi_me.c:777`); dependent parameters of
a parameter set late (`jmi.c:571`); a message about a broken log that fails itself
(`compiler_logging.py:181`); a discrete input that a step back loses
(`jmi_get_set.c:490`); growth of a delay buffer across its segments; failures in the
setup of a cached process and its eviction; the entry shared by several objects; the
order of low links in the component search.

## Not modelled

* Co-Simulation, FMI 1.0, the block solvers, dynamic states, chattering, memory and the
  log of the runtime: planned in this order; their control is within reach, the numerics
  of their solvers are not.
* The compiler's trees: parsing, flattening and code generation are rewriting over
  attribute grammars, without state that outlives an evaluation; the graph algorithms of
  its middle end are planned.
* The CasADi interface, polynomials, IPOPT's options, option classes, plots and log
  readers of the Python packages: sequential code over numerical libraries.
* In the modelled parts: floating-point values and tolerances, text and logging, and
  what the notes of the components in `PROJECT.json` name.
