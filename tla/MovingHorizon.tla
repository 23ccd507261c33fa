--------------------------- MODULE MovingHorizon ----------------------------
(***************************************************************************)
(* Moving horizon estimation (pyjmi/optimization/mhe): the estimator and   *)
(* the formulation it adds to the optimization problem (mhe.py), the       *)
(* extended Kalman filter of its arrival cost (ekf_arrival_cost.py) and    *)
(* the optimization for initial values (mhe_initial_values.py).            *)
(*                                                                         *)
(* Numbers are left out: a sample, an estimate and a matrix are known by   *)
(* the sample they belong to, a value by the name it was given under, a    *)
(* covariance and the parameters of the model by the number of the change  *)
(* that set them.                                                          *)
(***************************************************************************)
EXTENDS MheInputs

CONSTANTS
  Horizon,
  Options,                   \* the options objects the caller may start with
  InputLists, MeasLists,     \* what the caller may pass as u and y
  GuessLists, StartInputs,   \* and as guess of the states and inputs at time zero
  StartParameters,           \* the states or aliases that have a start parameter, in the problem's order
  CovLists,                  \* what the caller may set as Q or R: a function of the two
  MaxSteps, MaxChanges       \* bounds on the calls

ASSUME HorizonAssumption == Horizon \in Nat \ {0} /\ MaxSteps \in Nat /\ MaxChanges \in Nat

ASSUME OptionsAssumption ==
  \A o \in Options :
    /\ DOMAIN o = {"input_names", "process_noise_cov", "measurement_cov", "P0_cov"}
    /\ o.input_names \in Seq(STRING)
    /\ \A b \in {o.process_noise_cov, o.measurement_cov, o.P0_cov} : b \in Seq(Seq(STRING))

\* As documented: inputs and noises are inputs of the model, P0 is about its states.
\* Measurements of inputs are left out (map of rows, below).
ASSUME KindsAssumption ==
  \A o \in Options :
    /\ ToSet(Replaced(o.input_names)) \subseteq ToSet(RealInputs)
    /\ ToSet(Replaced(CovNames(o.process_noise_cov))) \subseteq ToSet(RealInputs)
    /\ ToSet(Replaced(CovNames(o.measurement_cov))) \subseteq ToSet(States) \cup ToSet(Algebraics)
    /\ ToSet(Replaced(CovNames(o.P0_cov))) \subseteq ToSet(States)

\* The model is compiled with start parameters for its states.
ASSUME StartAssumption ==
  \A s \in ToSet(States) : \E p \in ToSet(StartParameters) : ModelName(p) = s

VARIABLES
  phase,         \* "new" before MHE() returned, then "ready"
  caller,        \* the caller's options object
  conf,          \* the names of the object: options, noise, measured, undefined, rows
  next_time_index, time_vector, u, y,
  est,           \* x_est, _dx_est and _c_est
  guess, arrival,        \* the parameters of the arrival cost
  P, lin,                \* the filter: its matrix and where it was linearized last
  weights,               \* for Q and R: parameters, terms of the cost, and the filter's matrix
  params, marked, compiled, dirty,   \* the model's parameters
  data,          \* the external data of the last optimization
  clean          \* no call failed so far, and no call named other variables than its own

vars == <<phase, caller, conf, next_time_index, time_vector, u, y, est, guess, arrival, P, lin,
          weights, params, marked, compiled, dirty, data, clean>>
model == <<params, marked, compiled, dirty>>
window == <<next_time_index, time_vector, u, y, est, guess, arrival, P, lin, data>>

None == <<>>
Kinds == {"Q", "R"}

---------------------------------------------------------------------------
(***************************************************************************)
(* Names.  Disturbed inputs come last among the inputs and first among the *)
(* process noises.                                                         *)
(***************************************************************************)
UnsortedNames(c) == c   \* mutant: the names stay in the order of the options

SortedNames(c) ==
  LET disturbed == Only(c.opts.input_names, ToSet(c.process_noise))
      clear == Without(c.opts.input_names, ToSet(c.process_noise))
      others == Without(c.process_noise, ToSet(disturbed))
  IN [c EXCEPT !.opts.input_names = clear \o disturbed, !.process_noise = disturbed \o others]

\* One dictionary for both: the row of a measured variable hides that of an input.
RowMap(c) ==
  LET ins == c.opts.input_names
      row(list, n) == CHOOSE k \in DOMAIN list : list[k] = n
  IN [n \in ToSet(ins) \cup ToSet(c.measured) |->
        IF n \in ToSet(c.measured) THEN row(c.measured, n) ELSE row(ins, n)]

\* The variables the input data is for; u0 is the true value of a disturbed input.
InputVars(c) ==
  LET clear == Without(c.opts.input_names, ToSet(c.process_noise))
      disturbed == Only(c.process_noise, ToSet(c.opts.input_names))
  IN [i \in DOMAIN clear |-> <<"u", clear[i]>>] \o [i \in DOMAIN disturbed |-> <<"u0", disturbed[i]>>]

\* The names the filter linearizes in, and the columns of the process noises among them.
AllInputs(c) ==
  LET ins == c.opts.input_names
  IN ins \o Without(c.process_noise, ToSet(ins)) \o c.undefined
ZeroNoise(c) == Without(c.process_noise, ToSet(c.opts.input_names))

NameMap(c) == [n \in ToSet(AllInputs(c)) |-> CHOOSE k \in DOMAIN AllInputs(c) : AllInputs(c)[k] = n]
LastColumns(c) ==   \* mutant: the noises are the columns after the inputs
  [i \in DOMAIN c.process_noise |-> Len(c.opts.input_names) + i]
NoiseColumns(c) == [i \in DOMAIN c.process_noise |-> NameMap(c)[c.process_noise[i]]]

\* A measured state is its own row; the row of an algebraic variable comes from the solved system.
MeasurementRows(c) ==
  [i \in DOMAIN c.measured |->
     LET kind == IF c.measured[i] \in ToSet(States) THEN "x" ELSE "c"
         names == IF kind = "x" THEN States ELSE Algebraics
     IN <<kind, CHOOSE k \in DOMAIN names : names[k] = c.measured[i]>>]

---------------------------------------------------------------------------
(***************************************************************************)
(* Weights.  A matrix has an entry for every two names of a block.         *)
(***************************************************************************)
NameList(c, kind) == IF kind = "Q" THEN c.process_noise ELSE c.measured
Block(b) == ToSet(b) \X ToSet(b)
Entries(cov) == UNION {Block(cov[b]) : b \in DOMAIN cov}

\* The parameters a covariance list sets, up to a block with a name that is not in the list.
GoodBlocks(c, kind, cov) ==
  {b \in DOMAIN cov : \A a \in 1 .. b : ToSet(cov[a]) \subseteq ToSet(NameList(c, kind))}
SetParameters(pars, c, kind, cov, version) ==
  LET done == UNION {Block(cov[b]) : b \in GoodBlocks(c, kind, cov)}
  IN [e \in DOMAIN pars \cup done |-> IF e \in done THEN version ELSE pars[e]]

\* The terms of the quadratic form in the objective and in the integrand.
CostTerms(cov) == Entries(cov)

\* The matrix of the filter, zero outside the blocks.
KeptMatrix(cov, version) == [e \in Entries(cov) |-> 0]   \* mutant: the filter is not updated
FilterMatrix(cov, version) == [e \in Entries(cov) |-> version]

NewWeights(c, kind, cov) ==
  [pars |-> SetParameters(<<>>, c, kind, cov, 0), cost |-> CostTerms(cov), ekf |-> FilterMatrix(cov, 0)]

UpdatedFilter(cov, version) == FilterMatrix(cov, version)

\* All entries of the inverse of P0: those of the options, the others added as zeros.
P0Entries(c) == Entries(c.opts.P0_cov) \cup (ToSet(States) \X ToSet(States))

\* The start parameters in the order of the states, and the state whose guess each is compared with.
InitialValues == [k \in DOMAIN States |-> CHOOSE p \in ToSet(StartParameters) : ModelName(p) = States[k]]
ArrivalTerms == {<<ModelName(InitialValues[k]), States[k]>> : k \in DOMAIN States}

---------------------------------------------------------------------------
Init ==
  /\ phase = "new" /\ caller \in Options /\ conf = None
  /\ next_time_index = 1 /\ time_vector = <<0>> /\ u = <<>> /\ y = <<>>
  /\ est = [x |-> <<0>>, dx |-> <<0>>, c |-> <<0>>]
  /\ guess = 0 /\ arrival = <<>> /\ P = 0 /\ lin = None /\ weights = <<>>
  /\ params = 0 /\ marked = 0 /\ compiled = 0 /\ dirty = FALSE
  /\ data = None /\ clean = TRUE

(***************************************************************************)
(* The optimization at time zero and its checks: nothing of the caller's   *)
(* changes but the options, whether it raises or not.                      *)
(***************************************************************************)
InitialChecks(xs, us) ==
  LET c == CheckOptions(caller)
  IN /\ c.status = "ok"
     /\ CheckTupleList(xs, States) = "ok"
     /\ CheckTupleList(us, c.opts.input_names) = "ok"
     /\ ToSet(c.opts.input_names) \subseteq ToSet(Replaced(us))   \* else u_0 has no such key

OptimizeForInitialValues ==
  \E xs \in GuessLists, us \in StartInputs :
    /\ phase = "new"
    /\ InitialChecks(xs, us) \/ CheckOptions(caller).caller # caller
    /\ caller' = CheckOptions(caller).caller
    /\ UNCHANGED <<phase, conf, window, weights, model, clean>>

(***************************************************************************)
(* MHE(): the checks, the names, the filter and the formulation.           *)
(***************************************************************************)
CreationChecks(c, xs, dxs) ==
  /\ c.status = "ok"
  /\ CheckTupleList(xs, States) = "ok" /\ CheckTupleList(dxs, States) = "ok"

Formulation(s) ==
  /\ weights' = [kind \in Kinds |->
       NewWeights(s, kind, IF kind = "Q" THEN s.opts.process_noise_cov ELSE s.opts.measurement_cov)]
  /\ arrival' = [e \in P0Entries(s) |-> 0]

Create ==
  \E xs, dxs \in GuessLists :
    LET c == CheckOptions(caller)
        s == SortedNames(c)
    IN /\ phase = "new" /\ CreationChecks(c, xs, dxs)
       /\ caller' = c.caller
       /\ clean' = (ToSet(c.opts.input_names) \cap DOMAIN Alias = {})
       /\ phase' = "ready"
       /\ conf' = [opts |-> s.opts, process_noise |-> s.process_noise, measured |-> s.measured,
                   undefined |-> s.undefined, rows |-> RowMap(s)]
       /\ Formulation(s)
       /\ compiled' = params
       /\ UNCHANGED <<next_time_index, time_vector, u, y, est, guess, P, lin, params, marked, dirty, data>>

CreateRejected ==
  \E xs, dxs \in GuessLists :
    LET c == CheckOptions(caller)
    IN /\ phase = "new" /\ ~CreationChecks(c, xs, dxs)
       /\ caller' = c.caller
       /\ UNCHANGED <<phase, conf, window, weights, model, clean>>

---------------------------------------------------------------------------
(***************************************************************************)
(* A step: the time is appended, then u and y are checked, then their      *)
(* values are appended.                                                    *)
(***************************************************************************)
Accepted(us, ys) ==
  /\ CheckTupleList(us, conf.opts.input_names) = "ok"
  /\ CheckTupleList(ys, conf.measured) = "ok"

\* A column with one row per name; a row nothing was given for is zero.
Column(list, size, k) ==
  LET at(r) == {n \in ToSet(Replaced(list)) : conf.rows[n] = r}
  IN [at |-> k, rows |-> [r \in 1 .. size |-> IF at(r) = {} THEN "zero" ELSE CHOOSE n \in at(r) : TRUE]]

\* Otherwise the names have no row, or one beyond the array.
Placed(list, size) == \A n \in ToSet(Replaced(list)) : n \in DOMAIN conf.rows /\ conf.rows[n] <= size
PlacedU(us) == Placed(us, Len(conf.opts.input_names))
PlacedY(ys) == Placed(ys, Len(conf.measured))

AppendNewData(us, ys) ==
  LET uk == Column(us, Len(conf.opts.input_names), next_time_index - 1)
      yk == Column(ys, Len(conf.measured), next_time_index - 1)
  IN IF next_time_index = 1 THEN [u |-> <<uk>>, y |-> <<yk>>]
     ELSE [u |-> Append(u, uk), y |-> Append(y, yk)]

RightNames(us, ys) ==
  ToSet(Replaced(us)) = ToSet(conf.opts.input_names) /\ ToSet(Replaced(ys)) = ToSet(conf.measured)

Sliding == next_time_index > Horizon

\* _remove_old_data, of all arrays.
TailsOfTwo(e) == [x |-> Tail(e.x), dx |-> Tail(e.dx), c |-> e.c]   \* mutant: _c_est is kept
Tails(e) == [x |-> Tail(e.x), dx |-> Tail(e.dx), c |-> Tail(e.c)]

\* A parameter that changed is compiled into the Jacobians before they are used.
CompiledLate == IF dirty /\ ~Sliding THEN params ELSE compiled   \* mutant: the flag is consumed early
CompiledNow == IF Sliding /\ dirty THEN params ELSE compiled

(***************************************************************************)
(* The filter: P moves on by one sample, to the state that the window      *)
(* begins with once the oldest data are removed.                           *)
(***************************************************************************)
LinearizationPoint(d) ==
  [t |-> time_vector[1], x |-> est.x[1], dx |-> est.dx[1], c |-> est.c[1], u |-> d.u[1].at, P |-> P,
   inputs |-> conf.opts.input_names \o conf.undefined \o ZeroNoise(conf),
   G |-> NoiseColumns(conf), C |-> MeasurementRows(conf)]

NextP == P + 1

Slid == IF Sliding THEN Tails(est) ELSE est

Slide(d) ==
  /\ compiled' = CompiledNow /\ dirty' = (dirty /\ ~Sliding)
  /\ IF Sliding
     THEN /\ lin' = LinearizationPoint(d)
          /\ P' = NextP
          /\ arrival' = [e \in DOMAIN arrival |-> NextP]
          /\ time_vector' = Tail(Append(time_vector, next_time_index))
          /\ u' = Tail(d.u) /\ y' = Tail(d.y)
          /\ guess' = Tails(est).x[1]
     ELSE /\ time_vector' = Append(time_vector, next_time_index)
          /\ u' = d.u /\ y' = d.y
          /\ UNCHANGED <<lin, P, arrival, guess>>

---------------------------------------------------------------------------
(***************************************************************************)
(* The external data: the value of an input at the last time is that       *)
(* before it; the mask takes the last measurement out of the cost.         *)
(***************************************************************************)
Extended(columns) == Append(columns, columns[Len(columns)])
Row(columns, i) == [j \in DOMAIN columns |-> [at |-> columns[j].at, name |-> columns[j].rows[i]]]
OnesUpTo(n) == [j \in 1 .. n + 1 |-> IF j <= n THEN 1 ELSE 0]
Mask(n) == OnesUpTo(n)

\* The cost: the integrand at the end of each element, and terms at the start time.
IntegrandTerms(n) == [j \in 1 .. n |-> IF j > 1 THEN 1 ELSE 0]
StartTerms(n) == [j \in 1 .. n |-> IF j = 1 THEN 1 ELSE 0]
NoiseTerms(n) == [j \in 1 .. n |-> IntegrandTerms(n)[j] + StartTerms(n)[j]]
MeasurementTerms(n) == [j \in 1 .. n |-> IntegrandTerms(n)[j] * Mask(n - 1)[j] + StartTerms(n)[j]]

CreateExternalData(t, us, ys) ==
  [times |-> t,
   inputs |-> [i \in DOMAIN InputVars(conf) |-> [var |-> InputVars(conf)[i], row |-> Row(Extended(us), i)]],
   zero |-> ToSet(conf.undefined),
   meas |-> [i \in DOMAIN conf.measured |-> [var |-> conf.measured[i], row |-> Row(Extended(ys), i)]],
   w |-> NoiseTerms(Len(t)), v |-> MeasurementTerms(Len(t))]

\* Rows and times of different lengths do not stack.
Stacks(t, us) == Len(t) = Len(us) + 1

AppendResults(e) ==
  [x |-> Append(e.x, next_time_index), dx |-> Append(e.dx, next_time_index), c |-> Append(e.c, next_time_index)]

\* Bounds: the number of steps, and of times that failed steps leave behind.
CanStep ==
  phase = "ready" /\ next_time_index <= MaxSteps /\ Len(time_vector) <= Horizon + 2

\* The step raises at once, with the time of the sample already appended.
StepRejected ==
  \E us \in InputLists, ys \in MeasLists :
    /\ CanStep /\ clean
    /\ ~(Accepted(us, ys) /\ PlacedY(ys) /\ PlacedU(us))
    /\ time_vector' = Append(time_vector, next_time_index)
    /\ y' = IF Accepted(us, ys) /\ PlacedY(ys)
            THEN Append(IF next_time_index = 1 THEN <<>> ELSE y, Column(ys, Len(conf.measured), next_time_index - 1))
            ELSE y
    /\ clean' = FALSE
    /\ UNCHANGED <<phase, caller, conf, next_time_index, u, est, guess, arrival, P, lin, weights, model, data>>

\* The optimization raises (bound: once), or there is none as the data do not stack.
StepFails ==
  \E us \in InputLists, ys \in MeasLists :
    /\ CanStep /\ Accepted(us, ys) /\ PlacedY(ys) /\ PlacedU(us)
    /\ LET d == AppendNewData(us, ys)
       IN /\ Slide(d)
          /\ IF Stacks(time_vector', u')
             THEN clean /\ data' = CreateExternalData(time_vector', u', y')
             ELSE data' = data
    /\ est' = Slid
    /\ Len(est'.x) > 1   \* bound: failures until one more would leave no estimate
    /\ clean' = FALSE
    /\ UNCHANGED <<phase, caller, conf, next_time_index, weights, params, marked>>

Step ==
  \E us \in InputLists, ys \in MeasLists :
    /\ CanStep /\ Accepted(us, ys) /\ PlacedY(ys) /\ PlacedU(us)
    /\ Sliding => Len(est.x) > 1
    /\ LET d == AppendNewData(us, ys)
       IN Slide(d) /\ Stacks(time_vector', u')
    /\ data' = CreateExternalData(time_vector', u', y')
    /\ est' = AppendResults(Slid)
    /\ next_time_index' = next_time_index + 1
    /\ clean' = (clean /\ RightNames(us, ys))
    /\ UNCHANGED <<phase, caller, conf, weights, params, marked>>

---------------------------------------------------------------------------
(***************************************************************************)
(* set_process_noise_covariance_matrix and the same for the measurements.  *)
(* An unknown name is reported; a name of another variable raises after    *)
(* the options and the blocks before it were set.                          *)
(***************************************************************************)
Changes == params + Cardinality({k \in Kinds : \E e \in DOMAIN weights[k].pars : weights[k].pars[e] > 0})

SetCovariance(kind) ==
  \E cov \in CovLists[kind] :
    LET new == ReplacedBlocks(cov)
        version == 1
    IN /\ phase = "ready" /\ Changes < MaxChanges /\ CheckCovList(cov) = "ok"
       /\ conf' = IF kind = "Q" THEN [conf EXCEPT !.opts.process_noise_cov = new]
                                ELSE [conf EXCEPT !.opts.measurement_cov = new]
       /\ LET pars == SetParameters(weights[kind].pars, conf, kind, new, version)
          IN IF GoodBlocks(conf, kind, new) = DOMAIN new
             THEN /\ weights' = [weights EXCEPT ![kind] =
                       [pars |-> pars, cost |-> CostTerms(new), ekf |-> UpdatedFilter(new, version)]]
                  /\ UNCHANGED clean
             ELSE /\ weights' = [weights EXCEPT ![kind].pars = pars]
                  /\ clean' = FALSE
       /\ UNCHANGED <<phase, caller, window, model>>

\* The user sets a parameter of the model, and then marks the linearization as outdated.
SetModelParameter ==
  /\ phase = "ready" /\ Changes < MaxChanges
  /\ params' = params + 1
  /\ UNCHANGED <<phase, caller, conf, window, weights, marked, compiled, dirty, clean>>

SetDirty ==
  /\ phase = "ready" /\ marked < params
  /\ dirty' = TRUE /\ marked' = params
  /\ UNCHANGED <<phase, caller, conf, window, weights, params, compiled, clean>>

Next ==
  \/ OptimizeForInitialValues \/ Create \/ CreateRejected
  \/ StepRejected \/ StepFails \/ Step
  \/ SetCovariance("Q") \/ SetCovariance("R") \/ SetModelParameter \/ SetDirty

Spec == Init /\ [][Next]_vars

---------------------------------------------------------------------------
(***************************************************************************)
(* As long as no call failed, the optimizer is given for every input and   *)
(* every measurement the value of that variable at that sample, whatever   *)
(* order the names came in and however far the window has moved; the cost  *)
(* counts every noise once and every measurement but the repeated one.     *)
(***************************************************************************)
RightValue(row, name, j) == row[j].at = data.times[j] /\ row[j].name = name
RightData ==
  clean /\ data # None =>
    LET n == Len(data.times)
    IN /\ n > 1 /\ data.times = [j \in 1 .. n |-> next_time_index - 1 - n + j]
       /\ \A i \in DOMAIN data.inputs, j \in 1 .. n - 1 : RightValue(data.inputs[i].row, data.inputs[i].var[2], j)
       /\ \A i \in DOMAIN data.meas, j \in 1 .. n - 1 : RightValue(data.meas[i].row, data.meas[i].var, j)
       /\ \A j \in 1 .. n : data.w[j] = 1 /\ data.v[j] = IF j < n THEN 1 ELSE 0

(***************************************************************************)
(* As long as no call failed, the arrival cost describes the sample the    *)
(* window begins with: all entries of the inverse matrix are there and     *)
(* those of the filter's P at that sample, the guess is the estimate at it *)
(* and compared with the start value of the same state, and P came from    *)
(* the sample before, linearized at the estimates, the inputs and the time *)
(* of that one.                                                            *)
(***************************************************************************)
ArrivalCost ==
  clean /\ phase = "ready" =>
    LET first == time_vector[1]
    IN /\ P = first /\ guess = first
       /\ est.x[1] = first /\ est.dx[1] = first /\ est.c[1] = first
       /\ DOMAIN arrival = ToSet(States) \X ToSet(States) /\ \A e \in DOMAIN arrival : arrival[e] = first
       /\ \A pair \in ArrivalTerms : pair[1] = pair[2]
       /\ lin # None => \A at \in {lin.t, lin.x, lin.dx, lin.c, lin.u, lin.P} : at = first - 1

(***************************************************************************)
(* The filter is linearized with a value for each of its inputs, once, and *)
(* the columns taken for the process noises are theirs.                    *)
(***************************************************************************)
FilterColumns ==
  clean /\ lin # None =>
    /\ ToSet(lin.inputs) = ToSet(RealInputs) /\ Len(lin.inputs) = Len(RealInputs)
    /\ \A i \in DOMAIN lin.C : conf.measured[i] = (IF lin.C[i][1] = "x" THEN States ELSE Algebraics)[lin.C[i][2]]
    /\ \A i \in DOMAIN lin.G : lin.G[i] \in DOMAIN AllInputs(conf) /\ AllInputs(conf)[lin.G[i]] = conf.process_noise[i]

(***************************************************************************)
(* Optimizer and filter are given each variable's own values.              *)
(***************************************************************************)
DataInPlace == RightData /\ FilterColumns

(***************************************************************************)
(* Unless a change failed half-way, the cost and the filter weigh the      *)
(* noises with the same covariances: same entries, of the same change,     *)
(* also when a new list groups the names in other blocks.                  *)
(***************************************************************************)
SameWeights ==
  clean /\ phase = "ready" =>
    \A k \in Kinds : weights[k].ekf = [e \in weights[k].cost |-> weights[k].pars[e]]

(***************************************************************************)
(* A linearization uses the parameters as they were when the user marked   *)
(* it as outdated, or newer ones; marks made before the window is full are *)
(* not lost.                                                               *)
(***************************************************************************)
LinearizesFresh == [][lin' # lin => compiled' >= marked]_vars
=============================================================================
