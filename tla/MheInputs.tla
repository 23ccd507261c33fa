----------------------------- MODULE MheInputs ------------------------------
(***************************************************************************)
(* The checks of the moving horizon estimator on the names its caller      *)
(* gives (pyjmi/optimization/mhe/check_mhe_inputs.py).                     *)
(*                                                                         *)
(* A list of (name, value) is the sequence of its names: a value is known  *)
(* by the name it was given under.  A covariance list is a sequence of     *)
(* blocks, the sequences of names that have a covariance matrix together;  *)
(* a name alone is a block of one.                                         *)
(***************************************************************************)
EXTENDS Naturals, Sequences, FiniteSets, SequencesExt

CONSTANTS
  States, Algebraics, RealInputs,   \* model variables by kind, as sequences
  Alias                             \* a function from alias names to names of model variables

ModelVariables == ToSet(States) \cup ToSet(Algebraics) \cup ToSet(RealInputs)

\* Variables have names of their own.
ASSUME ModelAssumption ==
  /\ States \in Seq(STRING) /\ Algebraics \in Seq(STRING) /\ RealInputs \in Seq(STRING)
  /\ IsInjective(States) /\ IsInjective(Algebraics) /\ IsInjective(RealInputs)
  /\ ToSet(States) \cap ToSet(Algebraics) = {}
  /\ (ToSet(States) \cup ToSet(Algebraics)) \cap ToSet(RealInputs) = {}

ASSUME AliasAssumption ==
  /\ DOMAIN Alias \cap ModelVariables = {}
  /\ \A a \in DOMAIN Alias : Alias[a] \in ModelVariables

Known           == ModelVariables \cup DOMAIN Alias
InModel(name)   == name \in Known
ModelName(name) == IF name \in DOMAIN Alias THEN Alias[name] ELSE name

---------------------------------------------------------------------------
\* The names of a list that are in a set, in their order, and those that are not.
Only(list, names) ==
  LET only[i \in 0 .. Len(list)] ==
        IF i = 0 THEN <<>>
        ELSE IF list[i] \in names THEN Append(only[i-1], list[i]) ELSE only[i-1]
  IN only[Len(list)]

Without(list, names) == Only(list, ToSet(list) \ names)

\* The names found, in the order given, with the aliases replaced.
Replaced(list) ==
  LET found == Only(list, Known)
  IN [i \in DOMAIN found |-> ModelName(found[i])]

NotInModel(list) == {n \in ToSet(list) : ~InModel(n)}

Missing(list, modelNames) ==
  IF Len(modelNames) = Len(Replaced(list)) THEN {} ELSE ToSet(modelNames) \ ToSet(Replaced(list))

Duplicates(list) == Cardinality(ToSet(Replaced(list))) < Len(Replaced(list))

\* What check_tuple_list raises, "ok" if nothing.
CheckTupleList(list, modelNames) ==
  CASE Missing(list, modelNames) # {} -> "missing"
    [] Missing(list, modelNames) = {} /\ NotInModel(list) # {} -> "not in model"
    [] Missing(list, modelNames) = {} /\ NotInModel(list) = {} /\ Duplicates(list) -> "duplicate"
    [] OTHER -> "ok"

---------------------------------------------------------------------------
ReplacedBlocks(cov) == [b \in DOMAIN cov |-> Replaced(cov[b])]
CovNames(cov) == FlattenSeq(cov)

CheckCovList(cov) ==
  CASE NotInModel(CovNames(cov)) # {} -> "not in model"
    [] NotInModel(CovNames(cov)) = {} /\ Duplicates(CovNames(cov)) -> "duplicate"
    [] OTHER -> "ok"

(***************************************************************************)
(* check_MHE_opts returns a copy with the aliases of the covariance lists  *)
(* replaced.  Those of the inputs are replaced in the caller's object.     *)
(***************************************************************************)
CheckOptions(o) ==
  LET lists == <<CovNames(o.process_noise_cov), CovNames(o.measurement_cov),
                 CovNames(o.P0_cov), o.input_names>>
      noise == Replaced(CovNames(o.process_noise_cov))
      named == ToSet(Replaced(o.input_names)) \cup ToSet(noise)
  IN [status |->
        CASE \E l \in DOMAIN lists : NotInModel(lists[l]) # {} -> "not in model"
          [] \A l \in DOMAIN lists : NotInModel(lists[l]) = {} ->
               IF \E l \in DOMAIN lists : Duplicates(lists[l]) THEN "duplicate" ELSE "ok",
      opts |-> [o EXCEPT !.process_noise_cov = ReplacedBlocks(@),
                         !.measurement_cov = ReplacedBlocks(@),
                         !.P0_cov = ReplacedBlocks(@)],
      caller |-> [o EXCEPT !.input_names = Replaced(@)],
      process_noise |-> noise,
      measured |-> Replaced(CovNames(o.measurement_cov)),
      undefined |-> Without(RealInputs, named)]
=============================================================================
