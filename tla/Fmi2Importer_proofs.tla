------------------------- MODULE Fmi2Importer_proofs -------------------------
(****************************************************************************)
(* Type correctness of the Model Exchange runtime for every caller, every   *)
(* bound on the iterations and every set of discrete values; then the       *)
(* safety invariants of an importer that keeps to the FMI calling sequence, *)
(* for every set of discrete values, every time range and every bound on    *)
(* the iterations.                                                          *)
(*                                                                          *)
(* IInv is the inductive invariant of the importer; its parts say what      *)
(* holds while a call of jmi_event_iteration runs, too.                     *)
(****************************************************************************)
EXTENDS Fmi2Importer, TLAPS

(********************** the runtime, with every caller **********************)

LEMMA EventTypes ==
  /\ NoTimeEvent \in TimeEvents
  /\ \A e \in TimeEvents : e.time \in Times \cup {NoTime} /\ e.phase \in {EXACT, GREATER}
  /\ FreshInfo \in EventInfos
BY DEF NoTimeEvent, TimeEvents, FreshInfo, EXACT, GREATER, EventInfos

LEMMA InfoTypes ==
  ASSUME NEW conv \in BOOLEAN, NEW svc \in BOOLEAN, NEW next \in Times \cup {NoTime}
  PROVE  /\ [converged |-> conv, svc |-> svc, next |-> next] \in EventInfos
         /\ [needed |-> conv, svc |-> svc, next |-> next] \in CallerInfos
         /\ \A e \in EventInfos :
              /\ e.converged \in BOOLEAN /\ e.svc \in BOOLEAN /\ e.next \in Times \cup {NoTime}
              /\ [e EXCEPT !.next = next] \in EventInfos
              /\ [e EXCEPT !.next = next, !.svc = svc] \in EventInfos
              /\ [e EXCEPT !.converged = conv, !.svc = svc] \in EventInfos
         /\ \A i \in CallerInfos :
              i.next \in Times \cup {NoTime} /\ [i EXCEPT !.needed = conv] \in CallerInfos
BY DEF EventInfos, CallerInfos

LEMMA DiscTypes ==
  ASSUME NEW s \in DiscState, NEW x \in Disc, NEW y \in Disc
  PROVE  /\ s.d \in Disc /\ s.pre \in Disc /\ s.u \in Disc
         /\ [s EXCEPT !.d = x] \in DiscState
         /\ [s EXCEPT !.u = x] \in DiscState
         /\ [s EXCEPT !.d = x, !.pre = y] \in DiscState
         /\ [s EXCEPT !.pre = y, !.d = x] \in DiscState
         /\ \A w \in Disc : [d |-> x, pre |-> y, u |-> w] \in DiscState
BY DEF DiscState

\* Evaluations write discrete values.
LEMMA OutcomeTypes ==
  ASSUME z \in DiscState, NEW frozen \in BOOLEAN, NEW o \in Outcomes(frozen)
  PROVE  o.d \in Disc /\ o.term \in BOOLEAN /\ o.upd \in BOOLEAN
BY DEF Outcomes, DiscState

LEMMA EvaluationTypes ==
  ASSUME TypeOK
  PROVE  \A o \in Outcomes(Frozen) :
           /\ o.d \in Disc /\ o.term \in BOOLEAN /\ o.upd \in BOOLEAN
           /\ [z EXCEPT !.d = o.d] \in DiscState
           /\ [z EXCEPT !.pre = z.d, !.d = o.d] \in DiscState
<1>1. Frozen \in BOOLEAN /\ z \in DiscState
  BY DEF TypeOK, Frozen
<1>2. TAKE o \in Outcomes(Frozen)
<1>3. o.d \in Disc /\ o.term \in BOOLEAN /\ o.upd \in BOOLEAN /\ z.d \in Disc
  BY <1>1, OutcomeTypes DEF DiscState
<1>4. QED BY <1>1, <1>3, DiscTypes

USE DEF jmiVars, timeEventVars, modeVars, epsVars, callVars, dirtyVars, dependentVars,
        evalVars, fmiVars

\* Every variable has its type before the FMU is instantiated.
THEOREM TypeInit == Init => TypeOK
<1> SUFFICES ASSUME Init PROVE TypeOK
  OBVIOUS
<1>1. FlagTypes
  BY DEF Init, FlagTypes
<1>2. TimeTypes
  <2>1. time \in Times /\ stopTime \in Times
    BY TimeAssumption DEF Init, Times
  <2>2. nextTimeEvent \in TimeEvents /\ eventPhase \in {EXACT, GREATER}
    BY EventTypes DEF Init
  <2>3. QED BY <2>1, <2>2 DEF Init, TimeTypes
<1>3. CallTypes
  BY EventTypes, InfoTypes DEF Init, CallTypes, Modes
<1>4. z \in DiscState /\ z_last \in DiscState
  BY DiscAssumption, DiscTypes DEF Init, DiscState
<1>5. QED BY <1>1, <1>2, <1>3, <1>4 DEF TypeOK

LEMMA TypeMeInit ==
  ASSUME TypeOK, NEW ok \in BOOLEAN, MeInit(ok), stopTime' \in Times,
         atTimeEvent' \in BOOLEAN, tmp_events_epsilon' \in {0, 1}
  PROVE  FlagTypes' /\ TimeTypes' /\ z' \in DiscState /\ z_last' \in DiscState
<1>1. FlagTypes'
  BY DEF TypeOK, FlagTypes, MeInit, ClearEventFlags
<1>2. TimeTypes'
  BY TimeAssumption, EventTypes DEF MeInit, TimeTypes, Times, EXACT
<1>3. z' \in DiscState /\ z_last' \in DiscState
  BY DiscAssumption DEF MeInit, DiscState
<1>4. QED BY <1>1, <1>2, <1>3

LEMMA TypeInitialize ==
  ASSUME TypeOK, NEW ok \in BOOLEAN, EnterInitializationMode(ok)
  PROVE  TypeOK'
<1> USE DEF TypeOK
<1>1. CASE InitializeRefused(ok)
  BY <1>1 DEF EnterInitializationMode, InitializeRefused, Return,
              FlagTypes, TimeTypes, CallTypes, Modes
<1>2. CASE InitialEquationsFail(ok)
  <2>1. PICK o \in Outcomes(FALSE) : Flags(o) /\ z' = [z EXCEPT !.d = o.d]
    BY <1>2 DEF InitialEquationsFail
  <2>2. o.d \in Disc /\ o.term \in BOOLEAN /\ o.upd \in BOOLEAN
    BY OutcomeTypes
  <2>3. FlagTypes'
    BY <1>2, <2>1, <2>2 DEF InitialEquationsFail, Flags, FlagTypes, EvalDependent, NeedsDependent
  <2>4. TimeTypes'
    BY <1>2, <1>1 DEF EnterInitializationMode, InitialEquationsFail, TimeTypes
  <2>5. CallTypes'
    BY <1>2 DEF EnterInitializationMode, InitialEquationsFail, Return, CallTypes, Modes
  <2>6. z' \in DiscState /\ z_last' \in DiscState
    BY <1>2, <2>1, <2>2, DiscTypes DEF InitialEquationsFail
  <2>7. QED BY <2>3, <2>4, <2>5, <2>6
<1>3. CASE InitialEquationsSolved(ok)
  <2>1. PICK o \in Outcomes(FALSE) : /\ Flags(o)
                                     /\ z' = [z EXCEPT !.d = o.d, !.pre = o.d]
                                     /\ z_last' = z'
    BY <1>3 DEF InitialEquationsSolved, SaveLast
  <2>2. o.d \in Disc /\ o.term \in BOOLEAN /\ o.upd \in BOOLEAN
    BY OutcomeTypes
  <2>3. FlagTypes'
    BY <1>3, <2>1, <2>2 DEF InitialEquationsSolved, ClearEventFlags, Flags, FlagTypes,
              EvalDependent, NeedsDependent
  <2>4. TimeTypes'
    BY <1>3, EventTypes DEF EnterInitializationMode, InitialEquationsSolved, TimeTypes
  <2>5. CallTypes'
    BY <1>3 DEF EnterInitializationMode, InitialEquationsSolved, Return, CallTypes, Modes
  <2>6. z' \in DiscState /\ z_last' \in DiscState
    BY <2>1, <2>2, DiscTypes
  <2>7. QED BY <2>3, <2>4, <2>5, <2>6
<1>4. QED BY <1>1, <1>2, <1>3 DEF EnterInitializationMode, Initialize

LEMMA TypeLifeCycle ==
  ASSUME TypeOK, LifeCycle
  PROVE  TypeOK'
<1> USE DEF TypeOK
<1>1. CASE Instantiate
  <2>1. CallTypes'
    BY <1>1, EventTypes, InfoTypes DEF Instantiate, MeInit, CallTypes, Modes
  <2>2. stopTime' \in Times
    BY <1>1, TimeAssumption DEF Instantiate, Times
  <2>3. QED BY <1>1, <2>1, <2>2, TypeMeInit DEF Instantiate
<1>2. ASSUME NEW ok \in BOOLEAN, Reset(ok) PROVE TypeOK'
  <2>1. CallTypes'
    BY <1>2 DEF Reset, MeInit, CallTypes, Modes
  <2>2. stopTime' \in Times /\ atTimeEvent' \in BOOLEAN /\ tmp_events_epsilon' \in {0, 1}
    BY <1>2, TimeAssumption DEF Reset, Times, TimeTypes
  <2>3. QED BY <1>2, <2>1, <2>2, TypeMeInit DEF Reset
<1>3. CASE FreeInstance \/ RefusedCall
  <2>1. FlagTypes' /\ TimeTypes' /\ z' \in DiscState /\ z_last' \in DiscState
    BY <1>3 DEF FreeInstance, RefusedCall, FlagTypes, TimeTypes
  <2>2. CallTypes'
    BY <1>3 DEF FreeInstance, RefusedCall, CallTypes, Modes
  <2>3. QED BY <2>1, <2>2
<1>4. CASE ExitInitializationMode \/ EnterEventMode \/ EnterContinuousTimeMode
  <2>1. info' \in CallerInfos
    <3>1. info \in CallerInfos /\ TRUE \in BOOLEAN /\ NoTime \in Times \cup {NoTime}
      BY DEF CallTypes
    <3>2. [info EXCEPT !.needed = TRUE] \in CallerInfos
      BY <3>1, InfoTypes
    <3>3. QED
      BY <1>4, <3>1, <3>2 DEF ExitInitializationMode, EnterEventMode, EnterContinuousTimeMode
  <2>2. PICK from \in Modes, to \in Modes : SwitchMode(from, to)
    BY <1>4 DEF ExitInitializationMode, EnterEventMode, EnterContinuousTimeMode, Modes
  <2>3. FlagTypes' /\ z' \in DiscState /\ z_last' \in DiscState
    BY <2>2 DEF SwitchMode, FlagTypes
  <2>4. TimeTypes'
    BY <1>4, <2>2 DEF ExitInitializationMode, EnterEventMode, EnterContinuousTimeMode,
                      SwitchMode, TimeTypes
  <2>5. CallTypes'
    BY <2>1, <2>2 DEF SwitchMode, CallTypes
  <2>6. QED BY <2>3, <2>4, <2>5
<1>5. ASSUME NEW ok \in BOOLEAN, EnterInitializationMode(ok) PROVE TypeOK'
  BY <1>5, TypeInitialize
<1>6. ASSUME NEW ok \in BOOLEAN, Terminate(ok) PROVE TypeOK'
  <2>0. /\ model_terminate' \in BOOLEAN /\ updated_states' \in BOOLEAN
        /\ unreported' \in BOOLEAN /\ recomputeVariables' \in BOOLEAN /\ stale' \in BOOLEAN
    BY <1>6 DEF Terminate, UpdateAndTerminate, Flags, FlagTypes
  <2>1. FlagTypes'
    BY <1>6, <2>0 DEF Terminate, UpdateAndTerminate, FlagTypes
  <2>2. TimeTypes' /\ CallTypes'
    BY <1>6 DEF Terminate, UpdateAndTerminate, Return, TimeTypes, CallTypes
  <2>3. z' \in DiscState /\ z_last' \in DiscState
    <3>1. \A o \in Outcomes(Frozen) : [z EXCEPT !.d = o.d] \in DiscState
      BY EvaluationTypes
    <3>2. QED BY <1>6, <3>1 DEF Terminate, UpdateAndTerminate
  <2>4. QED BY <2>1, <2>2, <2>3
<1>7. ASSUME NEW ok \in BOOLEAN, NEW t \in Times, NEW stop \in Times,
             SetupExperiment(t, stop, ok)
      PROVE TypeOK'
  BY <1>7 DEF SetupExperiment, SetupTolerances, SetTimeCall, SetTimeImpl, Return,
              FlagTypes, TimeTypes, CallTypes
<1>8. QED BY <1>1, <1>2, <1>3, <1>4, <1>5, <1>6, <1>7 DEF LifeCycle

LEMMA TypeValues ==
  ASSUME TypeOK, Values
  PROVE  TypeOK'
<1> USE DEF TypeOK
<1>1. ASSUME NEW ok \in BOOLEAN, NEW t \in Times, CallSetTime(t, ok) PROVE TypeOK'
  BY <1>1 DEF CallSetTime, Value, SetTimeCall, SetTimeImpl, Return,
              FlagTypes, TimeTypes, CallTypes
<1>2. ASSUME NEW ok \in BOOLEAN, NEW changed \in BOOLEAN, CallSetContinuous(changed, ok)
      PROVE TypeOK'
  BY <1>2 DEF CallSetContinuous, Value, SetContinuous, Return, FlagTypes, TimeTypes, CallTypes
<1>3. ASSUME NEW ok \in BOOLEAN, NEW v \in Disc, CallSetDiscreteInput(v, ok) PROVE TypeOK'
  <2>1. z' \in DiscState
    BY <1>3, DiscTypes DEF CallSetDiscreteInput, Value, SetDiscreteInput
  <2>2. QED BY <1>3, <2>1 DEF CallSetDiscreteInput, Value, SetDiscreteInput, Return,
                              FlagTypes, TimeTypes, CallTypes
<1>4. ASSUME NEW ok \in BOOLEAN, CallSetParameter(ok) PROVE TypeOK'
  BY <1>4 DEF CallSetParameter, Value, SetParameter, SetSince, Return, FlagTypes, TimeTypes, CallTypes
<1>5. ASSUME NEW ok \in BOOLEAN, CallGetVariables(ok) PROVE TypeOK'
  <2>0. /\ model_terminate' \in BOOLEAN /\ updated_states' \in BOOLEAN
        /\ unreported' \in BOOLEAN /\ recomputeVariables' \in BOOLEAN /\ stale' \in BOOLEAN
    BY <1>5 DEF CallGetVariables, Value, GetVariables, Flags, FlagTypes
  <2>1. FlagTypes'
    BY <1>5, <2>0 DEF CallGetVariables, Value, GetVariables, FlagTypes, EvalDependent, NeedsDependent
  <2>2. TimeTypes' /\ CallTypes'
    BY <1>5 DEF CallGetVariables, Value, GetVariables, Return, TimeTypes, CallTypes
  <2>3. z' \in DiscState /\ z_last' \in DiscState
    <3>1. \A o \in Outcomes(Frozen) : [z EXCEPT !.d = o.d] \in DiscState
      BY EvaluationTypes
    <3>2. QED BY <1>5, <3>1 DEF CallGetVariables, Value, GetVariables
  <2>4. QED BY <2>1, <2>2, <2>3
<1>6. ASSUME NEW ok \in BOOLEAN, CallGetEvaluated(ok) PROVE TypeOK'
  <2>0. /\ model_terminate' \in BOOLEAN /\ updated_states' \in BOOLEAN
        /\ unreported' \in BOOLEAN /\ recomputeVariables' \in BOOLEAN /\ stale' \in BOOLEAN
    BY <1>6 DEF CallGetEvaluated, Value, GetEvaluated, Flags, FlagTypes
  <2>1. FlagTypes'
    BY <1>6, <2>0 DEF CallGetEvaluated, Value, GetEvaluated, FlagTypes
  <2>2. TimeTypes' /\ CallTypes'
    BY <1>6 DEF CallGetEvaluated, Value, GetEvaluated, Return, TimeTypes, CallTypes
  <2>3. z' \in DiscState /\ z_last' \in DiscState
    <3>1. \A o \in Outcomes(Frozen) :
            /\ [z EXCEPT !.d = o.d] \in DiscState
            /\ [z_last EXCEPT !.d = IF Frozen THEN z_last.d ELSE o.d] \in DiscState
      BY EvaluationTypes, DiscTypes
    <3>2. QED BY <1>6, <3>1 DEF CallGetEvaluated, Value, GetEvaluated
  <2>4. QED BY <2>1, <2>2, <2>3
<1>7. ASSUME NEW ok \in BOOLEAN, CallCompletedIntegratorStep(ok) PROVE TypeOK'
  BY <1>7 DEF CallCompletedIntegratorStep, Value, CompletedIntegratorStep, SaveLast, Return,
              FlagTypes, TimeTypes, CallTypes
<1>8. QED BY <1>1, <1>2, <1>3, <1>4, <1>5, <1>6, <1>7 DEF Values

\* What the caller reads back when a call of jmi_event_iteration returns.
LEMMA TypeReturn ==
  ASSUME TypeOK, NEW ok \in BOOLEAN, ReturnEventInfo(ok),
         call' \in {"idle", "start", "iterate", "final"}, nbr_event_iter' \in Nat,
         event_info' \in EventInfos, saved_svc' \in BOOLEAN
  PROVE  CallTypes' /\ stopTime' \in Times
<1>1. info' \in CallerInfos
  BY InfoTypes DEF ReturnEventInfo, TypeOK, CallTypes
<1>2. QED BY <1>1 DEF ReturnEventInfo, Return, TypeOK, CallTypes, TimeTypes

LEMMA TypeStartEvent ==
  ASSUME TypeOK, NEW ok \in BOOLEAN, StartEvent(ok)
  PROVE  TypeOK'
<1> USE DEF TypeOK
<1>1. PICK o \in Outcomes(Frozen) : /\ model_terminate' = o.term
                                    /\ updated_states' = (updated_states \/ o.upd)
                                    /\ unreported' = (unreported \/ o.upd)
                                    /\ z' = [z EXCEPT !.d = o.d]
  BY DEF StartEvent, IterationStartFails, IterationStart
<1>2. o.d \in Disc /\ o.term \in BOOLEAN /\ o.upd \in BOOLEAN
  BY OutcomeTypes DEF Frozen, FlagTypes
<1>3. FlagTypes'
  BY <1>1, <1>2 DEF StartEvent, IterationStartFails, IterationStart, FlagTypes
<1>4. CallTypes' /\ stopTime' \in Times
  BY TypeReturn, EventTypes DEF StartEvent, IterationStartFails, IterationStart, CallTypes
<1>5. TimeTypes'
  BY <1>4, EventTypes DEF StartEvent, IterationStartFails, IterationStart, TimeTypes
<1>6. z' \in DiscState /\ z_last' \in DiscState
  BY <1>1, <1>2, DiscTypes DEF StartEvent, IterationStartFails, IterationStart
<1>7. QED BY <1>3, <1>4, <1>5, <1>6

LEMMA TypeIterateEvent ==
  ASSUME TypeOK, NEW ok \in BOOLEAN, NEW reinit \in {"no", "same", "changed"},
         IterateEvent(reinit, ok)
  PROVE  TypeOK'
<1> USE DEF TypeOK
<1>1. CASE IterationFails
  <2>1. PICK o \in Outcomes(Frozen) : Flags(o) /\ z' = [z EXCEPT !.pre = z.d, !.d = o.d]
    BY <1>1 DEF IterationFails
  <2>2. o.d \in Disc /\ o.term \in BOOLEAN /\ o.upd \in BOOLEAN
    BY OutcomeTypes DEF Frozen, FlagTypes
  <2>3. FlagTypes'
    BY <1>1, <2>1, <2>2 DEF IterationFails, Flags, FlagTypes
  <2>4. CallTypes' /\ stopTime' \in Times
    <3>1. nbr_event_iter' \in Nat
      BY <1>1 DEF IterationFails, CallTypes
    <3>2. QED BY <1>1, <3>1, TypeReturn DEF IterateEvent, IterationFails, CallTypes
  <2>5. TimeTypes'
    BY <1>1, <2>4 DEF IterationFails, TimeTypes
  <2>6. z' \in DiscState /\ z_last' \in DiscState
    BY <1>1, <2>1, <2>2, DiscTypes DEF IterationFails
  <2>7. QED BY <2>3, <2>4, <2>5, <2>6
<1>2. CASE Iteration(reinit, ok)
  <2>1. z' \in DiscState /\ z_last' \in DiscState
    BY <1>2, EvaluationTypes DEF Iteration
  <2>2. FlagTypes'
    BY <1>2, EvaluationTypes DEF Iteration, FlagTypes
  <2>3. /\ call' \in {"idle", "start", "iterate", "final"} /\ saved_svc' \in BOOLEAN
        /\ event_info' \in EventInfos
    <3>1. PICK conv \in BOOLEAN, svc \in BOOLEAN :
            event_info' = [event_info EXCEPT !.converged = conv, !.svc = svc]
      BY <1>2 DEF Iteration
    <3>2. event_info' \in EventInfos
      BY <3>1, InfoTypes DEF CallTypes
    <3>3. QED BY <1>2, <3>2 DEF Iteration
  <2>4. CallTypes' /\ stopTime' \in Times
    <3>1. nbr_event_iter' \in Nat
      BY <1>2 DEF Iteration, CallTypes
    <3>2. QED BY <2>3, <3>1, TypeReturn DEF IterateEvent
  <2>5. TimeTypes'
    BY <1>2, <2>4 DEF Iteration, TimeTypes
  <2>6. QED BY <2>1, <2>2, <2>4, <2>5
<1>3. QED BY <1>1, <1>2 DEF IterateEvent

LEMMA TypeFinishEvent ==
  ASSUME TypeOK, NEW ok \in BOOLEAN, FinishEvent(ok)
  PROVE  TypeOK'
<1> USE DEF TypeOK
<1>1. PICK o \in FinalOutcomes : /\ model_terminate' = (model_terminate \/ o.term)
                                 /\ z' = [z EXCEPT !.d = o.d]
  BY DEF FinishEvent, FinalStepFails, FinalStep, LeaveEvent
<1>2. o.d \in Disc /\ o.term \in BOOLEAN
  BY DEF FinalOutcomes
<1>3. z' \in DiscState
  BY <1>1, <1>2, DiscTypes
<1>4. z_last' \in DiscState
  BY <1>3 DEF FinishEvent, FinalStepFails, FinalStep, SaveLast
<1>5. /\ call' \in {"idle", "start"} /\ saved_svc' \in BOOLEAN
      /\ event_info' \in EventInfos
      /\ nextTimeEvent' \in TimeEvents
      /\ nbr_consec_time_events' \in Nat
  <2>1. CASE FinalStepFails
    BY <2>1, EventTypes DEF FinalStepFails, Upcoming, CallTypes, TimeTypes
  <2>2. CASE FinalStep(ok)
    <3>1. nextTimeEvent' \in TimeEvents /\ nextTimeEvent'.time \in Times \cup {NoTime}
      BY <2>2, EventTypes DEF FinalStep, Upcoming
    <3>2. event_info' \in EventInfos
      <4>1. PICK svc \in BOOLEAN :
              \/ event_info' = [event_info EXCEPT !.next = nextTimeEvent'.time]
              \/ event_info' = [event_info EXCEPT !.next = nextTimeEvent'.time, !.svc = svc]
        BY <2>2, <3>1 DEF FinalStep, ReportedStates
      <4>2. /\ [event_info EXCEPT !.next = nextTimeEvent'.time] \in EventInfos
            /\ [event_info EXCEPT !.next = nextTimeEvent'.time, !.svc = svc] \in EventInfos
        BY <3>1, InfoTypes, svc \in BOOLEAN DEF CallTypes
      <4>3. QED BY <4>1, <4>2
    <3>3. nbr_consec_time_events' \in Nat
      BY <2>2 DEF FinalStep, OneMorePhase, TimeTypes
    <3>4. call' \in {"idle", "start"} /\ saved_svc' \in BOOLEAN
      BY <2>2 DEF FinalStep, CallTypes
    <3>5. QED BY <3>1, <3>2, <3>3, <3>4
  <2>3. QED BY <2>1, <2>2 DEF FinishEvent
<1>6. FlagTypes'
  <2>1. CASE FinalStepFails
    BY <1>1, <1>2, <2>1 DEF FinalStepFails, LeaveEvent, FlagTypes
  <2>2. CASE FinalStep(ok)
    BY <1>1, <1>2, <2>2, <1>5, InfoTypes DEF FinalStep, LeaveEvent, FlagTypes
  <2>3. QED BY <2>1, <2>2 DEF FinishEvent
<1>7. CallTypes' /\ stopTime' \in Times
  BY <1>5, TypeReturn DEF FinishEvent, FinalStepFails, FinalStep, LeaveEvent
<1>8. TimeTypes'
  BY <1>5, <1>7 DEF FinishEvent, FinalStepFails, FinalStep, LeaveEvent, RestoredEpsilon, TimeTypes
<1>9. QED BY <1>3, <1>4, <1>6, <1>7, <1>8

\* No function of the interface, whenever it is called, gives a variable a value
\* of another type.
THEOREM TypeStep ==
  ASSUME TypeOK, [Next]_vars
  PROVE  TypeOK'
<1> USE DEF TypeOK
<1>1. ASSUME NEW needed \in BOOLEAN, NEW svc \in BOOLEAN,
             NEW next \in {info.next, NoTime}, NewDiscreteState(needed, svc, next)
      PROVE TypeOK'
  <2>1. FlagTypes' /\ TimeTypes' /\ z' \in DiscState /\ z_last' \in DiscState
    BY <1>1 DEF NewDiscreteState, EnterEventIteration, FlagTypes, TimeTypes
  <2>2. event_info' \in EventInfos /\ info' \in CallerInfos
    BY <1>1, InfoTypes DEF NewDiscreteState, EnterEventIteration, CallTypes
  <2>3. CallTypes'
    BY <1>1, <2>2 DEF NewDiscreteState, EnterEventIteration, CallTypes
  <2>4. QED BY <2>1, <2>3
<1>2. CASE UNCHANGED vars
  BY <1>2 DEF vars, FlagTypes, TimeTypes, CallTypes
<1>3. CASE EventStep
  BY <1>3, TypeStartEvent, TypeIterateEvent, TypeFinishEvent DEF EventStep
<1>4. QED BY <1>1, <1>2, <1>3, TypeLifeCycle, TypeValues DEF Next

\* Whatever is called, in whatever order, every variable keeps its type.
THEOREM TypeCorrect == Spec => []TypeOK
<1>1. Init => TypeOK
  BY TypeInit
<1>2. TypeOK /\ [Next]_vars => TypeOK'
  BY TypeStep
<1>3. QED BY <1>1, <1>2, PTL DEF Spec

-----------------------------------------------------------------------------
LEMMA FreshLifeCycle ==
  ASSUME TypeOK, CacheFresh, LifeCycle
  PROVE  CacheFresh'
<1> USE DEF TypeOK, CacheFresh
<1>1. CASE Instantiate
  BY <1>1 DEF Instantiate, MeInit
<1>2. ASSUME NEW ok \in BOOLEAN, Reset(ok) PROVE CacheFresh'
  BY <1>2 DEF Reset, MeInit
<1>3. ASSUME NEW ok \in BOOLEAN, EnterInitializationMode(ok) PROVE CacheFresh'
  BY <1>3 DEF EnterInitializationMode, Return, Called, Initialize, InitializeRefused,
              InitialEquationsFail, InitialEquationsSolved, dependentVars
<1>4. ASSUME NEW ok \in BOOLEAN, Terminate(ok) PROVE CacheFresh'
  BY <1>4 DEF Terminate, UpdateAndTerminate, Return, Called
<1>5. ASSUME NEW ok \in BOOLEAN, NEW t \in Times, NEW stop \in Times, SetupExperiment(t, stop, ok)
      PROVE CacheFresh'
  BY <1>5 DEF SetupExperiment, SetTimeCall, SetTimeImpl, SetupTolerances, Return, Called
<1>6. CASE FreeInstance \/ RefusedCall
  BY <1>6 DEF FreeInstance, RefusedCall
<1>7. CASE ExitInitializationMode \/ EnterEventMode \/ EnterContinuousTimeMode
  BY <1>7 DEF ExitInitializationMode, EnterEventMode, EnterContinuousTimeMode, SwitchMode
<1>8. QED BY <1>1, <1>2, <1>3, <1>4, <1>5, <1>6, <1>7 DEF LifeCycle

\* Every setter that changes what the equations see also marks the cache.
LEMMA FreshValues ==
  ASSUME TypeOK, CacheFresh, Values
  PROVE  CacheFresh'
<1> USE DEF TypeOK, CacheFresh, Value, Return, Called
<1>1. ASSUME NEW ok \in BOOLEAN, NEW t \in Times, CallSetTime(t, ok) PROVE CacheFresh'
  BY <1>1 DEF CallSetTime, SetTimeCall, SetTimeImpl
<1>2. ASSUME NEW ok \in BOOLEAN, NEW changed \in BOOLEAN, CallSetContinuous(changed, ok)
      PROVE CacheFresh'
  BY <1>2 DEF CallSetContinuous, SetContinuous
<1>3. ASSUME NEW ok \in BOOLEAN, NEW v \in Disc, CallSetDiscreteInput(v, ok)
      PROVE CacheFresh'
  BY <1>3 DEF CallSetDiscreteInput, SetDiscreteInput
<1>4. ASSUME NEW ok \in BOOLEAN, CallSetParameter(ok) PROVE CacheFresh'
  BY <1>4 DEF CallSetParameter, SetParameter
<1>5. ASSUME NEW ok \in BOOLEAN, CallGetVariables(ok) PROVE CacheFresh'
  BY <1>5 DEF CallGetVariables, GetVariables
<1>6. ASSUME NEW ok \in BOOLEAN, CallGetEvaluated(ok) PROVE CacheFresh'
  BY <1>6 DEF CallGetEvaluated, GetEvaluated
<1>7. ASSUME NEW ok \in BOOLEAN, CallCompletedIntegratorStep(ok) PROVE CacheFresh'
  BY <1>7 DEF CallCompletedIntegratorStep, CompletedIntegratorStep
<1>8. QED BY <1>1, <1>2, <1>3, <1>4, <1>5, <1>6, <1>7 DEF Values

LEMMA FreshEventStep ==
  ASSUME TypeOK, CacheFresh, EventStep
  PROVE  CacheFresh'
<1> USE DEF TypeOK, CacheFresh, ReturnEventInfo, Return
<1>1. ASSUME NEW ok \in BOOLEAN, StartEvent(ok) PROVE CacheFresh'
  BY <1>1 DEF StartEvent, IterationStartFails, IterationStart
<1>2. ASSUME NEW ok \in BOOLEAN, NEW reinit \in {"no", "same", "changed"},
             IterateEvent(reinit, ok)
      PROVE CacheFresh'
  <2>1. nbr_event_iter' = nbr_event_iter + 1
    BY <1>2 DEF IterateEvent, IterationFails, Iteration
  <2>2. nbr_event_iter' # 0
    BY <2>1 DEF CallTypes
  <2>3. QED BY <2>2
<1>3. ASSUME NEW ok \in BOOLEAN, FinishEvent(ok) PROVE CacheFresh'
  <2>1. CASE FinalStep(ok)
    BY <2>1 DEF FinalStep
  <2>2. CASE ~ok
    BY <1>3, <2>2 DEF FinishEvent
  <2>3. QED BY <1>3, <2>1, <2>2 DEF FinishEvent
<1>4. QED BY <1>1, <1>2, <1>3 DEF EventStep

\* An outdated dependent parameter keeps its mark, and only a fresh instance or a
\* parameter set before the initialization outdates one that way.
LEMMA DependentsLifeCycle ==
  ASSUME TypeOK, DependentsMarked, LifeCycle
  PROVE  DependentsMarked'
<1> USE DEF DependentsMarked
<1>1. CASE Instantiate \/ \E ok \in BOOLEAN : Reset(ok)
  BY <1>1 DEF Instantiate, Reset, MeInit
<1>2. ASSUME NEW ok \in BOOLEAN, EnterInitializationMode(ok) PROVE DependentsMarked'
  <2>1. CASE InitializeRefused(ok)
    BY <2>1 DEF InitializeRefused
  <2>2. CASE InitialEquationsFail(ok)
    BY <2>2 DEF InitialEquationsFail, EvalDependent, NeedsDependent
  <2>3. CASE InitialEquationsSolved(ok)
    BY <2>3 DEF InitialEquationsSolved, EvalDependent, NeedsDependent
  <2>4. QED BY <1>2, <2>1, <2>2, <2>3 DEF EnterInitializationMode, Initialize
<1>3. ASSUME NEW ok \in BOOLEAN, Terminate(ok) PROVE DependentsMarked'
  BY <1>3 DEF Terminate, UpdateAndTerminate
<1>4. ASSUME NEW ok \in BOOLEAN, NEW t \in Times, NEW stop \in Times, SetupExperiment(t, stop, ok)
      PROVE DependentsMarked'
  BY <1>4 DEF SetupExperiment
<1>5. CASE FreeInstance \/ RefusedCall
  BY <1>5 DEF FreeInstance, RefusedCall
<1>6. CASE ExitInitializationMode \/ EnterEventMode \/ EnterContinuousTimeMode
  BY <1>6 DEF ExitInitializationMode, EnterEventMode, EnterContinuousTimeMode, SwitchMode
<1>7. QED BY <1>1, <1>2, <1>3, <1>4, <1>5, <1>6 DEF LifeCycle

LEMMA DependentsValues ==
  ASSUME TypeOK, DependentsMarked, Values
  PROVE  DependentsMarked'
<1> USE DEF DependentsMarked, Value
<1>1. ASSUME NEW ok \in BOOLEAN, NEW t \in Times, CallSetTime(t, ok) PROVE DependentsMarked'
  BY <1>1 DEF CallSetTime
<1>2. ASSUME NEW ok \in BOOLEAN, NEW changed \in BOOLEAN, CallSetContinuous(changed, ok)
      PROVE DependentsMarked'
  BY <1>2 DEF CallSetContinuous, SetContinuous
<1>3. ASSUME NEW ok \in BOOLEAN, NEW v \in Disc, CallSetDiscreteInput(v, ok)
      PROVE DependentsMarked'
  BY <1>3 DEF CallSetDiscreteInput, SetDiscreteInput
<1>4. ASSUME NEW ok \in BOOLEAN, CallSetParameter(ok) PROVE DependentsMarked'
  BY <1>4 DEF CallSetParameter, SetParameter, SetSince
<1>5. ASSUME NEW ok \in BOOLEAN, CallGetVariables(ok) PROVE DependentsMarked'
  <2>1. UNCHANGED dependentVars \/ EvalDependent
    BY <1>5 DEF CallGetVariables, GetVariables
  <2>2. is_initialized' = is_initialized
    BY <1>5 DEF CallGetVariables, GetVariables
  <2>3. QED BY <2>1, <2>2 DEF EvalDependent, NeedsDependent, TypeOK, FlagTypes
<1>6. ASSUME NEW ok \in BOOLEAN, CallGetEvaluated(ok) PROVE DependentsMarked'
  BY <1>6 DEF CallGetEvaluated, GetEvaluated
<1>7. ASSUME NEW ok \in BOOLEAN, CallCompletedIntegratorStep(ok) PROVE DependentsMarked'
  BY <1>7 DEF CallCompletedIntegratorStep, CompletedIntegratorStep
<1>8. QED BY <1>1, <1>2, <1>3, <1>4, <1>5, <1>6, <1>7 DEF Values

LEMMA DependentsEventStep ==
  ASSUME DependentsMarked, EventStep
  PROVE  DependentsMarked'
<1>1. UNCHANGED << recompute_init_dependent, dependents, is_initialized >>
  BY DEF EventStep, StartEvent, IterateEvent, FinishEvent, IterationStartFails, IterationStart,
         IterationFails, Iteration, FinalStepFails, FinalStep, LeaveEvent
<1>2. QED BY <1>1 DEF DependentsMarked

\* No caller, in whatever order it calls, is served cached variables computed
\* from another time, state, input or independent parameter, until a call fails;
\* and no dependent parameter is outdated without its mark, failures or not.
THEOREM FreshCorrect == Spec => []FreshUnlessMarked
<1>1. Init => FreshUnlessMarked
  BY DEF Init, FreshUnlessMarked, CacheFresh, DependentsMarked
<1>2. TypeOK /\ FreshUnlessMarked /\ [Next]_vars => FreshUnlessMarked'
  <2> USE DEF FreshUnlessMarked
  <2>1. ASSUME NEW needed \in BOOLEAN, NEW svc \in BOOLEAN,
               NEW next \in {info.next, NoTime}, NewDiscreteState(needed, svc, next),
               CacheFresh, DependentsMarked
        PROVE CacheFresh' /\ DependentsMarked'
    BY <2>1 DEF NewDiscreteState, EnterEventIteration, CacheFresh, DependentsMarked
  <2>2. CASE UNCHANGED vars
    BY <2>2 DEF vars, CacheFresh, DependentsMarked
  <2>3. ASSUME TypeOK, CacheFresh, DependentsMarked, LifeCycle \/ Values \/ EventStep
        PROVE  CacheFresh' /\ DependentsMarked'
    BY <2>3, FreshLifeCycle, FreshValues, FreshEventStep,
       DependentsLifeCycle, DependentsValues, DependentsEventStep
  <2>4. QED BY <2>1, <2>2, <2>3 DEF Next
<1>3. QED BY <1>1, <1>2, TypeCorrect, PTL DEF Spec

(******************************* the importer *******************************)

\* Only fmi2_new_discrete_state in event mode is ever under way.
RunningInv ==
  call # "idle" => Live /\ is_initialized /\ fmu_mode = "eventMode" /\ info.needed

ModeInv ==
  ~failed =>
    /\ fmu_mode \in {"initializationMode", "eventMode", "continuousTimeMode"} => is_initialized
    /\ fmu_mode = "instantiatedMode" => ~is_initialized
    /\ fmu_mode \in {"instantiatedMode", "initializationMode"} => nbr_event_iter = 0

FlagsInv ==
  ~failed =>
    /\ ~atInitial
    /\ call = "start" => nbr_event_iter = 0 /\ ~atEvent
    /\ call \in {"iterate", "final"} => atEvent /\ ~save_restore_solver_state_mode
    /\ call = "idle" => /\ atEvent <=> nbr_event_iter > 0
                        /\ is_initialized =>
                             (save_restore_solver_state_mode <=> nbr_event_iter = 0)

\* A cleared epsilon can be put back.
EpsilonInv ==
  ~failed => /\ is_initialized /\ events_epsilon = 0 => tmp_events_epsilon = 1
             /\ ~is_initialized => events_epsilon = 1

\* A state change is kept somewhere until it is reported.
ReportInv ==
  Live /\ fmu_mode # "none" /\ unreported =>
    \/ updated_states
    \/ call # "idle" /\ saved_svc
    \/ call \in {"iterate", "final"} /\ event_info.svc
    \/ call = "idle" /\ fmu_mode = "eventMode" /\ nbr_event_iter > 0 /\ info.svc

\* What a completed event iteration leaves, until the next event.
Settled ==
  /\ nbr_event_iter = 0
  /\ events_epsilon = 1
  /\ z_last.d = z.d /\ z_last.pre = z.pre
  /\ ~unreported
  /\ info.next = nextTimeEvent.time /\ time <= nextTimeEvent.time

SettledInv ==
  Live /\ call = "idle" =>
    /\ fmu_mode = "continuousTimeMode" => Settled
    /\ fmu_mode = "eventMode" /\ ~info.needed => Settled

IInv == TypeOK /\ RunningInv /\ ModeInv /\ FlagsInv /\ EpsilonInv /\ ReportInv /\ SettledInv

USE DEF jmiVars, timeEventVars, modeVars, epsVars, callVars, dirtyVars, dependentVars,
        evalVars, fmiVars

\* Before the FMU is instantiated the inductive invariant holds.
THEOREM ImporterInit == Init => IInv
BY TypeInit DEF Init, IInv, RunningInv, ModeInv, FlagsInv, EpsilonInv, ReportInv,
                SettledInv, Live

LEMMA InstantiateStep ==
  ASSUME IInv, Instantiate
  PROVE  RunningInv' /\ ModeInv' /\ FlagsInv' /\ EpsilonInv' /\ ReportInv' /\ SettledInv'
<1> USE DEF IInv, TypeOK, Live
<1>1. RunningInv'
  BY DEF Instantiate, MeInit, ClearEventFlags, RunningInv, CallTypes
<1>2. ModeInv'
  BY DEF Instantiate, MeInit, ClearEventFlags, ModeInv, CallTypes
<1>3. FlagsInv'
  BY DEF Instantiate, MeInit, ClearEventFlags, FlagsInv, CallTypes, RunningInv
<1>4. EpsilonInv'
  BY DEF Instantiate, MeInit, ClearEventFlags, EpsilonInv, CallTypes
<1>5. ReportInv'
  BY DEF Instantiate, MeInit, ClearEventFlags, ReportInv, CallTypes
<1>6. SettledInv'
  BY DEF Instantiate, MeInit, ClearEventFlags, SettledInv, Settled, CallTypes
<1>7. QED BY <1>1, <1>2, <1>3, <1>4, <1>5, <1>6

LEMMA ResetStep ==
  ASSUME IInv, NEW ok \in BOOLEAN, Reset(ok)
  PROVE  RunningInv' /\ ModeInv' /\ FlagsInv' /\ EpsilonInv' /\ ReportInv' /\ SettledInv'
<1> USE DEF IInv, TypeOK, Live
<1>1. RunningInv'
  BY DEF Reset, Called, MeInit, ClearEventFlags, RunningInv, CallTypes
<1>2. ModeInv'
  BY DEF Reset, Called, MeInit, ClearEventFlags, ModeInv, CallTypes
<1>3. FlagsInv'
  BY DEF Reset, Called, MeInit, ClearEventFlags, FlagsInv, CallTypes
<1>4. EpsilonInv'
  BY DEF Reset, Called, MeInit, ClearEventFlags, EpsilonInv, CallTypes
<1>5. ReportInv'
  BY DEF Reset, Called, MeInit, ClearEventFlags, ReportInv, CallTypes
<1>6. SettledInv'
  BY DEF Reset, Called, MeInit, ClearEventFlags, SettledInv, Settled, CallTypes
<1>7. QED BY <1>1, <1>2, <1>3, <1>4, <1>5, <1>6

LEMMA FreeStep ==
  ASSUME IInv, FreeInstance
  PROVE  RunningInv' /\ ModeInv' /\ FlagsInv' /\ EpsilonInv' /\ ReportInv' /\ SettledInv'
<1> USE DEF IInv, TypeOK, Live
<1>1. RunningInv'
  BY DEF FreeInstance, Called, RunningInv, CallTypes
<1>2. ModeInv'
  BY DEF FreeInstance, Called, ModeInv, CallTypes
<1>3. FlagsInv'
  BY DEF FreeInstance, Called, FlagsInv, CallTypes
<1>4. EpsilonInv'
  BY DEF FreeInstance, Called, EpsilonInv, CallTypes
<1>5. ReportInv'
  BY DEF FreeInstance, Called, ReportInv, CallTypes
<1>6. SettledInv'
  BY DEF FreeInstance, Called, SettledInv, Settled, CallTypes
<1>7. QED BY <1>1, <1>2, <1>3, <1>4, <1>5, <1>6

LEMMA ExitInitializationStep ==
  ASSUME IInv, Live, ExitInitializationMode
  PROVE  RunningInv' /\ ModeInv' /\ FlagsInv' /\ EpsilonInv' /\ ReportInv' /\ SettledInv'
<1> USE DEF IInv, TypeOK, Live
<1>1. RunningInv'
  BY DEF ExitInitializationMode, SwitchMode, Called, RunningInv, CallTypes
<1>2. ModeInv'
  BY DEF ExitInitializationMode, SwitchMode, Called, ModeInv, CallTypes
<1>3. FlagsInv'
  BY DEF ExitInitializationMode, SwitchMode, Called, FlagsInv, CallTypes
<1>4. EpsilonInv'
  BY DEF ExitInitializationMode, SwitchMode, Called, EpsilonInv, CallTypes
<1>5. ReportInv'
  BY DEF ExitInitializationMode, SwitchMode, Called, ReportInv, CallTypes
<1>6. SettledInv'
  BY DEF ExitInitializationMode, SwitchMode, Called, SettledInv, Settled, CallTypes
<1>7. QED BY <1>1, <1>2, <1>3, <1>4, <1>5, <1>6

LEMMA EnterEventStep ==
  ASSUME IInv, Live, EnterEventMode
  PROVE  RunningInv' /\ ModeInv' /\ FlagsInv' /\ EpsilonInv' /\ ReportInv' /\ SettledInv'
<1> USE DEF IInv, TypeOK, Live
<1>1. RunningInv'
  BY DEF EnterEventMode, SwitchMode, Called, RunningInv, CallTypes
<1>2. ModeInv'
  BY DEF EnterEventMode, SwitchMode, Called, ModeInv, CallTypes
<1>3. FlagsInv'
  BY DEF EnterEventMode, SwitchMode, Called, FlagsInv, CallTypes
<1>4. EpsilonInv'
  BY DEF EnterEventMode, SwitchMode, Called, EpsilonInv, CallTypes
<1>5. ReportInv'
  BY DEF EnterEventMode, SwitchMode, Called, ReportInv, CallTypes
<1>6. SettledInv'
  BY DEF EnterEventMode, SwitchMode, Called, SettledInv, Settled, CallTypes
<1>7. QED BY <1>1, <1>2, <1>3, <1>4, <1>5, <1>6

LEMMA EnterContinuousStep ==
  ASSUME IInv, Live, ~info.needed, EnterContinuousTimeMode
  PROVE  RunningInv' /\ ModeInv' /\ FlagsInv' /\ EpsilonInv' /\ ReportInv' /\ SettledInv'
<1> USE DEF IInv, TypeOK, Live
<1>1. RunningInv'
  BY DEF EnterContinuousTimeMode, SwitchMode, Called, RunningInv, CallTypes
<1>2. ModeInv'
  BY DEF EnterContinuousTimeMode, SwitchMode, Called, ModeInv, CallTypes
<1>3. FlagsInv'
  BY DEF EnterContinuousTimeMode, SwitchMode, Called, FlagsInv, CallTypes
<1>4. EpsilonInv'
  BY DEF EnterContinuousTimeMode, SwitchMode, Called, EpsilonInv, CallTypes
<1>5. ReportInv'
  BY DEF EnterContinuousTimeMode, SwitchMode, Called, ReportInv, CallTypes, SettledInv,
         Settled
<1>6. SettledInv'
  BY DEF EnterContinuousTimeMode, SwitchMode, Called, SettledInv, Settled, CallTypes
<1>7. QED BY <1>1, <1>2, <1>3, <1>4, <1>5, <1>6

LEMMA EnterInitializationStep ==
  ASSUME IInv, Live, NEW ok \in BOOLEAN, EnterInitializationMode(ok)
  PROVE  RunningInv' /\ ModeInv' /\ FlagsInv' /\ EpsilonInv' /\ ReportInv' /\ SettledInv'
<1> USE DEF IInv, TypeOK, Live
<1>1. RunningInv'
  BY DEF EnterInitializationMode, Initialize, InitializeRefused, InitialEquationsFail,
         InitialEquationsSolved, ClearEventFlags, Flags, Return, Called, RunningInv,
         CallTypes
<1>2. ModeInv'
  BY DEF EnterInitializationMode, Initialize, InitializeRefused, InitialEquationsFail,
         InitialEquationsSolved, ClearEventFlags, Flags, Return, Called, ModeInv, CallTypes
<1>3. FlagsInv'
  <2>1. CASE ~ok
    BY <2>1 DEF EnterInitializationMode, Return, FlagsInv, CallTypes
  <2>2. CASE ok
    <3>1. InitialEquationsSolved(ok) /\ nbr_event_iter = 0
      BY <2>2 DEF EnterInitializationMode, Initialize, InitializeRefused,
                  InitialEquationsFail,
                  ModeInv
    <3>2. QED
      BY <2>2, <3>1 DEF EnterInitializationMode, InitialEquationsSolved, ClearEventFlags,
                        Called, FlagsInv
  <2>3. QED BY <2>1, <2>2
<1>4. EpsilonInv'
  BY DEF EnterInitializationMode, Initialize, InitializeRefused, InitialEquationsFail,
         InitialEquationsSolved, ClearEventFlags, Flags, Return, Called, EpsilonInv,
         CallTypes
<1>5. ReportInv'
  BY DEF EnterInitializationMode, Initialize, InitializeRefused, InitialEquationsFail,
         InitialEquationsSolved, ClearEventFlags, Flags, Return, Called, ReportInv,
         CallTypes
<1>6. SettledInv'
  BY DEF EnterInitializationMode, Initialize, InitializeRefused, InitialEquationsFail,
         InitialEquationsSolved, ClearEventFlags, Flags, Return, Called, SettledInv,
         Settled, CallTypes
<1>7. QED BY <1>1, <1>2, <1>3, <1>4, <1>5, <1>6

LEMMA TerminateStep ==
  ASSUME IInv, Live, NEW ok \in BOOLEAN, Terminate(ok)
  PROVE  RunningInv' /\ ModeInv' /\ FlagsInv' /\ EpsilonInv' /\ ReportInv' /\ SettledInv'
<1> USE DEF IInv, TypeOK, Live
<1>1. RunningInv'
  BY DEF Terminate, UpdateAndTerminate, Return, Called, RunningInv, CallTypes
<1>2. ModeInv'
  BY DEF Terminate, UpdateAndTerminate, Return, Called, ModeInv, CallTypes
<1>3. FlagsInv'
  BY DEF Terminate, UpdateAndTerminate, Return, Called, FlagsInv, CallTypes
<1>4. EpsilonInv'
  BY DEF Terminate, UpdateAndTerminate, Return, Called, EpsilonInv, CallTypes
<1>5. ReportInv'
  BY DEF Terminate, UpdateAndTerminate, Return, Called, ReportInv, CallTypes
<1>6. SettledInv'
  BY DEF Terminate, UpdateAndTerminate, Return, Called, SettledInv, Settled, CallTypes
<1>7. QED BY <1>1, <1>2, <1>3, <1>4, <1>5, <1>6

LEMMA SetupStep ==
  ASSUME IInv, Live, NEW ok \in BOOLEAN, NEW stop \in Times, SetupExperiment(0, stop, ok)
  PROVE  RunningInv' /\ ModeInv' /\ FlagsInv' /\ EpsilonInv' /\ ReportInv' /\ SettledInv'
<1> USE DEF IInv, TypeOK, Live
<1>1. RunningInv'
  BY DEF SetupExperiment, SetupTolerances, Return, Called, RunningInv, CallTypes
<1>2. ModeInv'
  BY DEF SetupExperiment, SetupTolerances, Return, Called, ModeInv, CallTypes
<1>3. FlagsInv'
  BY DEF SetupExperiment, SetupTolerances, Return, Called, FlagsInv, CallTypes
<1>4. EpsilonInv'
  BY DEF SetupExperiment, SetupTolerances, Return, Called, EpsilonInv, CallTypes
<1>5. ReportInv'
  BY DEF SetupExperiment, SetupTolerances, Return, Called, ReportInv, CallTypes
<1>6. SettledInv'
  BY DEF SetupExperiment, SetupTolerances, Return, Called, SettledInv, Settled, CallTypes
<1>7. QED BY <1>1, <1>2, <1>3, <1>4, <1>5, <1>6

LEMMA SetTimeStep ==
  ASSUME IInv,
         Live, NEW ok \in BOOLEAN, NEW t \in Times, fmu_mode = "continuousTimeMode",
         t <= info.next, CallSetTime(t, ok)
  PROVE  RunningInv' /\ ModeInv' /\ FlagsInv' /\ EpsilonInv' /\ ReportInv' /\ SettledInv'
<1> USE DEF IInv, TypeOK, Live
<1>1. RunningInv'
  BY DEF CallSetTime, SetTimeCall, SetTimeImpl, Value, Return, Called, RunningInv,
         CallTypes
<1>2. ModeInv'
  BY DEF CallSetTime, SetTimeCall, SetTimeImpl, Value, Return, Called, ModeInv, CallTypes
<1>3. FlagsInv'
  BY DEF CallSetTime, SetTimeCall, SetTimeImpl, Value, Return, Called, FlagsInv, CallTypes
<1>4. EpsilonInv'
  BY DEF CallSetTime, SetTimeCall, SetTimeImpl, Value, Return, Called, EpsilonInv,
         CallTypes
<1>5. ReportInv'
  BY DEF CallSetTime, SetTimeCall, SetTimeImpl, Value, Return, Called, ReportInv, CallTypes
<1>6. SettledInv'
  BY DEF CallSetTime, SetTimeCall, SetTimeImpl, Value, Return, Called, SettledInv, Settled,
         CallTypes
<1>7. QED BY <1>1, <1>2, <1>3, <1>4, <1>5, <1>6

LEMMA CompletedStep ==
  ASSUME IInv, Live, NEW ok \in BOOLEAN, CallCompletedIntegratorStep(ok)
  PROVE  RunningInv' /\ ModeInv' /\ FlagsInv' /\ EpsilonInv' /\ ReportInv' /\ SettledInv'
<1> USE DEF IInv, TypeOK, Live
<1>1. RunningInv'
  BY DEF CallCompletedIntegratorStep, CompletedIntegratorStep, SaveLast, Value, Return,
         Called, RunningInv, CallTypes
<1>2. ModeInv'
  BY DEF CallCompletedIntegratorStep, CompletedIntegratorStep, SaveLast, Value, Return,
         Called, ModeInv, CallTypes
<1>3. FlagsInv'
  BY DEF CallCompletedIntegratorStep, CompletedIntegratorStep, SaveLast, Value, Return,
         Called, FlagsInv, CallTypes
<1>4. EpsilonInv'
  BY DEF CallCompletedIntegratorStep, CompletedIntegratorStep, SaveLast, Value, Return,
         Called, EpsilonInv, CallTypes
<1>5. ReportInv'
  BY DEF CallCompletedIntegratorStep, CompletedIntegratorStep, SaveLast, Value, Return,
         Called, ReportInv, CallTypes
<1>6. SettledInv'
  BY DEF CallCompletedIntegratorStep, CompletedIntegratorStep, SaveLast, Value, Return,
         Called, SettledInv, Settled, CallTypes
<1>7. QED BY <1>1, <1>2, <1>3, <1>4, <1>5, <1>6

LEMMA SetContinuousStep ==
  ASSUME IInv,
         Live, NEW ok \in BOOLEAN, NEW changed \in BOOLEAN, CallSetContinuous(changed, ok)
  PROVE  RunningInv' /\ ModeInv' /\ FlagsInv' /\ EpsilonInv' /\ ReportInv' /\ SettledInv'
<1> USE DEF IInv, TypeOK, Live
<1>1. RunningInv'
  BY DEF CallSetContinuous, SetContinuous, Value, Return, Called, RunningInv, CallTypes
<1>2. ModeInv'
  BY DEF CallSetContinuous, SetContinuous, Value, Return, Called, ModeInv, CallTypes
<1>3. FlagsInv'
  BY DEF CallSetContinuous, SetContinuous, Value, Return, Called, FlagsInv, CallTypes
<1>4. EpsilonInv'
  BY DEF CallSetContinuous, SetContinuous, Value, Return, Called, EpsilonInv, CallTypes
<1>5. ReportInv'
  BY DEF CallSetContinuous, SetContinuous, Value, Return, Called, ReportInv, CallTypes
<1>6. SettledInv'
  BY DEF CallSetContinuous, SetContinuous, Value, Return, Called, SettledInv, Settled,
         CallTypes
<1>7. QED BY <1>1, <1>2, <1>3, <1>4, <1>5, <1>6

LEMMA SetDiscreteStep ==
  ASSUME IInv, Live, NEW ok \in BOOLEAN, NEW v \in Disc, CallSetDiscreteInput(v, ok)
  PROVE  RunningInv' /\ ModeInv' /\ FlagsInv' /\ EpsilonInv' /\ ReportInv' /\ SettledInv'
<1> USE DEF IInv, TypeOK, Live
<1>1. RunningInv'
  BY DEF CallSetDiscreteInput, SetDiscreteInput, Value, Return, Called, RunningInv,
         CallTypes
<1>2. ModeInv'
  BY DEF CallSetDiscreteInput, SetDiscreteInput, Value, Return, Called, ModeInv, CallTypes
<1>3. FlagsInv'
  BY DEF CallSetDiscreteInput, SetDiscreteInput, Value, Return, Called, FlagsInv, CallTypes
<1>4. EpsilonInv'
  BY DEF CallSetDiscreteInput, SetDiscreteInput, Value, Return, Called, EpsilonInv,
         CallTypes
<1>5. ReportInv'
  BY DEF CallSetDiscreteInput, SetDiscreteInput, Value, Return, Called, ReportInv,
         CallTypes
<1>6. SettledInv'
  BY DEF CallSetDiscreteInput, SetDiscreteInput, Value, Return, Called, SettledInv,
         Settled, CallTypes, DiscState
<1>7. QED BY <1>1, <1>2, <1>3, <1>4, <1>5, <1>6

LEMMA SetParameterStep ==
  ASSUME IInv, Live, NEW ok \in BOOLEAN, CallSetParameter(ok)
  PROVE  RunningInv' /\ ModeInv' /\ FlagsInv' /\ EpsilonInv' /\ ReportInv' /\ SettledInv'
<1> USE DEF IInv, TypeOK, Live
<1>1. RunningInv'
  BY DEF CallSetParameter, SetParameter, Value, Return, Called, RunningInv, CallTypes
<1>2. ModeInv'
  BY DEF CallSetParameter, SetParameter, Value, Return, Called, ModeInv, CallTypes
<1>3. FlagsInv'
  BY DEF CallSetParameter, SetParameter, Value, Return, Called, FlagsInv, CallTypes
<1>4. EpsilonInv'
  BY DEF CallSetParameter, SetParameter, Value, Return, Called, EpsilonInv, CallTypes
<1>5. ReportInv'
  BY DEF CallSetParameter, SetParameter, Value, Return, Called, ReportInv, CallTypes
<1>6. SettledInv'
  BY DEF CallSetParameter, SetParameter, Value, Return, Called, SettledInv, Settled,
         CallTypes
<1>7. QED BY <1>1, <1>2, <1>3, <1>4, <1>5, <1>6

LEMMA GetVariablesStep ==
  ASSUME IInv, Live, NEW ok \in BOOLEAN, CallGetVariables(ok)
  PROVE  RunningInv' /\ ModeInv' /\ FlagsInv' /\ EpsilonInv' /\ ReportInv' /\ SettledInv'
<1> USE DEF IInv, TypeOK, Live
<1>1. RunningInv'
  BY DEF CallGetVariables, GetVariables, Value, Return, Called, RunningInv, CallTypes
<1>2. ModeInv'
  BY DEF CallGetVariables, GetVariables, Value, Return, Called, ModeInv, CallTypes
<1>3. FlagsInv'
  BY DEF CallGetVariables, GetVariables, Value, Return, Called, FlagsInv, CallTypes
<1>4. EpsilonInv'
  BY DEF CallGetVariables, GetVariables, Value, Return, Called, EpsilonInv, CallTypes
<1>5. ReportInv'
  BY DEF CallGetVariables, GetVariables, Value, Return, Called, ReportInv, CallTypes, Flags
<1>6. SettledInv'
  <2>1. SUFFICES ASSUME Settled, ~failed PROVE Settled'
    BY DEF CallGetVariables, GetVariables, Value, Return, Called, SettledInv, CallTypes
  <2>2. Frozen
    BY <2>1 DEF CallGetVariables, Value, Called, FlagsInv, Settled, Frozen
  <2>3. \A o \in Outcomes(Frozen) : o.d = z.d /\ o.upd = FALSE
    BY <2>2 DEF Outcomes
  <2>4. /\ z'.d = z.d /\ z'.pre = z.pre
        /\ z_last' = z_last
    BY <2>1, <2>2, <2>3 DEF CallGetVariables, GetVariables, Value, Settled, DiscState
  <2>5. ~unreported'
    BY <2>1, <2>3 DEF CallGetVariables, GetVariables, Value, Settled, Flags
  <2>6. QED
    BY <2>1, <2>4, <2>5 DEF CallGetVariables, GetVariables, Value, Settled
<1>7. QED BY <1>1, <1>2, <1>3, <1>4, <1>5, <1>6

LEMMA GetEvaluatedStep ==
  ASSUME IInv, Live, NEW ok \in BOOLEAN, CallGetEvaluated(ok)
  PROVE  RunningInv' /\ ModeInv' /\ FlagsInv' /\ EpsilonInv' /\ ReportInv' /\ SettledInv'
<1> USE DEF IInv, TypeOK, Live
<1>1. RunningInv'
  BY DEF CallGetEvaluated, GetEvaluated, Value, Return, Called, RunningInv, CallTypes
<1>2. ModeInv'
  BY DEF CallGetEvaluated, GetEvaluated, Value, Return, Called, ModeInv, CallTypes
<1>3. FlagsInv'
  BY DEF CallGetEvaluated, GetEvaluated, Value, Return, Called, FlagsInv, CallTypes
<1>4. EpsilonInv'
  BY DEF CallGetEvaluated, GetEvaluated, Value, Return, Called, EpsilonInv, CallTypes
<1>5. ReportInv'
  BY DEF CallGetEvaluated, GetEvaluated, Value, Return, Called, ReportInv, CallTypes, Flags
<1>6. SettledInv'
  <2>1. SUFFICES ASSUME Settled, ~failed PROVE Settled'
    BY DEF CallGetEvaluated, GetEvaluated, Value, Return, Called, SettledInv, CallTypes
  <2>2. Frozen
    BY <2>1 DEF CallGetEvaluated, Value, Called, FlagsInv, Settled, Frozen
  <2>3. \A o \in Outcomes(Frozen) : o.d = z.d /\ o.upd = FALSE
    BY <2>2 DEF Outcomes
  <2>4. /\ z'.d = z.d /\ z'.pre = z.pre
        /\ z_last' = z_last
    BY <2>1, <2>2, <2>3 DEF CallGetEvaluated, GetEvaluated, Value, Settled, DiscState
  <2>5. ~unreported'
    BY <2>1, <2>3 DEF CallGetEvaluated, GetEvaluated, Value, Settled, Flags
  <2>6. QED
    BY <2>1, <2>4, <2>5 DEF CallGetEvaluated, GetEvaluated, Value, Settled
<1>7. QED BY <1>1, <1>2, <1>3, <1>4, <1>5, <1>6

LEMMA NewDiscreteStateStep ==
  ASSUME IInv, ImporterNewDiscreteState
  PROVE  RunningInv' /\ ModeInv' /\ FlagsInv' /\ EpsilonInv' /\ ReportInv' /\ SettledInv'
<1> USE DEF IInv, TypeOK, Live
<1>1. RunningInv'
  BY DEF ImporterNewDiscreteState, NewDiscreteState, EnterEventIteration, RunningInv,
         ModeInv
<1>2. ModeInv'
  BY DEF ImporterNewDiscreteState, NewDiscreteState, EnterEventIteration, Called, ModeInv,
         CallTypes
<1>3. FlagsInv'
  <2>1. /\ call = "idle" /\ is_initialized /\ nbr_event_iter \in Nat
        /\ nbr_event_iter = 0 => call' = "start"
        /\ nbr_event_iter # 0 => call' = "iterate"
    BY DEF ImporterNewDiscreteState, NewDiscreteState, EnterEventIteration, CallTypes,
           ModeInv
  <2>2. QED
    BY <2>1 DEF ImporterNewDiscreteState, NewDiscreteState, EnterEventIteration, FlagsInv
<1>4. EpsilonInv'
  BY DEF ImporterNewDiscreteState, NewDiscreteState, EnterEventIteration, Called,
         EpsilonInv, CallTypes
<1>5. ReportInv'
  BY DEF ImporterNewDiscreteState, NewDiscreteState, EnterEventIteration, Called,
         ReportInv, CallTypes
<1>6. SettledInv'
  BY DEF ImporterNewDiscreteState, NewDiscreteState, EnterEventIteration, Called,
         SettledInv, Settled, CallTypes
<1>7. QED BY <1>1, <1>2, <1>3, <1>4, <1>5, <1>6

LEMMA StartStep ==
  ASSUME IInv, NEW ok \in BOOLEAN, StartEvent(ok)
  PROVE  RunningInv' /\ ModeInv' /\ FlagsInv' /\ EpsilonInv' /\ ReportInv' /\ SettledInv'
<1> USE DEF IInv, TypeOK, Live
<1>1. RunningInv'
  BY DEF StartEvent, IterationStartFails, IterationStart, ReturnEventInfo, Return,
         RunningInv, CallTypes
<1>2. ModeInv'
  BY DEF StartEvent, IterationStartFails, IterationStart, ReturnEventInfo, Return, ModeInv,
         CallTypes, RunningInv
<1>3. FlagsInv'
  BY DEF StartEvent, IterationStartFails, IterationStart, ReturnEventInfo, Return,
         FlagsInv, CallTypes
<1>4. EpsilonInv'
  BY DEF StartEvent, IterationStartFails, IterationStart, ReturnEventInfo, Return,
         EpsilonInv, CallTypes
<1>5. ReportInv'
  BY DEF StartEvent, IterationStartFails, IterationStart, ReturnEventInfo, Return,
         ReportInv, CallTypes
<1>6. SettledInv'
  BY DEF StartEvent, IterationStartFails, IterationStart, ReturnEventInfo, Return,
         SettledInv, Settled, CallTypes
<1>7. QED BY <1>1, <1>2, <1>3, <1>4, <1>5, <1>6

LEMMA IterateStep ==
  ASSUME IInv,
         NEW ok \in BOOLEAN, NEW reinit \in {"no", "same", "changed"}, IterateEvent(reinit, ok)
  PROVE  RunningInv' /\ ModeInv' /\ FlagsInv' /\ EpsilonInv' /\ ReportInv' /\ SettledInv'
<1> USE DEF IInv, TypeOK, Live
<1>1. RunningInv'
  BY DEF IterateEvent, IterationFails, Iteration, ReturnEventInfo, Return, RunningInv,
         CallTypes
<1>2. ModeInv'
  BY DEF IterateEvent, IterationFails, Iteration, ReturnEventInfo, Return, ModeInv,
         CallTypes, RunningInv
<1>3. FlagsInv'
  <2>1. CASE ok
    <3>1. Iteration(reinit, TRUE)
      BY <2>1 DEF IterateEvent
    <3>2. /\ call = "iterate" /\ call' \in {"idle", "final"}
          /\ nbr_event_iter' = nbr_event_iter + 1
          /\ UNCHANGED << atEvent, atInitial, save_restore_solver_state_mode, is_initialized >>
      BY <3>1 DEF Iteration
    <3>3. nbr_event_iter' > 0
      BY <3>2 DEF CallTypes
    <3>4. ~failed' => ~failed
      BY DEF IterateEvent, ReturnEventInfo, Return
    <3>5. QED BY <3>2, <3>3, <3>4 DEF FlagsInv
  <2>2. CASE ~ok
    <3>1. failed' = TRUE
      BY <2>2 DEF IterateEvent, ReturnEventInfo, Return
    <3>2. QED BY <3>1 DEF FlagsInv
  <2>3. QED BY <2>1, <2>2
<1>4. EpsilonInv'
  BY DEF IterateEvent, IterationFails, Iteration, ReturnEventInfo, Return, EpsilonInv,
         CallTypes
<1>5. ReportInv'
  <2>1. CASE ~ok
    BY <2>1 DEF IterateEvent, ReturnEventInfo, Return, ReportInv, CallTypes
  <2>2. CASE ok
    <3>1. Iteration(reinit, TRUE) /\ ReturnEventInfo(TRUE)
      BY <2>2 DEF IterateEvent
    <3>2. PICK o \in Outcomes(Frozen) :
            LET converged == reinit = "no" /\ o.d = z.d
            IN /\ updated_states' = IF ~converged THEN FALSE ELSE updated_states \/ o.upd
               /\ unreported' = (unreported \/ o.upd \/ reinit # "no")
               /\ event_info' =
                    [event_info EXCEPT !.converged = converged,
                      !.svc = event_info.svc \/ reinit # "no"
                        \/ (~converged /\ ReportedStates(updated_states \/ o.upd))]
               /\ call' = IF converged THEN "final" ELSE "idle"
               /\ saved_svc' = (saved_svc /\ converged)
      BY <3>1 DEF Iteration
    <3>3. event_info'.svc = (event_info.svc \/ reinit # "no"
            \/ (~(reinit = "no" /\ o.d = z.d) /\ ReportedStates(updated_states \/ o.upd)))
      BY <3>2 DEF CallTypes, EventInfos
    <3>4. /\ call = "iterate" /\ fmu_mode' = "eventMode" /\ nbr_event_iter' > 0
          /\ unreported /\ Live => updated_states \/ saved_svc \/ event_info.svc
      BY <3>1 DEF Iteration, ReturnEventInfo, RunningInv, ReportInv, CallTypes
    <3>5. Live' => Live
      BY <3>1 DEF Iteration, ReturnEventInfo, Return
    <3>6. CASE reinit = "no" /\ o.d = z.d
      <4>1. /\ updated_states' = (updated_states \/ o.upd)
            /\ unreported' = (unreported \/ o.upd)
            /\ call' = "final" /\ saved_svc' = saved_svc
            /\ event_info'.svc = event_info.svc
        BY <3>2, <3>3, <3>6 DEF CallTypes, EventInfos
      <4>2. QED BY <4>1, <3>4, <3>5 DEF ReportInv
    <3>7. CASE ~(reinit = "no" /\ o.d = z.d)
      <4>1. /\ unreported' = (unreported \/ o.upd \/ reinit # "no")
            /\ call' = "idle"
            /\ event_info'.svc = (event_info.svc \/ reinit # "no"
                                    \/ ReportedStates(updated_states \/ o.upd))
        BY <3>2, <3>3, <3>7
      <4>2. info'.svc = event_info'.svc
        BY <3>1, <4>1 DEF ReturnEventInfo
      <4>3. unreported' /\ Live => event_info'.svc
        BY <4>1, <3>4 DEF ReportedStates
      <4>4. QED BY <4>1, <4>2, <4>3, <3>4, <3>5 DEF ReportInv
    <3>8. QED BY <3>6, <3>7
  <2>3. QED BY <2>1, <2>2
<1>6. SettledInv'
  <2>1. CASE ~ok
    BY <2>1 DEF IterateEvent, ReturnEventInfo, Return, SettledInv
  <2>2. CASE ok
    <3>1. Iteration(reinit, TRUE) /\ ReturnEventInfo(TRUE)
      BY <2>2 DEF IterateEvent
    <3>2. fmu_mode' = "eventMode"
      BY <3>1 DEF Iteration, ReturnEventInfo, RunningInv
    <3>3. call' = "idle" => event_info'.converged = FALSE
      BY <3>1 DEF Iteration, CallTypes, EventInfos
    <3>4. call' = "idle" => info'.needed
      BY <3>1, <3>3 DEF ReturnEventInfo
    <3>5. QED BY <3>2, <3>4 DEF SettledInv
  <2>3. QED BY <2>1, <2>2
<1>7. QED BY <1>1, <1>2, <1>3, <1>4, <1>5, <1>6

LEMMA FinishStep ==
  ASSUME IInv, NEW ok \in BOOLEAN, FinishEvent(ok)
  PROVE  RunningInv' /\ ModeInv' /\ FlagsInv' /\ EpsilonInv' /\ ReportInv' /\ SettledInv'
<1> USE DEF IInv, TypeOK, Live
<1>1. RunningInv'
  BY DEF FinishEvent, FinalStepFails, FinalStep, LeaveEvent, ReturnEventInfo, Return,
         RunningInv, CallTypes
<1>2. ModeInv'
  BY DEF FinishEvent, FinalStepFails, FinalStep, LeaveEvent, ReturnEventInfo, Return,
         ModeInv, CallTypes, RunningInv
<1>3. EpsilonInv'
  BY DEF FinishEvent, FinalStepFails, FinalStep, LeaveEvent, ReturnEventInfo, Return,
         EpsilonInv, CallTypes, RestoredEpsilon, RunningInv
<1>4. CASE ~ok
  <2>1. failed' = TRUE
    BY <1>4 DEF FinishEvent, ReturnEventInfo, Return
  <2>2. QED BY <1>1, <1>2, <1>3, <2>1 DEF FlagsInv, ReportInv, SettledInv
<1>5. CASE ok
  <2>1. FinalStep(TRUE) /\ LeaveEvent /\ ReturnEventInfo(TRUE)
    BY <1>5 DEF FinishEvent, FinalStep
  <2>2. /\ call = "final" /\ call' \in {"idle", "start"}
        /\ nbr_event_iter' = 0 /\ atEvent' = FALSE
        /\ save_restore_solver_state_mode' = TRUE
        /\ UNCHANGED << atInitial, is_initialized, user_terminate, time, fmu_mode >>
        /\ failed' = failed
    BY <2>1 DEF FinalStep, LeaveEvent, ReturnEventInfo, Return, FlagTypes, CallTypes
  <2>3. ~failed /\ ~user_terminate /\ fmu_mode = "eventMode"
    BY <2>2 DEF RunningInv
  <2>4. FlagsInv'
    BY <2>2, <2>3 DEF FlagsInv
  <2>5. unreported => updated_states \/ saved_svc \/ event_info.svc
    BY <2>2, <2>3 DEF ReportInv
  <2>6. CASE call' = "start"
    <3>1. /\ saved_svc' = (saved_svc \/ event_info.svc)
          /\ updated_states' = updated_states /\ unreported' = unreported
      BY <2>1, <2>6 DEF FinalStep
    <3>2. ReportInv'
      BY <2>5, <2>6, <3>1 DEF ReportInv
    <3>3. SettledInv'
      BY <2>6 DEF SettledInv
    <3>4. QED BY <1>1, <1>2, <1>3, <2>4, <3>2, <3>3
  <2>7. CASE call' = "idle"
    <3>1. /\ updated_states' = FALSE
          /\ event_info' = [event_info EXCEPT !.next = nextTimeEvent'.time,
                                              !.svc = ReportedStates(updated_states)]
          /\ unreported' = (unreported /\ ~event_info'.svc)
      BY <2>1, <2>7 DEF FinalStep
    <3>2. event_info'.svc = ReportedStates(updated_states)
      BY <3>1 DEF CallTypes, EventInfos
    <3>3. event_info'.next = nextTimeEvent'.time
      BY <3>1 DEF CallTypes, EventInfos
    <3>4. ~unreported'
      BY <2>5, <3>1, <3>2 DEF ReportedStates
    <3>5. info'.next = nextTimeEvent'.time
      BY <2>1, <2>7, <3>3 DEF ReturnEventInfo
    <3>6. time' <= nextTimeEvent'.time
      BY <2>1, <2>2 DEF FinalStep, Upcoming
    <3>7. events_epsilon' = 1
      BY <2>1, <2>2, <2>3 DEF LeaveEvent, RestoredEpsilon, EpsilonInv, RunningInv, TimeTypes
    <3>8. z_last' = z'
      BY <2>1 DEF FinalStep, SaveLast
    <3>9. Settled'
      BY <2>2, <3>4, <3>5, <3>6, <3>7, <3>8 DEF Settled
    <3>10. ReportInv' /\ SettledInv'
      BY <3>4, <3>9 DEF ReportInv, SettledInv
    <3>11. QED BY <1>1, <1>2, <1>3, <2>4, <3>10
  <2>8. QED BY <2>2, <2>6, <2>7
<1>6. QED BY <1>4, <1>5

LEMMA ImporterStep ==
  ASSUME IInv, [ImporterNext]_vars
  PROVE  IInv'
<1>1. TypeOK'
  <2>1. CASE ImporterLifeCycle
    <3>1. 0 \in Times
      BY TimeAssumption DEF Times
    <3>2. LifeCycle
      BY <2>1, <3>1 DEF ImporterLifeCycle, LifeCycle
    <3>3. QED BY <3>2, TypeStep DEF Next, IInv
  <2>2. CASE ImporterValues
    <3>1. Values
      BY <2>2 DEF ImporterValues, Values
    <3>2. QED BY <3>1, TypeStep DEF Next, IInv
  <2>3. CASE ImporterNewDiscreteState
    <3>1. info.svc \in BOOLEAN
      BY DEF IInv, TypeOK, CallTypes, CallerInfos
    <3>2. Next
      BY <2>3, <3>1 DEF ImporterNewDiscreteState, Next
    <3>3. QED BY <3>2, TypeStep DEF IInv
  <2>4. CASE EventStep
    BY <2>4, TypeStep DEF Next, IInv
  <2>5. CASE UNCHANGED vars
    BY <2>5, TypeStep DEF IInv
  <2>6. QED BY <2>1, <2>2, <2>3, <2>4, <2>5 DEF ImporterNext
<1>2. CASE ImporterLifeCycle
  BY <1>1, <1>2, InstantiateStep, ResetStep, FreeStep, ExitInitializationStep, EnterEventStep,
     EnterContinuousStep, EnterInitializationStep, TerminateStep, SetupStep
     DEF ImporterLifeCycle, IInv
<1>3. CASE ImporterValues
  BY <1>1, <1>3, SetTimeStep, CompletedStep, SetContinuousStep, SetDiscreteStep,
     SetParameterStep, GetVariablesStep, GetEvaluatedStep DEF ImporterValues, IInv
<1>4. CASE ImporterNewDiscreteState
  BY <1>1, <1>4, NewDiscreteStateStep DEF IInv
<1>5. CASE EventStep
  BY <1>1, <1>5, StartStep, IterateStep, FinishStep DEF EventStep, IInv
<1>6. CASE UNCHANGED vars
  BY <1>1, <1>6 DEF vars, IInv, RunningInv, ModeInv, FlagsInv, EpsilonInv, ReportInv,
                    SettledInv, Settled, Live
<1>7. QED BY <1>2, <1>3, <1>4, <1>5, <1>6 DEF ImporterNext

\* The inductive invariant of the FMU under a conforming importer, between and
\* inside the calls of its event iteration.
THEOREM ImporterInvariant == ImporterSpec => []IInv
<1>1. Init => IInv
  BY ImporterInit
<1>2. IInv /\ [ImporterNext]_vars => IInv'
  BY ImporterStep
<1>3. QED BY <1>1, <1>2, PTL DEF ImporterSpec

-----------------------------------------------------------------------------
\* The flags the generated code is compiled against agree with the event
\* iteration whenever the importer has control.
THEOREM FlagsCorrect == ImporterSpec => []EventFlagsConsistent
<1>1. IInv => EventFlagsConsistent
  BY DEF IInv, FlagsInv, EventFlagsConsistent
<1>2. QED BY <1>1, ImporterInvariant, PTL

\* No integration goes on with the epsilon cleared for the initialization.
THEOREM HysteresisCorrect == ImporterSpec => []HysteresisWhileIntegrating
<1>1. IInv => HysteresisWhileIntegrating
  BY DEF IInv, RunningInv, SettledInv, Settled, HysteresisWhileIntegrating, Integrating
<1>2. QED BY <1>1, ImporterInvariant, PTL

\* Restoring the last successful values never undoes a part of an event.
THEOREM RestoreCorrect == ImporterSpec => []RestoreNeutral
<1>1. IInv => RestoreNeutral
  BY DEF IInv, RunningInv, SettledInv, Settled, RestoreNeutral, Integrating
<1>2. QED BY <1>1, ImporterInvariant, PTL

\* Every state change at an event is reported before the integration goes on.
THEOREM ReportCorrect == ImporterSpec => []StateChangeReported
<1>1. IInv => StateChangeReported
  BY DEF IInv, RunningInv, SettledInv, Settled, StateChangeReported, Integrating
<1>2. QED BY <1>1, ImporterInvariant, PTL

\* The importer is told the next time event and never passes it.
THEOREM NextEventCorrect == ImporterSpec => []NextEventTimeTold
<1>1. IInv => NextEventTimeTold
  BY DEF IInv, RunningInv, SettledInv, Settled, NextEventTimeTold, Integrating
<1>2. QED BY <1>1, ImporterInvariant, PTL

---------------------------------------------------------------------------
(***************************************************************************)
(* The FMU, driven by an importer that keeps to the calling sequence,      *)
(* implements HybridTime: every step of ImporterSpec is a flow, a jump, a  *)
(* change of phase, or leaves the abstract state alone.                    *)
(***************************************************************************)

Abstract == << Phase, time, << z.d, z.pre >> >>

HybridStep == [Hybrid!Next]_Abstract

LEMMA PhaseValues ==
  /\ ~Live \/ fmu_mode = "none" => Phase = "off"
  /\ Live /\ fmu_mode \in {"instantiatedMode", "initializationMode"} => Phase = "setup"
  /\ Live /\ fmu_mode = "eventMode" /\ (info.needed \/ call # "idle") => Phase = "jump"
  /\ Live /\ fmu_mode = "eventMode" /\ ~info.needed /\ call = "idle" => Phase = "settled"
  /\ Live /\ fmu_mode = "continuousTimeMode" => Phase = "flow"
BY DEF Phase

LEMMA PhaseValuesNext ==
  /\ ~Live' \/ fmu_mode' = "none" => Phase' = "off"
  /\ Live' /\ fmu_mode' \in {"instantiatedMode", "initializationMode"} => Phase' = "setup"
  /\ Live' /\ fmu_mode' = "eventMode" /\ (info'.needed \/ call' # "idle") => Phase' = "jump"
  /\ Live' /\ fmu_mode' = "eventMode" /\ ~info'.needed /\ call' = "idle" => Phase' = "settled"
  /\ Live' /\ fmu_mode' = "continuousTimeMode" => Phase' = "flow"
BY DEF Phase

LEMMA AbstractTypes ==
  ASSUME TypeOK
  PROVE  time \in Times /\ << z.d, z.pre >> \in Disc \X Disc
BY DEF TypeOK, TimeTypes, DiscState

LEMMA AbstractTypesNext ==
  ASSUME TypeOK'
  PROVE  time' \in Times /\ << z'.d, z'.pre >> \in Disc \X Disc
BY DEF TypeOK, TimeTypes, DiscState

\* An error, a termination or a reset is a step of HybridTime in every phase.
LEMMA Leaving ==
  ASSUME TypeOK', Phase' \in {"off", "setup"}
  PROVE  HybridStep
BY AbstractTypesNext DEF HybridStep, Hybrid!Next, Hybrid!Leave, Hybrid!ChooseIn

LEMMA Jumping ==
  ASSUME TypeOK', Phase = "jump", Phase' \in {"jump", "settled"}, time' = time
  PROVE  HybridStep
BY AbstractTypesNext DEF HybridStep, Hybrid!Next, Hybrid!Jump

LEMMA Flowing ==
  ASSUME TypeOK', Phase = "flow", Phase' = "flow", z'.d = z.d, z'.pre = z.pre
  PROVE  HybridStep
BY AbstractTypesNext DEF HybridStep, Hybrid!Next, Hybrid!Flow

LEMMA Staying ==
  ASSUME Phase' = Phase, time' = time, z'.d = z.d, z'.pre = z.pre
  PROVE  HybridStep
BY DEF HybridStep, Abstract

-----------------------------------------------------------------------------
LEMMA HybridLifeCycle ==
  ASSUME IInv, IInv', ImporterLifeCycle
  PROVE  HybridStep
<1> USE PhaseValues, PhaseValuesNext DEF IInv, Live
<1>1. CASE Instantiate
  BY <1>1, Leaving DEF Instantiate, MeInit
<1>2. CASE FreeInstance
  BY <1>2, Leaving DEF FreeInstance
<1>3. CASE Live /\ ExitInitializationMode
  <2>1. Phase = "setup" /\ UNCHANGED << time, z, user_terminate, failed >>
    BY <1>3 DEF ExitInitializationMode, SwitchMode
  <2>2. fmu_mode' = "eventMode" /\ info'.needed
    BY <1>3 DEF ExitInitializationMode, SwitchMode, TypeOK, CallTypes, CallerInfos
  <2>3. Phase' = "jump"
    BY <1>3, <2>1, <2>2
  <2>4. QED BY <2>1, <2>3 DEF HybridStep, Hybrid!Next, Hybrid!Start
<1>4. CASE Live /\ EnterEventMode
  <2>1. Phase = "flow" /\ UNCHANGED << time, z, user_terminate, failed >>
    BY <1>4 DEF EnterEventMode, SwitchMode
  <2>2. fmu_mode' = "eventMode" /\ info'.needed
    BY <1>4 DEF EnterEventMode, SwitchMode, TypeOK, CallTypes, CallerInfos
  <2>3. Phase' = "jump"
    BY <1>4, <2>1, <2>2
  <2>4. QED BY <2>1, <2>3 DEF HybridStep, Hybrid!Next, Hybrid!Event
<1>5. CASE Live /\ ~info.needed /\ EnterContinuousTimeMode
  <2>1. /\ Phase = "settled" /\ UNCHANGED << time, z, user_terminate, failed >>
        /\ fmu_mode' = "continuousTimeMode"
    BY <1>5 DEF EnterContinuousTimeMode, SwitchMode, Called
  <2>2. Phase' = "flow"
    BY <1>5, <2>1
  <2>3. QED BY <2>1, <2>2 DEF HybridStep, Hybrid!Next, Hybrid!Settle
<1>6. ASSUME NEW ok \in BOOLEAN, Reset(ok) PROVE HybridStep
  BY <1>6, Leaving DEF Reset, MeInit
<1>7. ASSUME NEW ok \in BOOLEAN, Live, EnterInitializationMode(ok) PROVE HybridStep
  <2>1. fmu_mode' \in {"instantiatedMode", "initializationMode"}
    BY <1>7 DEF EnterInitializationMode
  <2>2. QED BY <2>1, Leaving
<1>8. ASSUME NEW ok \in BOOLEAN, Terminate(ok) PROVE HybridStep
  <2>1. ~Live'
    BY <1>8 DEF Terminate, UpdateAndTerminate, Return
  <2>2. QED BY <2>1, Leaving
<1>9. ASSUME NEW ok \in BOOLEAN, NEW stop \in Times, SetupExperiment(0, stop, ok) PROVE HybridStep
  <2>1. fmu_mode' = "instantiatedMode"
    BY <1>9 DEF SetupExperiment
  <2>2. QED BY <2>1, Leaving
<1>10. QED BY <1>1, <1>2, <1>3, <1>4, <1>5, <1>6, <1>7, <1>8, <1>9 DEF ImporterLifeCycle

-----------------------------------------------------------------------------
\* A call that gets or sets a value keeps the mode and the event information.
LEMMA ValueKeepsPhase ==
  ASSUME Live, NEW ok \in BOOLEAN, Return(ok), UNCHANGED << user_terminate, call, fmiVars >>
  PROVE  (ok /\ Phase' = Phase) \/ (~ok /\ Phase' = "off")
<1>1. CASE ok
  <2>1. Live' /\ UNCHANGED << fmu_mode, info, call >>
    BY <1>1 DEF Return, Live
  <2>2. Phase' = Phase
    BY <2>1 DEF Phase
  <2>3. QED BY <1>1, <2>2
<1>2. CASE ~ok
  BY <1>2, PhaseValuesNext DEF Return, Live
<1>3. QED BY <1>1, <1>2

\* Outside an event nothing evaluates relations.
LEMMA FrozenOutsideEvents ==
  ASSUME IInv, Live, Called, Phase \in {"settled", "flow"}
  PROVE  Frozen /\ z_last.d = z.d /\ z_last.pre = z.pre
<1>1. Settled
  BY PhaseValues DEF IInv, SettledInv, Called, TypeOK, CallTypes, Modes
<1>2. ~atEvent /\ ~atInitial
  BY <1>1 DEF IInv, FlagsInv, Settled, Live, Called, TypeOK, FlagTypes
<1>3. QED BY <1>1, <1>2 DEF Settled, Frozen

LEMMA EvaluationKeepsDisc ==
  ASSUME IInv, Live, Called, Phase \in {"settled", "flow"}, NEW o \in Outcomes(Frozen)
  PROVE  /\ [z EXCEPT !.d = o.d].d = z.d /\ [z EXCEPT !.d = o.d].pre = z.pre
         /\ [z_last EXCEPT !.d = IF Frozen THEN z_last.d ELSE o.d].d = z.d
         /\ [z_last EXCEPT !.d = IF Frozen THEN z_last.d ELSE o.d].pre = z.pre
<1>1. o.d = z.d
  BY FrozenOutsideEvents DEF Outcomes
<1>2. QED BY <1>1, FrozenOutsideEvents DEF IInv, TypeOK, DiscState

LEMMA HybridSetTime ==
  ASSUME IInv, IInv', Live, NEW ok \in BOOLEAN, NEW t \in Times,
         fmu_mode = "continuousTimeMode", CallSetTime(t, ok)
  PROVE  HybridStep
<1>1. (ok /\ Phase' = Phase) \/ (~ok /\ Phase' = "off")
  BY ValueKeepsPhase DEF CallSetTime, Value
<1>2. Phase = "flow" /\ Called
  BY PhaseValues DEF CallSetTime, Value
<1>3. CASE ok
  <2>1. z' = z \/ z' = z_last
    BY <1>3 DEF CallSetTime, Value, SetTimeCall, SetTimeImpl
  <2>2. z'.d = z.d /\ z'.pre = z.pre
    BY <1>2, <2>1, FrozenOutsideEvents
  <2>3. QED BY <1>1, <1>2, <1>3, <2>2, Flowing DEF IInv
<1>4. QED BY <1>1, <1>3, Leaving DEF IInv

\* A call that keeps time: it may change the discrete state in a jump, and
\* outside of one only if it fails.
LEMMA HybridValue ==
  ASSUME IInv, IInv', Live, NEW ok \in BOOLEAN, Called, time' = time,
         (ok /\ Phase' = Phase) \/ (~ok /\ Phase' = "off"),
         ok /\ Phase \in {"settled", "flow"} => z'.d = z.d /\ z'.pre = z.pre
  PROVE  HybridStep
<1>1. CASE Phase' \in {"off", "setup"}
  BY <1>1, Leaving DEF IInv
<1>2. CASE ok /\ Phase \in {"settled", "flow"}
  BY <1>2, Staying
<1>3. CASE ok /\ Phase = "jump"
  BY <1>3, Jumping DEF IInv
<1>4. Phase \in {"off", "setup", "jump", "settled", "flow"}
  BY PhaseValues DEF IInv, TypeOK, CallTypes, Modes
<1>5. QED BY <1>1, <1>2, <1>3, <1>4

LEMMA HybridValues ==
  ASSUME IInv, IInv', ImporterValues
  PROVE  HybridStep
<1>0. Live
  BY DEF ImporterValues
<1>1. ASSUME NEW ok \in BOOLEAN, CallCompletedIntegratorStep(ok) PROVE HybridStep
  <2>1. (ok /\ Phase' = Phase) \/ (~ok /\ Phase' = "off")
    BY <1>0, <1>1, ValueKeepsPhase DEF CallCompletedIntegratorStep, CompletedIntegratorStep, Value
  <2>2. time' = time /\ z' = z /\ Called
    BY <1>1 DEF CallCompletedIntegratorStep, Value, CompletedIntegratorStep
  <2>3. QED BY <1>0, <2>1, <2>2, HybridValue
<1>2. ASSUME NEW ok \in BOOLEAN, NEW changed \in BOOLEAN, CallSetContinuous(changed, ok)
      PROVE HybridStep
  <2>1. (ok /\ Phase' = Phase) \/ (~ok /\ Phase' = "off")
    BY <1>0, <1>2, ValueKeepsPhase DEF CallSetContinuous, SetContinuous, Value
  <2>2. time' = time /\ z' = z /\ Called
    BY <1>2 DEF CallSetContinuous, Value, SetContinuous
  <2>3. QED BY <1>0, <2>1, <2>2, HybridValue
<1>3. ASSUME NEW ok \in BOOLEAN, NEW v \in Disc, CallSetDiscreteInput(v, ok) PROVE HybridStep
  <2>1. (ok /\ Phase' = Phase) \/ (~ok /\ Phase' = "off")
    BY <1>0, <1>3, ValueKeepsPhase DEF CallSetDiscreteInput, SetDiscreteInput, Value
  <2>2. time' = time /\ Called /\ z' = IF ok THEN [z EXCEPT !.u = v] ELSE z
    BY <1>3 DEF CallSetDiscreteInput, Value, SetDiscreteInput
  <2>3. z'.d = z.d /\ z'.pre = z.pre
    BY <2>2 DEF IInv, TypeOK, DiscState
  <2>4. QED BY <1>0, <2>1, <2>2, <2>3, HybridValue
<1>4. ASSUME NEW ok \in BOOLEAN, CallSetParameter(ok) PROVE HybridStep
  <2>1. (ok /\ Phase' = Phase) \/ (~ok /\ Phase' = "off")
    BY <1>0, <1>4, ValueKeepsPhase DEF CallSetParameter, SetParameter, Value
  <2>2. time' = time /\ z' = z /\ Called
    BY <1>4 DEF CallSetParameter, Value, SetParameter
  <2>3. QED BY <1>0, <2>1, <2>2, HybridValue
<1>5. ASSUME NEW ok \in BOOLEAN, CallGetVariables(ok) PROVE HybridStep
  <2>1. (ok /\ Phase' = Phase) \/ (~ok /\ Phase' = "off")
    BY <1>0, <1>5, ValueKeepsPhase DEF CallGetVariables, GetVariables, Value
  <2>2. time' = time /\ Called
    BY <1>5 DEF CallGetVariables, Value, GetVariables
  <2>3. ok => z' = z \/ \E o \in Outcomes(Frozen) : z' = [z EXCEPT !.d = o.d]
    BY <1>5 DEF CallGetVariables, Value, GetVariables
  <2>4. ASSUME ok, Phase \in {"settled", "flow"} PROVE z'.d = z.d /\ z'.pre = z.pre
    <3>1. CASE z' = z
      BY <3>1
    <3>2. CASE z' # z
      <4>1. PICK o \in Outcomes(Frozen) : z' = [z EXCEPT !.d = o.d]
        BY <2>3, <2>4, <3>2
      <4>2. QED BY <1>0, <2>2, <2>4, <4>1, EvaluationKeepsDisc
    <3>3. QED BY <3>1, <3>2
  <2>5. QED BY <1>0, <2>1, <2>2, <2>4, HybridValue
<1>6. ASSUME NEW ok \in BOOLEAN, CallGetEvaluated(ok) PROVE HybridStep
  <2>1. (ok /\ Phase' = Phase) \/ (~ok /\ Phase' = "off")
    BY <1>0, <1>6, ValueKeepsPhase DEF CallGetEvaluated, GetEvaluated, Value
  <2>2. time' = time /\ Called
    BY <1>6 DEF CallGetEvaluated, Value, GetEvaluated
  <2>3. ok => \/ z' = z
              \/ \E o \in Outcomes(Frozen) :
                   \/ z' = [z EXCEPT !.d = o.d]
                   \/ z' = [z_last EXCEPT !.d = IF Frozen THEN z_last.d ELSE o.d]
    BY <1>6 DEF CallGetEvaluated, Value, GetEvaluated
  <2>4. ASSUME ok, Phase \in {"settled", "flow"} PROVE z'.d = z.d /\ z'.pre = z.pre
    <3>1. CASE z' = z
      BY <3>1
    <3>2. CASE z' # z
      <4>1. PICK o \in Outcomes(Frozen) :
              \/ z' = [z EXCEPT !.d = o.d]
              \/ z' = [z_last EXCEPT !.d = IF Frozen THEN z_last.d ELSE o.d]
        BY <2>3, <2>4, <3>2
      <4>2. CASE z' = [z EXCEPT !.d = o.d]
        BY <1>0, <2>2, <2>4, <4>2, EvaluationKeepsDisc
      <4>3. CASE z' = [z_last EXCEPT !.d = IF Frozen THEN z_last.d ELSE o.d]
        BY <1>0, <2>2, <2>4, <4>3, EvaluationKeepsDisc
      <4>4. QED BY <4>1, <4>2, <4>3
    <3>3. QED BY <3>1, <3>2
  <2>5. QED BY <1>0, <2>1, <2>2, <2>4, HybridValue
<1>7. QED BY <1>0, <1>1, <1>2, <1>3, <1>4, <1>5, <1>6, HybridSetTime DEF ImporterValues

-----------------------------------------------------------------------------
LEMMA HybridNewDiscreteState ==
  ASSUME IInv, IInv', ImporterNewDiscreteState
  PROVE  HybridStep
<1> USE PhaseValues, PhaseValuesNext DEF IInv, Live, ImporterNewDiscreteState,
        NewDiscreteState, EnterEventIteration
<1>1. Phase = "jump" /\ time' = time
  OBVIOUS
<1>2. call' # "idle"
  OBVIOUS
<1>3. Phase' = "jump"
  BY <1>2
<1>4. QED BY <1>1, <1>3, Jumping

\* The steps of jmi_event_iteration keep time.
LEMMA HybridEventStep ==
  ASSUME IInv, IInv', EventStep
  PROVE  HybridStep
<1>1. /\ call # "idle" /\ time' = time /\ fmu_mode' = fmu_mode
      /\ user_terminate' = user_terminate
  BY DEF EventStep, StartEvent, IterateEvent, FinishEvent, ReturnEventInfo,
         IterationStartFails, IterationStart, IterationFails, Iteration,
         FinalStepFails, FinalStep, LeaveEvent
<1>2. Live /\ fmu_mode = "eventMode" /\ Phase = "jump"
  BY <1>1, PhaseValues DEF IInv, RunningInv
<1>3. Phase' \in {"off", "jump", "settled"}
  BY <1>1, <1>2, PhaseValuesNext
<1>4. QED BY <1>1, <1>2, <1>3, Jumping, Leaving DEF IInv

\* The detailed specification implements the abstract one: to an importer the
\* FMU is a hybrid system, whatever its equations, discrete values, time range
\* and iteration bounds are.
THEOREM ImplementsHybridTime == ImporterSpec => FlowsAndJumps
<1>1. Init => Hybrid!Init
  <2> SUFFICES ASSUME Init PROVE Hybrid!Init
    OBVIOUS
  <2>1. Phase = "off"
    BY PhaseValues DEF Init
  <2>2. QED BY <2>1, TypeInit, AbstractTypes DEF Hybrid!Init
<1>2. IInv /\ IInv' /\ [ImporterNext]_vars => [Hybrid!Next]_Abstract
  <2> SUFFICES ASSUME IInv, IInv', [ImporterNext]_vars PROVE HybridStep
    BY DEF HybridStep
  <2>1. CASE UNCHANGED vars
    <3>1. UNCHANGED << Phase, time, z >>
      BY <2>1 DEF vars, Phase, Live
    <3>2. QED BY <3>1, Staying
  <2>2. QED BY <2>1, HybridLifeCycle, HybridValues, HybridNewDiscreteState, HybridEventStep
            DEF ImporterNext
<1>3. QED BY <1>1, <1>2, ImporterInvariant, PTL
      DEF ImporterSpec, FlowsAndJumps, Hybrid!Spec, Abstract

=============================================================================
