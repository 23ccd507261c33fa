-------------------------- MODULE Fmi2ModelExchange --------------------------
(***************************************************************************)
(* The FMI 2.0 Model Exchange interface of one FMU (fmi2_me.c) on top of   *)
(* the runtime.  Any caller: every function may be called at any time, with*)
(* any arguments, and only the checks the code makes restrict it.  A       *)
(* component is not re-entrant, so a call starts when no call is running.  *)
(* An FMU is used by one thread; jmi_event_iteration is nevertheless split *)
(* into its steps, because an iteration spans several calls.               *)
(***************************************************************************)
EXTENDS JmiRuntime

VARIABLES
  fmu_mode,     \* fmi2_me_t.fmu_mode; "none": no instance
  stopTime,     \* fmi2_me_t.stopTime
  info,         \* the caller's fmi2EventInfo: [needed, svc, next]
  failed        \* history: a call returned fmi2Error since the last reset

vars == << jmiVars, fmu_mode, stopTime, info, failed >>

Modes == {"none", "instantiatedMode", "initializationMode", "eventMode", "continuousTimeMode"}
fmiVars == << fmu_mode, stopTime, info >>

Init ==
  /\ is_initialized = FALSE /\ user_terminate = FALSE /\ model_terminate = FALSE
  /\ time = 0
  /\ nextTimeEvent = NoTimeEvent /\ atTimeEvent = FALSE /\ eventPhase = EXACT
  /\ nbr_consec_time_events = 0
  /\ atEvent = FALSE /\ atInitial = FALSE /\ save_restore_solver_state_mode = FALSE
  /\ events_epsilon = 1 /\ tmp_events_epsilon = 0
  /\ nbr_event_iter = 0 /\ call = "idle" /\ event_info = FreshInfo /\ saved_svc = FALSE
  /\ recomputeVariables = TRUE /\ recompute_init_dependent = TRUE /\ dependents = "early"
  /\ updated_states = FALSE /\ unreported = FALSE
  /\ z = [d |-> 0, pre |-> 0, u |-> 0] /\ z_last = z
  /\ stale = TRUE
  /\ fmu_mode = "none" /\ stopTime = MaxTime
  /\ info = [needed |-> FALSE, svc |-> FALSE, next |-> NoTime]
  /\ failed = FALSE

\* fmi2OK or fmi2Error to the caller.
Return(ok) == failed' = (failed \/ ~ok)

Called == call = "idle" /\ fmu_mode # "none"

-----------------------------------------------------------------------------
(* Life of the instance                                                    *)

\* fmi2_instantiate; a failing one frees the component again and is no step.
Instantiate ==
  /\ fmu_mode = "none"
  /\ fmu_mode' = "instantiatedMode"
  /\ stopTime' = MaxTime
  /\ info' = [needed |-> FALSE, svc |-> FALSE, next |-> NoTime]
  /\ failed' = FALSE
  /\ MeInit(TRUE)
  /\ atTimeEvent' = FALSE /\ tmp_events_epsilon' = 0
  /\ event_info' = FreshInfo
  /\ UNCHANGED << call, saved_svc >>

FreeInstance ==
  /\ Called
  /\ fmu_mode' = "none"
  /\ UNCHANGED << jmiVars, stopTime, info, failed >>

\* The result of jmi_me_init is not looked at.
Reset(ok) ==
  /\ Called
  /\ fmu_mode' = "instantiatedMode"
  /\ stopTime' = MaxTime
  /\ failed' = FALSE
  /\ MeInit(ok)
  /\ UNCHANGED << atTimeEvent, tmp_events_epsilon, call, event_info, saved_svc, info >>

\* fmi2_set_time: the stop time is checked first.
SetTimeCall(t, stop, ok) ==
  IF stop < t
    THEN ~ok /\ UNCHANGED << time, recomputeVariables, stale, z >>
    ELSE /\ ok = ~user_terminate
         /\ IF ok THEN SetTimeImpl(t) ELSE UNCHANGED << time, recomputeVariables, stale, z >>

SetupExperiment(t, stop, ok) ==
  /\ Called /\ fmu_mode = "instantiatedMode"
  /\ SetupTolerances
  /\ stopTime' = stop
  /\ SetTimeCall(t, stop, ok)
  /\ Return(ok)
  /\ UNCHANGED << is_initialized, user_terminate, timeEventVars, modeVars, callVars,
                  dependentVars, evalVars, z_last, fmu_mode, info >>

EnterInitializationMode(ok) ==
  /\ Called /\ fmu_mode = "instantiatedMode"
  /\ Initialize(ok)
  /\ fmu_mode' = IF ok THEN "initializationMode" ELSE fmu_mode
  /\ Return(ok)
  /\ UNCHANGED << stopTime, info >>

\* A function called in a mode it refuses; nothing is changed.
RefusedCall ==
  /\ Called
  /\ failed' = TRUE
  /\ UNCHANGED << jmiVars, fmu_mode, stopTime, info >>

SwitchMode(from, to) ==
  /\ Called /\ fmu_mode = from
  /\ fmu_mode' = to
  /\ UNCHANGED << jmiVars, stopTime, failed >>

\* In event mode the caller starts by asking for new discrete states.
ExitInitializationMode ==
  SwitchMode("initializationMode", "eventMode") /\ info' = [info EXCEPT !.needed = TRUE]

EnterEventMode ==
  SwitchMode("continuousTimeMode", "eventMode") /\ info' = [info EXCEPT !.needed = TRUE]

EnterContinuousTimeMode ==
  SwitchMode("eventMode", "continuousTimeMode") /\ UNCHANGED info

\* No mode is required and the mode is kept.
Terminate(ok) ==
  /\ Called
  /\ UpdateAndTerminate(ok)
  /\ Return(ok)
  /\ UNCHANGED << fmu_mode, stopTime, info >>

-----------------------------------------------------------------------------
(* Setting and getting values: one operation of the runtime each           *)

Value(op, ok) == Called /\ op /\ Return(ok) /\ UNCHANGED fmiVars

\* fmi2_set_time
CallSetTime(t, ok) ==
  Value(/\ SetTimeCall(t, stopTime, ok)
        /\ UNCHANGED << is_initialized, user_terminate, timeEventVars, modeVars, epsVars,
                        callVars, dependentVars, evalVars, z_last >>, ok)

\* fmi2_set_continuous_states, fmi2_set_real
CallSetContinuous(changed, ok) == Value(SetContinuous(changed, ok), ok)

\* fmi2_set_integer, fmi2_set_boolean
CallSetDiscreteInput(v, ok) == Value(SetDiscreteInput(v, ok), ok)

CallSetParameter(ok) == Value(SetParameter(ok), ok)

\* fmi2_get_real, fmi2_get_integer, fmi2_get_boolean, fmi2_get_string
CallGetVariables(ok) == Value(GetVariables(ok), ok)

\* fmi2_get_derivatives, fmi2_get_event_indicators
CallGetEvaluated(ok) == Value(GetEvaluated(ok), ok)

CallCompletedIntegratorStep(ok) == Value(CompletedIntegratorStep(ok), ok)

-----------------------------------------------------------------------------
(* fmi2_new_discrete_state: the call, the steps of jmi_event_iteration, and*)
(* with the last of them the return, which copies the event information to *)
(* the caller's struct if it is OK.                                        *)

NewDiscreteState(needed, svc, next) ==
  /\ Called
  /\ EnterEventIteration(needed, svc, next)
  /\ info' = [needed |-> needed, svc |-> svc, next |-> next]
  /\ UNCHANGED << fmu_mode, stopTime, failed >>

ReturnEventInfo(ok) ==
  /\ Return(ok)
  /\ info' = IF ok /\ call' = "idle"
               THEN [needed |-> ~event_info'.converged,
                     svc |-> event_info'.svc, next |-> event_info'.next]
               ELSE info
  /\ UNCHANGED << fmu_mode, stopTime >>

StartEvent(ok) ==
  /\ \/ ~ok /\ IterationStartFails
     \/ IterationStart(ok)
  /\ ReturnEventInfo(ok)

IterateEvent(reinit, ok) ==
  /\ \/ ~ok /\ reinit = "no" /\ IterationFails
     \/ Iteration(reinit, ok)
  /\ ReturnEventInfo(ok)

FinishEvent(ok) ==
  /\ \/ ~ok /\ FinalStepFails
     \/ FinalStep(ok)
  /\ ReturnEventInfo(ok)

EventStep ==
  \E ok \in BOOLEAN :
    \/ StartEvent(ok)
    \/ \E reinit \in {"no", "same", "changed"} : IterateEvent(reinit, ok)
    \/ FinishEvent(ok)

-----------------------------------------------------------------------------
LifeCycle ==
  \/ Instantiate
  \/ FreeInstance
  \/ RefusedCall
  \/ ExitInitializationMode
  \/ EnterEventMode
  \/ EnterContinuousTimeMode
  \/ \E ok \in BOOLEAN :
       \/ Reset(ok)
       \/ EnterInitializationMode(ok)
       \/ Terminate(ok)
       \/ \E t, stop \in Times : SetupExperiment(t, stop, ok)

Values ==
  \E ok \in BOOLEAN :
    \/ \E t \in Times : CallSetTime(t, ok)
    \/ \E changed \in BOOLEAN : CallSetContinuous(changed, ok)
    \/ \E v \in Disc : CallSetDiscreteInput(v, ok)
    \/ CallSetParameter(ok)
    \/ CallGetVariables(ok)
    \/ CallGetEvaluated(ok)
    \/ CallCompletedIntegratorStep(ok)

Next ==
  \/ LifeCycle
  \/ Values
  \/ \E needed, svc \in BOOLEAN, next \in {info.next, NoTime} :
       NewDiscreteState(needed, svc, next)
  \/ EventStep

Spec == Init /\ [][Next]_vars

-----------------------------------------------------------------------------
DiscState == [d : Disc, pre : Disc, u : Disc]
EventInfos == [converged : BOOLEAN, svc : BOOLEAN, next : Times \cup {NoTime}]
CallerInfos == [needed : BOOLEAN, svc : BOOLEAN, next : Times \cup {NoTime}]

FlagTypes ==
  /\ is_initialized \in BOOLEAN /\ user_terminate \in BOOLEAN /\ model_terminate \in BOOLEAN
  /\ atEvent \in BOOLEAN /\ atInitial \in BOOLEAN /\ save_restore_solver_state_mode \in BOOLEAN
  /\ recomputeVariables \in BOOLEAN /\ recompute_init_dependent \in BOOLEAN
  /\ updated_states \in BOOLEAN /\ stale \in BOOLEAN /\ unreported \in BOOLEAN
  /\ dependents \in {"current", "early", "late"}

TimeTypes ==
  /\ time \in Times /\ stopTime \in Times
  /\ nextTimeEvent \in TimeEvents
  /\ atTimeEvent \in BOOLEAN /\ eventPhase \in {EXACT, GREATER}
  /\ nbr_consec_time_events \in Nat
  /\ events_epsilon \in {0, 1} /\ tmp_events_epsilon \in {0, 1}

CallTypes ==
  /\ call \in {"idle", "start", "iterate", "final"}
  /\ nbr_event_iter \in Nat
  /\ event_info \in EventInfos /\ saved_svc \in BOOLEAN
  /\ fmu_mode \in Modes /\ info \in CallerInfos /\ failed \in BOOLEAN

TypeOK ==
  /\ FlagTypes
  /\ TimeTypes
  /\ CallTypes
  /\ z \in DiscState /\ z_last \in DiscState

\* As long as no call failed, the getters serve cached values only if these
\* were computed from the present time, states, inputs and independent
\* parameters: every setter, and every failing or rolled back evaluation, has
\* marked them for recomputation (recomputeVariables in jmi_get_set.c, jmi_me.c).
\* Between the calls of one event iteration this is not promised.
CacheFresh ==
  is_initialized /\ ~failed /\ call = "idle" /\ nbr_event_iter = 0 /\ ~recomputeVariables
    => ~stale

\* Whatever failed before, dependent parameters older than an independent one
\* stay marked (recompute_init_dependent), and an initialization leaves none
\* that were outdated before it.  Those outdated after it are not evaluated
\* again (jmi.c:571): see DependentsReevaluated.
DependentsMarked ==
  /\ dependents # "current" => recompute_init_dependent
  /\ is_initialized => dependents # "early"

\* No outdated value without its mark: the computed variables and the
\* dependent parameters.
FreshUnlessMarked == CacheFresh /\ DependentsMarked

\* "Mark dependent parameters as dirty, triggering reevaluation on the next call
\* to jmi_init_eval_dependent" (jmi.h:602): a getter, which calls it
\* (jmi_get_set.c:182), serves dependent parameters computed from the present
\* independent ones.
DependentsReevaluated == [][CallGetVariables(TRUE) => dependents' = "current"]_vars

\* "If the event epsilon is 0 due to initialization of the system, reset it"
\* (jmi_me.c:699): a completed event iteration leaves a positive epsilon for
\* the event indicators of jmi_dae_R_perturbed.
EpsilonReset == [][call = "final" => events_epsilon' # 0]_vars
=============================================================================
