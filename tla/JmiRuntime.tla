----------------------------- MODULE JmiRuntime -----------------------------
(***************************************************************************)
(* The state of one FMU instance behind the FMI functions: the part of     *)
(* jmi_t that jmi_me.c (initialization, global event iteration, integrator *)
(* steps, termination) and the get/set module jmi_get_set.c read and write.*)
(* fmi2_me.c, in module Fmi2ModelExchange, calls the operators below; the  *)
(* parameter ok of an operator is the result of the C function.            *)
(*                                                                         *)
(* The model equations are generated code (jmi_t.model).  They are modelled*)
(* by how the runtime calls them: an evaluation succeeds or fails, and what*)
(* it may write is given by Outcomes.                                      *)
(***************************************************************************)
EXTENDS Integers

CONSTANTS
  MaxTime,      \* times are 0 .. MaxTime; time events are matched exactly
  MaxIter,      \* max_iterations of jmi_event_iteration (30 in the code)
  Disc          \* values of the discrete variables (and of discrete inputs)

ASSUME TimeAssumption == MaxTime \in Nat
ASSUME IterAssumption == MaxIter \in Nat \ {0}
ASSUME DiscAssumption == 0 \in Disc

Times == 0 .. MaxTime
NoTime == MaxTime + 1       \* "not defined"; later than every time
EXACT == 0                  \* JMI_TIME_EXACT
GREATER == 1                \* JMI_TIME_GREATER
MaxConsecutive == 2         \* phases handled at one time event

VARIABLES
  is_initialized, user_terminate, model_terminate,
  time,                           \* z[offs_t]
  nextTimeEvent,                  \* [time, phase]; NoTimeEvent if not defined
  atEvent, atInitial, atTimeEvent, eventPhase,
  save_restore_solver_state_mode,
  nbr_event_iter, nbr_consec_time_events,
  events_epsilon, tmp_events_epsilon,   \* 0, or 1 for any positive value
  recomputeVariables, recompute_init_dependent, updated_states,
  z,            \* discrete part of z: [d, pre, u], u a discrete input
  z_last,       \* last successful values of the same
  call,         \* where in jmi_event_iteration the control is; "idle": no call
  event_info,   \* [converged, svc, next]: the jmi_event_info_t of that call
  saved_svc,    \* state_values_changed kept by the outer frames of its recursion
  stale,        \* history: the variables were not computed from the present time,
                \* states, inputs and parameters, the dependent ones as they are kept
  dependents,   \* history: the dependent parameters are "current", or an independent
                \* one was set since, before the initialization ("early") or after ("late")
  unreported    \* history: states changed at an event, importer not yet told

timeEventVars == << nextTimeEvent, atTimeEvent, eventPhase, nbr_consec_time_events >>
modeVars == << atEvent, atInitial, save_restore_solver_state_mode >>
epsVars == << events_epsilon, tmp_events_epsilon >>
callVars == << nbr_event_iter, call, event_info, saved_svc >>
dependentVars == << recompute_init_dependent, dependents >>
dirtyVars == << recomputeVariables, dependentVars >>
evalVars == << model_terminate, updated_states, unreported >>
jmiVars == << is_initialized, user_terminate, time, timeEventVars, modeVars,
              epsVars, callVars, dirtyVars, evalVars, z, z_last, stale >>

NoTimeEvent == [time |-> NoTime, phase |-> EXACT]
TimeEvents == [time : Times, phase : {EXACT, GREATER}] \cup {NoTimeEvent}

-----------------------------------------------------------------------------
(***************************************************************************)
(* What one evaluation of the generated equations may write.  Relations,   *)
(* when-clauses and the choice of dynamic states are frozen unless         *)
(* jmi->atInitial || jmi->atEvent; terminate() sets model_terminate.       *)
(***************************************************************************)
Outcomes(frozen) ==
  [d : IF frozen THEN {z.d} ELSE Disc,
   term : BOOLEAN,
   upd : IF frozen THEN {FALSE} ELSE BOOLEAN]

\* A mutant of Frozen: relations also switch during the integration.
NeverFrozen == FALSE

Frozen == ~(atEvent \/ atInitial)

\* The flags an evaluation sets: terminate() and jmi_dynamic_state_update_states.
Flags(o) ==
  /\ model_terminate' = (model_terminate \/ o.term)
  /\ updated_states' = (updated_states \/ o.upd)
  /\ unreported' = (unreported \/ o.upd)

\* A mutant of ClearEventFlags: the flag of the initial event is forgotten.
KeepInitialFlag == atEvent' = FALSE /\ UNCHANGED atInitial

\* Outside the event iteration no relation may switch.
ClearEventFlags == atEvent' = FALSE /\ atInitial' = FALSE

\* jmi_me_init: a fresh jmi_t with start values.  With ok = FALSE the start
\* values could not be evaluated and the copy to the pre values is skipped.
MeInit(ok) ==
  /\ is_initialized' = FALSE /\ user_terminate' = FALSE /\ model_terminate' = FALSE
  /\ time' = 0
  /\ nextTimeEvent' = NoTimeEvent /\ eventPhase' = EXACT
  /\ ClearEventFlags
  /\ save_restore_solver_state_mode' = FALSE
  /\ nbr_event_iter' = 0 /\ nbr_consec_time_events' = 0
  /\ events_epsilon' = 1
  /\ recomputeVariables' = TRUE /\ recompute_init_dependent' = TRUE
  /\ updated_states' = FALSE
  /\ \E dd \in Disc, uu \in Disc :
       z' = [d |-> dd, pre |-> IF ok THEN dd ELSE 0, u |-> uu]
  /\ z_last' = [d |-> 0, pre |-> 0, u |-> 0]
  /\ stale' = TRUE /\ unreported' = FALSE /\ dependents' = "early"

\* jmi_setup_experiment: the tolerance gives a positive events_epsilon.
SetupTolerances ==
  /\ events_epsilon' = 1
  /\ UNCHANGED tmp_events_epsilon

\* A mutant of SaveLast: the values before the final evaluation are saved.
SaveEarlier == z_last' = z

\* jmi_save_last_successful_values, once z' is known.
SaveLast == z_last' = z'

\* A mutant of SetTimeImpl: only a step forward marks the variables.
SetTimeForward(t) ==
  /\ time' = t
  /\ recomputeVariables' = (recomputeVariables \/ t > time)
  /\ stale' = (stale \/ t # time)
  /\ z' = IF t < time /\ is_initialized THEN z_last ELSE z

\* jmi_set_time_impl; going back in time restores the last successful values
\* (jmi_reset_internal_variables keeps time, states and Real inputs only).
SetTimeImpl(t) ==
  /\ time' = t
  /\ recomputeVariables' = (recomputeVariables \/ t # time)
  /\ stale' = (stale \/ t # time)
  /\ z' = IF t < time /\ is_initialized THEN z_last ELSE z

\* jmi_init_eval_dependent, called when recompute_init_dependent may be set; it
\* evaluates nothing once the initialization is done.
NeedsDependent == recompute_init_dependent /\ ~is_initialized

EvalDependent ==
  /\ recompute_init_dependent' = (recompute_init_dependent /\ is_initialized)
  /\ dependents' = IF NeedsDependent THEN "current" ELSE dependents

-----------------------------------------------------------------------------
(* jmi_initialize                                                          *)

\* Only one initialization is allowed; or the dependent parameters fail.
InitializeRefused(ok) ==
  /\ is_initialized \/ recompute_init_dependent
  /\ ~ok
  /\ UNCHANGED jmiVars

\* The initial equations have no solution: events_epsilon is already saved
\* and cleared, and the event flags are set; nothing is undone.
InitialEquationsFail(ok) ==
  /\ ~is_initialized /\ ~ok
  /\ atEvent' = TRUE /\ atInitial' = TRUE
  /\ tmp_events_epsilon' = events_epsilon /\ events_epsilon' = 0
  /\ EvalDependent
  /\ stale' = TRUE
  /\ \E o \in Outcomes(FALSE) : Flags(o) /\ z' = [z EXCEPT !.d = o.d]
  /\ UNCHANGED << is_initialized, user_terminate, time, timeEventVars,
                  save_restore_solver_state_mode, callVars, recomputeVariables, z_last >>

\* The initial equations are solved.  The delay blocks or the next time event
\* may still fail, with is_initialized already set.
InitialEquationsSolved(ok) ==
  /\ ~is_initialized
  /\ is_initialized' = TRUE
  /\ ClearEventFlags
  /\ save_restore_solver_state_mode' = TRUE
  /\ tmp_events_epsilon' = events_epsilon /\ events_epsilon' = 0
  /\ EvalDependent
  /\ stale' = FALSE
  /\ \E o \in Outcomes(FALSE) :
       /\ Flags(o)
       /\ z' = [z EXCEPT !.d = o.d, !.pre = o.d]
       /\ SaveLast
  /\ nextTimeEvent' \in IF ok THEN TimeEvents ELSE {nextTimeEvent, NoTimeEvent}
  /\ UNCHANGED << user_terminate, time, atTimeEvent, eventPhase, nbr_consec_time_events,
                  callVars, recomputeVariables >>

Initialize(ok) ==
  InitializeRefused(ok) \/ InitialEquationsFail(ok) \/ InitialEquationsSolved(ok)

-----------------------------------------------------------------------------
(* Setters and getters                                                     *)

SetTime(t, ok) ==
  /\ ok = ~user_terminate
  /\ IF ok THEN SetTimeImpl(t) ELSE UNCHANGED << time, recomputeVariables, stale, z >>
  /\ UNCHANGED << is_initialized, user_terminate, timeEventVars, modeVars, epsVars,
                  callVars, dependentVars, evalVars, z_last >>

\* jmi_set_continuous_states, and jmi_set_real for a Real input: changed says
\* whether some value differs from the present one.
SetContinuous(changed, ok) ==
  /\ ok = ~user_terminate
  /\ recomputeVariables' = (recomputeVariables \/ (ok /\ changed))
  /\ stale' = (stale \/ (ok /\ changed))
  /\ UNCHANGED << is_initialized, user_terminate, time, timeEventVars, modeVars, epsVars,
                  callVars, dependentVars, evalVars, z, z_last >>

\* jmi_set_integer, jmi_set_boolean of a discrete input.
SetDiscreteInput(v, ok) ==
  /\ ok = ~user_terminate
  /\ z' = IF ok THEN [z EXCEPT !.u = v] ELSE z
  /\ recomputeVariables' = (recomputeVariables \/ (ok /\ v # z.u))
  /\ stale' = (stale \/ (ok /\ v # z.u))
  /\ UNCHANGED << is_initialized, user_terminate, time, timeEventVars, modeVars, epsVars,
                  callVars, dependentVars, evalVars, z_last >>

\* An independent parameter is newer than those that depend on it.
SetSince == IF is_initialized THEN "late" ELSE "early"

\* A mutant of SetParameter: only the dependent parameters are marked.
SetParameterDependentOnly(ok) ==
  /\ ok => ~user_terminate
  /\ recompute_init_dependent' = (recompute_init_dependent \/ ok)
  /\ dependents' = IF ok THEN SetSince ELSE dependents
  /\ stale' = (stale \/ ok)
  /\ UNCHANGED << is_initialized, user_terminate, time, timeEventVars, modeVars, epsVars,
                  callVars, recomputeVariables, evalVars, z, z_last >>

\* Setting a parameter (index before offs_real_dx) also marks the dependent
\* parameters; ok = FALSE is a constant or final/evaluated/dependent parameter.
SetParameter(ok) ==
  /\ ok => ~user_terminate
  /\ recompute_init_dependent' = (recompute_init_dependent \/ ok)
  /\ dependents' = IF ok THEN SetSince ELSE dependents
  /\ recomputeVariables' = (recomputeVariables \/ ok)
  /\ stale' = (stale \/ ok)
  /\ UNCHANGED << is_initialized, user_terminate, time, timeEventVars, modeVars, epsVars,
                  callVars, evalVars, z, z_last >>

\* jmi_get_update under jmi_get_real/integer/boolean/string.
NeedsEvaluation == recomputeVariables /\ is_initialized /\ ~user_terminate
GetVariables(ok) ==
  \/ /\ NeedsDependent /\ ~ok
     /\ UNCHANGED << dependentVars, recomputeVariables, stale, z, evalVars >>
     /\ UNCHANGED << is_initialized, user_terminate, time, timeEventVars, modeVars,
                     epsVars, callVars, z_last >>
  \/ /\ EvalDependent
     /\ IF NeedsEvaluation
          THEN \E o \in Outcomes(Frozen) :
                 /\ Flags(o)
                 /\ z' = IF ok THEN [z EXCEPT !.d = o.d] ELSE z_last
                 /\ recomputeVariables' = ~ok
                 /\ stale' = ~ok
          ELSE ok /\ UNCHANGED << recomputeVariables, stale, z, evalVars >>
     /\ UNCHANGED << is_initialized, user_terminate, time, timeEventVars, modeVars,
                     epsVars, callVars, z_last >>

\* jmi_get_derivatives_impl, jmi_get_event_indicators_impl: a failing
\* evaluation is retried once from the last successful values.  After the
\* evaluation the result may still be refused (NaN, event indicators fail).
GetEvaluated(ok) ==
  /\ IF recomputeVariables /\ ~user_terminate
       THEN \E o \in Outcomes(Frozen), retried \in BOOLEAN, solved \in BOOLEAN :
              /\ ok => solved
              /\ Flags(o)
              /\ z' = CASE ~solved -> z_last
                        [] solved /\ retried ->
                             [z_last EXCEPT !.d = IF Frozen THEN z_last.d ELSE o.d]
                        [] OTHER -> [z EXCEPT !.d = o.d]
              /\ recomputeVariables' = ~solved
              /\ stale' = ~solved
       ELSE UNCHANGED << recomputeVariables, stale, z, evalVars >>
  /\ UNCHANGED << is_initialized, user_terminate, time, timeEventVars, modeVars, epsVars,
                  callVars, dependentVars, z_last >>

-----------------------------------------------------------------------------
(* jmi_completed_integrator_step and jmi_update_and_terminate              *)

\* The delay blocks are sampled first; when they fail nothing is saved.
CompletedIntegratorStep(ok) ==
  /\ UNCHANGED << is_initialized, user_terminate, time, timeEventVars, modeVars, epsVars,
                  callVars, dirtyVars, evalVars, z, stale >>
  /\ IF ok THEN SaveLast ELSE UNCHANGED z_last

UpdateAndTerminate(ok) ==
  /\ user_terminate' = (user_terminate \/ ok)
  /\ IF recomputeVariables
       THEN \E o \in Outcomes(Frozen) :
              /\ Flags(o)
              /\ z' = [z EXCEPT !.d = o.d]
              /\ recomputeVariables' = ~ok
              /\ stale' = ~ok
       ELSE ok /\ UNCHANGED << recomputeVariables, stale, z, evalVars >>
  /\ UNCHANGED << is_initialized, time, timeEventVars, modeVars, epsVars, callVars,
                  dependentVars, z_last >>

-----------------------------------------------------------------------------
(***************************************************************************)
(* jmi_event_iteration with intermediate_results = TRUE.  One call runs    *)
(* IterationStart (only when nbr_event_iter = 0), at most one Iteration,   *)
(* and, once converged, FinalStep; a second phase at the same time event   *)
(* recurses into IterationStart.  An action with ok = FALSE, or that sets  *)
(* call to "idle", ends the call.                                          *)
(***************************************************************************)
\* A mutant of ReportedStates: the outer frames of the recursion are forgotten.
InnerStates(updated) == event_info.svc \/ updated

\* state_values_changed when the call returns OK: that of this frame, of the
\* outer frames of the recursion, and jmi->updated_states.
ReportedStates(updated) == event_info.svc \/ saved_svc \/ updated

\* No convergence under the allowed number of iterations.
IterationsExhausted == nbr_event_iter + 1 >= MaxIter

FreshInfo == [converged |-> FALSE, svc |-> FALSE, next |-> NoTime]

\* needed is fmiEventInfo->newDiscreteStatesNeeded as the importer passes it.
EnterEventIteration(needed, svc, next) ==
  /\ call = "idle"
  /\ call' = CASE nbr_event_iter = 0 -> "start"
               [] nbr_event_iter # 0 /\ needed -> "iterate"
               [] OTHER -> "final"
  /\ event_info' = [converged |-> ~needed, svc |-> svc, next |-> next]
  /\ saved_svc' = FALSE
  /\ UNCHANGED << is_initialized, user_terminate, time, timeEventVars, modeVars, epsVars,
                  nbr_event_iter, dirtyVars, evalVars, z, z_last, stale >>

\* The initial evaluation, or the completed step of the blocks, fails.
IterationStartFails ==
  /\ call = "start"
  /\ call' = "idle"
  /\ event_info' = FreshInfo
  /\ saved_svc' = FALSE
  /\ \E o \in Outcomes(Frozen) :
       /\ model_terminate' = o.term
       /\ updated_states' = (updated_states \/ o.upd)
       /\ unreported' = (unreported \/ o.upd)
       /\ z' = [z EXCEPT !.d = o.d]
  /\ stale' = TRUE
  /\ UNCHANGED << is_initialized, user_terminate, time, timeEventVars, modeVars, epsVars,
                  nbr_event_iter, dirtyVars, z_last >>

\* The event flags are set; having passed the next time event is an error.
IterationStart(ok) ==
  /\ call = "start"
  /\ event_info' = FreshInfo
  /\ \E o \in Outcomes(Frozen) :
       /\ model_terminate' = o.term
       /\ updated_states' = (updated_states \/ o.upd)
       /\ unreported' = (unreported \/ o.upd)
       /\ z' = [z EXCEPT !.d = o.d]
  /\ stale' = FALSE
  /\ atEvent' = TRUE
  /\ save_restore_solver_state_mode' = FALSE
  /\ atTimeEvent' = (nextTimeEvent.time = time)
  /\ eventPhase' = IF nextTimeEvent.time = time THEN nextTimeEvent.phase ELSE GREATER
  /\ ok = (time <= nextTimeEvent.time)
  /\ call' = IF ok THEN "iterate" ELSE "idle"
  /\ saved_svc' = (saved_svc /\ ok)
  /\ UNCHANGED << is_initialized, user_terminate, time, nextTimeEvent,
                  nbr_consec_time_events, atInitial, epsVars, nbr_event_iter,
                  dirtyVars, z_last >>

\* One pass of the loop up to the evaluation, which fails.
IterationFails ==
  /\ call = "iterate"
  /\ call' = "idle"
  /\ nbr_event_iter' = nbr_event_iter + 1
  /\ saved_svc' = FALSE
  /\ \E o \in Outcomes(Frozen) :
       /\ Flags(o)
       /\ z' = [z EXCEPT !.pre = z.d, !.d = o.d]
  /\ stale' = TRUE
  /\ UNCHANGED << is_initialized, user_terminate, time, timeEventVars, modeVars, epsVars,
                  event_info, dirtyVars, z_last >>

\* One pass of the loop.  reinit: "no", or a reinit triggered that changed a
\* state ("changed") or changed none ("same", an error).
Iteration(reinit, ok) ==
  /\ call = "iterate"
  /\ nbr_event_iter' = nbr_event_iter + 1
  /\ \E o \in Outcomes(Frozen) :
       LET converged == reinit = "no" /\ o.d = z.d
       IN /\ z' = [z EXCEPT !.pre = z.d, !.d = o.d]
          /\ model_terminate' = (model_terminate \/ o.term)
          /\ updated_states' =
               IF ok /\ ~converged THEN FALSE ELSE updated_states \/ o.upd
          /\ unreported' = (unreported \/ o.upd \/ reinit # "no")
          /\ event_info' =
               [event_info EXCEPT !.converged = converged,
                  !.svc = event_info.svc \/ reinit # "no"
                    \/ (ok /\ ~converged /\ ReportedStates(updated_states \/ o.upd))]
          /\ call' = IF ok /\ converged THEN "final" ELSE "idle"
          /\ saved_svc' = (saved_svc /\ ok /\ converged)
  /\ ok = (reinit # "same" /\ ~IterationsExhausted)
  /\ stale' = (reinit # "no")
  /\ UNCHANGED << is_initialized, user_terminate, time, timeEventVars, modeVars, epsVars,
                  dirtyVars, z_last >>

\* The final evaluation has atEvent FALSE: relations are frozen, the Booleans
\* of sample() fall back.
FinalOutcomes == [d : Disc, term : BOOLEAN, upd : {FALSE}]

\* Mutants of RestoredEpsilon: it is left alone; it is added.
KeptEpsilon == events_epsilon
AddedEpsilon == events_epsilon + tmp_events_epsilon

\* An events_epsilon of 0 is due to the initialization.
RestoredEpsilon == IF events_epsilon = 0 THEN tmp_events_epsilon ELSE events_epsilon

\* What the final step does before anything in it can fail.
LeaveEvent ==
  /\ call = "final"
  /\ nbr_event_iter' = 0
  /\ events_epsilon' = RestoredEpsilon
  /\ atEvent' = FALSE
  /\ \E o \in FinalOutcomes :
       /\ model_terminate' = (model_terminate \/ o.term)
       /\ z' = [z EXCEPT !.d = o.d]
  /\ UNCHANGED << is_initialized, user_terminate, time, atInitial, atTimeEvent, eventPhase,
                  tmp_events_epsilon, dependentVars >>

\* A mutant of Upcoming: the check of the next time event is dropped.
AnyEvent == TimeEvents

\* A next time event before the present time is an error.
Upcoming == {e \in TimeEvents : e.time >= time}

\* The evaluation fails; or, after it, the delay sampling, the computation of
\* the next time event (also when it lies in the past), or the blocks.
FinalStepFails ==
  /\ LeaveEvent
  /\ call' = "idle" /\ saved_svc' = FALSE
  /\ \/ /\ stale' = TRUE
        /\ UNCHANGED << recomputeVariables, nextTimeEvent, save_restore_solver_state_mode, z_last >>
     \/ /\ stale' = FALSE /\ recomputeVariables' = FALSE
        /\ \/ /\ nextTimeEvent' \in
                   {nextTimeEvent, NoTimeEvent} \cup (TimeEvents \ Upcoming)
              /\ UNCHANGED << save_restore_solver_state_mode, z_last >>
           \/ /\ nextTimeEvent' \in Upcoming
              /\ save_restore_solver_state_mode' = TRUE
              /\ SaveLast
  /\ UNCHANGED << nbr_consec_time_events, event_info, updated_states, unreported >>

\* jmi_exists_grt_than_time_event, after the next time event is computed.
SecondPhase(next, terminate) ==
  /\ ~terminate
  /\ atTimeEvent /\ eventPhase = EXACT
  /\ next.time = time

\* A mutant of OneMorePhase: they are not.
NoMorePhase == nbr_consec_time_events

\* The phases handled at one time event are counted.
OneMorePhase == nbr_consec_time_events + 1

\* The final step succeeds up to the second phase of the present time event,
\* which recurses; the third in a row is an error.
FinalStep(ok) ==
  /\ LeaveEvent
  /\ stale' = FALSE /\ recomputeVariables' = FALSE
  /\ save_restore_solver_state_mode' = TRUE
  /\ SaveLast
  /\ nextTimeEvent' \in Upcoming
  /\ IF SecondPhase(nextTimeEvent', model_terminate')
       THEN /\ nbr_consec_time_events' = OneMorePhase
            /\ ok = (nbr_consec_time_events' <= MaxConsecutive)
            /\ call' = IF ok THEN "start" ELSE "idle"
            /\ saved_svc' = (ok /\ (saved_svc \/ event_info.svc))
            /\ event_info' = [event_info EXCEPT !.next = nextTimeEvent'.time]
            /\ UNCHANGED << updated_states, unreported >>
       ELSE /\ ok
            /\ nbr_consec_time_events' = 0
            /\ call' = "idle"
            /\ saved_svc' = FALSE
            /\ updated_states' = FALSE
            /\ event_info' = [event_info EXCEPT !.next = nextTimeEvent'.time,
                                                !.svc = ReportedStates(updated_states)]
            /\ unreported' = (unreported /\ ~event_info'.svc)
=============================================================================
