---------------------------- MODULE Fmi2Importer ----------------------------
(***************************************************************************)
(* The FMU of Fmi2ModelExchange driven by an importer that keeps to the    *)
(* calling sequence of the FMI 2.0 standard, as the co-simulation part of  *)
(* the same runtime does (fmi2_cs.c): it stops at the first error, sets    *)
(* time and completes steps in continuous-time mode only, never steps past *)
(* the next time event it was told, and iterates in event mode until no new*)
(* discrete states are needed.                                             *)
(***************************************************************************)
EXTENDS Fmi2ModelExchange

Live == ~failed /\ ~user_terminate

\* Setting up the instance and leaving it.
ImporterLifeCycle ==
  \/ Instantiate
  \/ FreeInstance
  \/ Live /\ ExitInitializationMode
  \/ Live /\ EnterEventMode
  \/ Live /\ ~info.needed /\ EnterContinuousTimeMode
  \/ \E ok \in BOOLEAN :
       \/ Reset(ok)
       \/ Live /\ EnterInitializationMode(ok)
       \/ Live /\ fmu_mode \in {"eventMode", "continuousTimeMode"} /\ Terminate(ok)
       \/ \E stop \in Times : Live /\ SetupExperiment(0, stop, ok)

\* Discrete inputs and parameters are set when no integration is going on.
ImporterValues ==
  /\ Live
  /\ \E ok \in BOOLEAN :
       \/ /\ fmu_mode = "continuousTimeMode"
          /\ \/ \E t \in Times : t <= info.next /\ CallSetTime(t, ok)
             \/ CallCompletedIntegratorStep(ok)
       \/ \E changed \in BOOLEAN : CallSetContinuous(changed, ok)
       \/ /\ fmu_mode # "continuousTimeMode"
          /\ \/ \E v \in Disc : CallSetDiscreteInput(v, ok)
             \/ CallSetParameter(ok)
       \/ CallGetVariables(ok)
       \/ /\ fmu_mode \in {"initializationMode", "eventMode", "continuousTimeMode"}
          /\ CallGetEvaluated(ok)

ImporterNewDiscreteState ==
  /\ Live /\ fmu_mode = "eventMode" /\ info.needed
  /\ NewDiscreteState(TRUE, info.svc, info.next)

ImporterNext ==
  ImporterLifeCycle \/ ImporterValues \/ ImporterNewDiscreteState \/ EventStep

ImporterSpec == Init /\ [][ImporterNext]_vars

-----------------------------------------------------------------------------
\* Until a call fails, the flags the generated code is compiled against agree
\* with the event iteration whenever the importer has control: relations may
\* switch (jmi->atEvent) exactly while an iteration is under way, and the block
\* solvers save and restore their state exactly while none is.
EventFlagsConsistent ==
  ~failed /\ call = "idle" =>
    /\ atEvent <=> nbr_event_iter > 0
    /\ ~atInitial
    /\ is_initialized => (save_restore_solver_state_mode <=> nbr_event_iter = 0)

Integrating == Live /\ fmu_mode = "continuousTimeMode"

\* When the integration starts or goes on, the relations have hysteresis again:
\* the epsilon cleared by the initialization (jmi_me.c:138) was put back.
HysteresisWhileIntegrating == Integrating => events_epsilon # 0

\* Going back in time, or retrying a failed evaluation, restores z_last.  While
\* integrating this never undoes or repeats an event: the last saved discrete
\* variables and pre values are the present ones.
RestoreNeutral == Integrating => z_last.d = z.d /\ z_last.pre = z.pre

\* A reinit or a new choice of dynamic states during an event, also in the
\* first of two phases at one time event, has been reported to the importer
\* in valuesOfContinuousStatesChanged before it integrates on.
StateChangeReported == Integrating => ~unreported

\* The next time event the importer was told is the one the FMU will insist on
\* (NextTimeEventPassed is an error), and it has not been passed.
NextEventTimeTold ==
  Integrating => info.next = nextTimeEvent.time /\ time <= nextTimeEvent.time

\* An input keeps its value when time goes back
\* (test_assimulo_interface_fmi.py:1699, test_reset_internal_variables).
InputKeptBackInTime == [][Integrating /\ fmu_mode' = fmu_mode /\ time' < time => z'.u = z.u]_vars

-----------------------------------------------------------------------------
\* The phase of HybridTime; an event has settled when no call is running and
\* no new discrete states are needed.
Phase ==
  CASE ~Live \/ fmu_mode = "none" -> "off"
    [] Live /\ fmu_mode \in {"instantiatedMode", "initializationMode"} -> "setup"
    [] Live /\ fmu_mode = "eventMode" /\ (info.needed \/ call # "idle") -> "jump"
    [] Live /\ fmu_mode = "eventMode" /\ ~info.needed /\ call = "idle" -> "settled"
    [] Live /\ fmu_mode = "continuousTimeMode" -> "flow"

Hybrid == INSTANCE HybridTime
            WITH Instants <- Times, DiscreteStates <- Disc \X Disc,
                 phase <- Phase, disc <- << z.d, z.pre >>

\* To the importer the FMU is a hybrid system: relations, pre values and
\* discrete variables stand still while time moves, time stands still during
\* an event, and a settled event stays settled until the integration starts.
FlowsAndJumps == Hybrid!Spec

-----------------------------------------------------------------------------
\* The importer's loop: it keeps asking for new discrete states, a running call
\* returns, and it leaves event mode when no more are needed.
Fairness ==
  /\ WF_vars(EventStep)
  /\ WF_vars(ImporterNewDiscreteState)
  /\ WF_vars(Live /\ ~info.needed /\ EnterContinuousTimeMode)

LiveSpec == ImporterSpec /\ Fairness

\* Every event comes to an end: whatever the equations compute, event mode is
\* left, by convergence or by an error, after a bounded number of iterations
\* and phases (max_iterations, nbr_consec_time_events).
EventEnds ==
  fmu_mode = "eventMode" ~> (fmu_mode # "eventMode" \/ ~Live)
=============================================================================
