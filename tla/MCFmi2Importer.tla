--------------------------- MODULE MCFmi2Importer ---------------------------
(* Instances of Fmi2Importer and Fmi2ModelExchange for TLC.                *)
EXTENDS Fmi2Importer

\* A caller that goes on after errors can count nbr_event_iter up forever.
Bounded == nbr_event_iter <= MaxIter /\ nbr_consec_time_events <= MaxConsecutive
=============================================================================
