----------------------------- MODULE HybridTime -----------------------------
(***************************************************************************)
(* What a Model Exchange FMU promises the importer about time and discrete *)
(* state, whatever its equations are: a run is a sequence of flows, in     *)
(* which time moves (back too, when a trial step is rejected) and the      *)
(* discrete state stands still, and of jumps, in which the discrete state  *)
(* changes at one instant until it has settled.  Nothing is promised once a*)
(* call has failed or the simulation has been terminated ("off").          *)
(***************************************************************************)
CONSTANTS Instants, DiscreteStates

VARIABLES phase, time, disc

Phases == {"off", "setup", "jump", "settled", "flow"}

Init == phase = "off" /\ time \in Instants /\ disc \in DiscreteStates

ChooseIn(phases) == phase' \in phases /\ time' \in Instants /\ disc' \in DiscreteStates

\* A failure, a termination, or a reset: possible in every phase.
Leave == ChooseIn({"off", "setup"})

Start == phase = "setup" /\ phase' = "jump" /\ UNCHANGED << time, disc >>

Jump == /\ phase = "jump"
        /\ phase' \in {"jump", "settled"}
        /\ disc' \in DiscreteStates
        /\ UNCHANGED time

Settle == phase = "settled" /\ phase' = "flow" /\ UNCHANGED << time, disc >>

Flow == /\ phase = "flow"
        /\ time' \in Instants
        /\ UNCHANGED << phase, disc >>

Event == phase = "flow" /\ phase' = "jump" /\ UNCHANGED << time, disc >>

Next == Leave \/ Start \/ Jump \/ Settle \/ Flow \/ Event

Spec == Init /\ [][Next]_<< phase, time, disc >>
=============================================================================
