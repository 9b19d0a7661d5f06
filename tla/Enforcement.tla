------------------------------- MODULE Enforcement -------------------------------
(***************************************************************************)
(* What a governor promises of the intervention on its destination,        *)
(* without demand, authority, identities or clocks: how it comes to life,  *)
(* how it is strengthened, eased and ended, and what calls for each.       *)
(*                                                                         *)
(* A window is quiet unless it is an incident in itself.  An incident      *)
(* raises an alarm, which a run of quiet windows as long as the dwell      *)
(* ends.  An intervention comes into force only while there is an alarm,   *)
(* is eased only when there is none, and after a restart or a new policy   *)
(* has to come into force anew.                                            *)
(***************************************************************************)
EXTENDS Naturals

VARIABLES
    life,       \* the state of the live intervention, "None" without one
    strength,   \* how much it reduces; 0 without one
    alarmed,    \* the last recorded window counts as an incident
    calm,       \* the run of quiet windows; its growth may be capped
    dwell       \* the quiet windows that end an alarm

InForce == life \in {"Active", "Relaxing"}

Init ==
    /\ life = "None" /\ strength = 0
    /\ alarmed = FALSE /\ calm = 0
    /\ dwell \in Nat

Counted(quiet) == IF quiet THEN calm' \in 0..(calm + 1) ELSE calm' = 0

Recorded(quiet) ==
    /\ Counted(quiet)
    /\ alarmed' = (~quiet \/ (alarmed /\ calm + 1 < dwell))
    /\ UNCHANGED dwell

-----------------------------------------------------------------------------
(* Windows. *)

(* What is in force waits for another incident or the end of the alarm.    *)
Intervene(quiet) ==
    /\ Recorded(quiet) /\ alarmed'
    /\ quiet => ~InForce
    /\ life' = "Active" /\ strength' \in Nat

Leave(quiet) ==
    /\ Recorded(quiet)
    /\ UNCHANGED <<life, strength>>

(* What is not in force stays out of it. *)
Ease ==
    /\ Recorded(TRUE) /\ ~alarmed'
    /\ life # "None"
    /\ life' = IF life = "Active" THEN "Relaxing" ELSE life
    /\ strength' \in 0..strength

Ended == life' = "None" /\ strength' = 0

Finish ==
    /\ Recorded(TRUE) /\ ~alarmed'
    /\ Ended

(* A window of an authority or a time that the intervention does not       *)
(* belong to; it is not recorded.                                          *)
Fence(quiet) ==
    /\ life # "None" /\ Ended
    /\ Counted(quiet)
    /\ UNCHANGED <<alarmed, dwell>>

-----------------------------------------------------------------------------
(* Other calls. *)

(* It is retired, or the governor shut down. *)
Stop ==
    /\ Ended
    /\ calm' \in {0, calm}
    /\ UNCHANGED <<alarmed, dwell>>

Doubted == IF life = "None" THEN "None" ELSE "Revalidating"

Reconfigure ==
    /\ life' \in {life, Doubted}
    /\ dwell' \in Nat
    /\ UNCHANGED <<strength, alarmed, calm>>

(* Another process goes on from the saved state. *)
Restart ==
    /\ life' = Doubted
    /\ calm' = 0
    /\ dwell' \in Nat
    /\ UNCHANGED <<strength, alarmed>>

(* From no state at all. *)
Forget ==
    /\ Ended
    /\ alarmed' = FALSE /\ calm' = 0
    /\ dwell' \in Nat

Next ==
    \/ \E quiet \in BOOLEAN : Intervene(quiet) \/ Leave(quiet) \/ Fence(quiet)
    \/ Ease
    \/ Finish
    \/ Stop
    \/ Reconfigure
    \/ Restart
    \/ Forget

Spec == Init /\ [][Next]_<<life, strength, alarmed, calm, dwell>>
==================================================================================
