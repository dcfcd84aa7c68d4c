------------------------------- MODULE Clock -------------------------------
(* The wall clock, in ticks; what is compared with it are whole ticks too. *)
EXTENDS Naturals

CONSTANT Horizon   \* bound: the last tick

ASSUME ClockAssumption == Horizon \in Nat

VARIABLE now

Passes == now < Horizon /\ now' = now + 1
=============================================================================
