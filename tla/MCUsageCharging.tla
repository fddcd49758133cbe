-------------------------- MODULE MCUsageCharging --------------------------
(***************************************************************************)
(* A good charge and one that billing refuses, a list that is full with    *)
(* one entry, and the retriers of both services.                           *)
(***************************************************************************)
EXTENDS UsageCharging

CONSTANTS good, bad

MCCharges == {good, bad}
MCMalformed == {bad}
=============================================================================
