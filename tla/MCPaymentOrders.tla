-------------------------- MODULE MCPaymentOrders --------------------------
(***************************************************************************)
(* One order, reported on by two threads at a time: every pair of events   *)
(* of an order meets in every order.                                       *)
(***************************************************************************)
EXTENDS PaymentOrders

CONSTANT workspace

MCWorkspaces == {workspace}
MCAccount == [o \in Orders |-> workspace]
MCPrice == [o \in Orders |-> 1]
MCCommands == UNION {{Purchase(o), ClawBack(o), Suspension(o)} : o \in Orders}
=============================================================================
