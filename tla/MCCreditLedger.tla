--------------------------- MODULE MCCreditLedger ---------------------------
(***************************************************************************)
(* CreditLedger on two scenes of commands that collide.  Members: two      *)
(* workspaces of one owner whose welcome credits race, a guest in one of   *)
(* them, one usage key reported for both, a report that costs nothing, and *)
(* an administrator's gift.  Desk: one workspace, where charges and an     *)
(* order bought and refunded meet an administrator's deductions and        *)
(* changes of status.  A behaviour plays one of the two.                   *)
(***************************************************************************)
EXTENDS CreditLedger

CONSTANTS w1, w2, user, guest, key, free, order

VARIABLE scene

MCIds == {user, guest, key, free, order}
MCOwner == [w \in Workspaces |-> user]

Cmd(type, ws, id, amount) ==
    [type |-> type, ws |-> ws, id |-> id, amount |-> amount, force |-> FALSE]

MemberCommands ==
    {Cmd("WELCOME_GRANT", w, user, 2) : w \in {w1, w2}}
    \cup {Cmd("USAGE", w, key, 1) : w \in {w1, w2}}
    \cup {Cmd("WELCOME_GRANT", w2, guest, 2), Cmd("USAGE", w1, free, 0), Cmd("ADMIN_GRANT", w2, NoId, 1)}

DeskCommands ==
    {Cmd("USAGE", w1, key, 2),
     Cmd("PURCHASE", w1, order, 1),
     Cmd("REFUND_CLAWBACK", w1, order, 1),
     Cmd("ADMIN_DEDUCT", w1, NoId, 1),
     [Cmd("ADMIN_DEDUCT", w1, NoId, 1) EXCEPT !.force = TRUE],
     Cmd("ACCOUNT_SUSPENDED", w1, NoId, 0),
     Cmd("ACCOUNT_REACTIVATED", w1, NoId, 0)}

MCCommands == MemberCommands \cup DeskCommands

MCInit == LedgerInit /\ scene \in {"members", "desk"}
Played == IF scene = "members" THEN MemberCommands ELSE DeskCommands
MCNext ==
    /\ LedgerNext
    /\ UNCHANGED scene
    /\ \A p \in Workers : cmd'[p] \in Played \cup {NoCommand}

(* CreditLedger's FairLedgerSpec; the steps it is fair to bring no new request,  *)
(* so the scene never stops them.                                          *)
MCSpec ==
    /\ MCInit
    /\ [][MCNext]_<<ledgerVars, scene>>
    /\ \A p \in Workers : SF_ledgerVars(Work(p) \/ Lock(p))
=============================================================================
