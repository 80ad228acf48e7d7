--------------------------- MODULE PositionManager ---------------------------
(***************************************************************************)
(* Another thread of daemons/main.py: PositionManager.tick.  It lists the  *)
(* held positions once, marks each of them, and asks for the exit of those *)
(* that were 'open' in that list: it inserts a closing recommendation and  *)
(* then, in a second transaction, sets the position to 'closing'.  Marks   *)
(* and the exit rules are not modelled here: any open position may get an  *)
(* exit decision, and a position without quotes gets none.                 *)
(***************************************************************************)
EXTENDS DeskTables

VARIABLE manager     \* the locals of the tick

ManagerTypeOK ==
  manager \in [pc : {"idle", "scan", "closing"}, todo : SUBSET DOMAIN positions,
               position : 0 .. Len(positions)]

IdleManager == [pc |-> "idle", todo |-> {}, position |-> 0]

ManagerInit == manager = IdleManager

ListHeld ==          \* mutant of ListPositions
  /\ manager.pc = "idle"
  /\ Held # {}
  /\ manager' = [IdleManager EXCEPT !.pc = "scan", !.todo = Held]
  /\ UNCHANGED deskVars

(***************************************************************************)
(* Positions listed as 'closing' are only marked: they need no entry.      *)
(***************************************************************************)
ListPositions ==
  LET open == {p \in DOMAIN positions : positions[p].status = "open"}
  IN  /\ manager.pc = "idle"
      /\ open # {}
      /\ manager' = [IdleManager EXCEPT !.pc = "scan", !.todo = open]
      /\ UNCHANGED deskVars

(***************************************************************************)
(* The list is worked off in the order of opening.                         *)
(***************************************************************************)
Due(p) == p \in manager.todo /\ \A q \in manager.todo : p <= q

PassedOver ==        \* no quotes, no exit, or a pending close exists
  /\ manager.pc = "scan"
  /\ \E p \in manager.todo :
       /\ Due(p)
       /\ manager' = [manager EXCEPT !.todo = @ \ {p}]
  /\ UNCHANGED deskVars

(***************************************************************************)
(* Only this thread inserts closing recommendations, so _has_pending_close *)
(* is taken together with the insert that follows it.                      *)
(***************************************************************************)
EmitClose ==
  /\ manager.pc = "scan"
  /\ \E p \in manager.todo :
       /\ Due(p)
       /\ PendingClose(p) = {}
       /\ InsertRec(PositionManager, p, 0)
       /\ manager' = [manager EXCEPT !.pc = "closing", !.todo = @ \ {p},
                                     !.position = p]
  /\ UNCHANGED <<orders, positions, cash, slipped, crashes, faults>>

SetClosing ==
  /\ manager.pc = "closing"
  /\ UpdatePosition(manager.position, "closing", 0)
  /\ manager' = [manager EXCEPT !.pc = "scan", !.position = 0]
  /\ UNCHANGED <<recs, orders, cash, slipped, crashes, faults>>

ScanEnd ==
  /\ manager.pc = "scan"
  /\ manager.todo = {}
  /\ manager' = IdleManager
  /\ UNCHANGED deskVars

ManagerRaises ==     \* nothing in the tick catches it: the tick is over
  /\ manager.pc # "idle"
  /\ faults < MaxFaults
  /\ faults' = faults + 1
  /\ manager' = IdleManager
  /\ UNCHANGED <<recs, orders, positions, cash, slipped, crashes>>

ManagerWorks == PassedOver \/ EmitClose \/ SetClosing \/ ScanEnd

=============================================================================
