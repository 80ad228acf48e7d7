--------------------------- MODULE HumanOperators ---------------------------
(***************************************************************************)
(* People at the CLI (cli/tradectl.py) and at the REST API                 *)
(* (interfaces/api.py), each in a process of its own.  mode, halt and      *)
(* unhalt read the current cash row and append the new one in a single     *)
(* transaction.  approve and reject read the recommendation, read its      *)
(* latest order, then write the two rows in two transactions, from what    *)
(* they read.                                                              *)
(***************************************************************************)
EXTENDS DeskTables

CONSTANTS
  Operators,        \* the people
  SettableModes,    \* the modes they use
  RejectsCloses     \* whether they also reject closing recommendations

ASSUME OperatorAssumption ==
  /\ SettableModes \subseteq Modes
  /\ RejectsCloses \in BOOLEAN

VARIABLE human      \* per person, the locals of the command being run

IdleHuman == [pc |-> "idle", act |-> "reject", rec |-> 0, order |-> 0]

HumanTypeOK ==
  human \in [Operators ->
               [pc : {"idle", "order", "writeOrder", "writeRec"},
                act : {"approve", "reject"}, rec : 0 .. Len(recs),
                order : 0 .. Len(orders)]]

HumanInit == human = [h \in Operators |-> IdleHuman]

(***************************************************************************)
(* tradectl mode, halt, unhalt; POST /mode, /halt, /unhalt.                *)
(***************************************************************************)
SetMode(mode) ==
  /\ mode # cash.mode
  /\ cash' = [cash EXCEPT !.mode = mode]
  /\ slipped' = 0
  /\ UNCHANGED <<recs, orders, positions, crashes, faults>>

ReadRec(h, act, r) ==
  /\ human[h].pc = "idle"
  /\ IF act = "approve" THEN recs[r].status = "pending"
                        ELSE recs[r].status \in {"pending", "approved"}
  /\ IsOpening(r) \/ RejectsCloses
  /\ human' = [human EXCEPT ![h] = [IdleHuman EXCEPT !.pc = "order",
                                                     !.act = act, !.rec = r]]
  /\ UNCHANGED deskVars

(***************************************************************************)
(* get_latest_order_for_recommendation: ORDER BY id DESC LIMIT 1.          *)
(***************************************************************************)
LatestOrder(o, r) == o \in ActiveOrders(r) /\ \A n \in ActiveOrders(r) : n <= o

(***************************************************************************)
(* approve writes the recommendation first, reject the order first.        *)
(***************************************************************************)
ReadOrder(h) ==
  /\ human[h].pc = "order"
  /\ \E o \in DOMAIN orders :
       /\ LatestOrder(o, human[h].rec)
       /\ human' = [human EXCEPT
            ![h].order = o,
            ![h].pc = IF human[h].act = "approve" THEN "writeRec"
                                                  ELSE "writeOrder"]
  /\ UNCHANGED deskVars

NoOrder(h) ==        \* approve fails, reject has only the recommendation to write
  /\ human[h].pc = "order"
  /\ ActiveOrders(human[h].rec) = {}
  /\ human' = [human EXCEPT ![h] = IF human[h].act = "approve"
                                     THEN IdleHuman
                                     ELSE [human[h] EXCEPT !.pc = "writeRec"]]
  /\ UNCHANGED deskVars

ApproveRec(h) ==
  /\ human[h].pc = "writeRec" /\ human[h].act = "approve"
  /\ UpdateRec(human[h].rec, "approved")
  /\ human' = [human EXCEPT ![h].pc = "writeOrder"]
  /\ UNCHANGED <<orders, positions, cash, slipped, crashes, faults>>

ApproveOrder(h) ==   \* the order is written back as 'draft'
  /\ human[h].pc = "writeOrder" /\ human[h].act = "approve"
  /\ UpdateOrder(human[h].order, "draft")
  /\ human' = [human EXCEPT ![h] = IdleHuman]
  /\ UNCHANGED <<recs, positions, cash, slipped, crashes, faults>>

CancelOrder(h) ==
  /\ human[h].pc = "writeOrder" /\ human[h].act = "reject"
  /\ UpdateOrder(human[h].order, "cancelled")
  /\ human' = [human EXCEPT ![h].pc = "writeRec"]
  /\ UNCHANGED <<recs, positions, cash, slipped, crashes, faults>>

RejectRec(h) ==
  /\ human[h].pc = "writeRec" /\ human[h].act = "reject"
  /\ UpdateRec(human[h].rec, "rejected")
  /\ human' = [human EXCEPT ![h] = IdleHuman]
  /\ UNCHANGED <<orders, positions, cash, slipped, crashes, faults>>

(***************************************************************************)
(* The command dies between two of its transactions.                       *)
(***************************************************************************)
CommandDies(h) ==
  /\ human[h].pc # "idle"
  /\ crashes < MaxCrashes
  /\ crashes' = crashes + 1
  /\ human' = [human EXCEPT ![h] = IdleHuman]
  /\ UNCHANGED <<recs, orders, positions, cash, slipped, faults>>

CommandBegins(h) == \E act \in {"approve", "reject"}, r \in DOMAIN recs :
                      ReadRec(h, act, r)

CommandWorks(h) ==
  ReadOrder(h) \/ NoOrder(h) \/ ApproveRec(h) \/ ApproveOrder(h)
    \/ CancelOrder(h) \/ RejectRec(h)

=============================================================================
