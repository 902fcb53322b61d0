---------------------------- MODULE HoldInvoices ----------------------------
(***************************************************************************)
(* A hold invoice (core/services/payments.py): it is made at the node and  *)
(* then written; its owner settles or cancels it, and labels it, while the *)
(* periodic check and the stream of paid invoices write the same row.      *)
(* Every task writes the copy it has read, after an await.                 *)
(***************************************************************************)
VARIABLES holdRow,      \* the status in the database, or "none"
          holdNode,     \* the invoice at the node
          holdExpired,  \* the expiry of the invoice has passed
          holdTask,     \* where each task is
          holdCopy,     \* the status each task has read
          holdEvent     \* the stream has an event to hand out

vars == <<holdRow, holdNode, holdExpired, holdTask, holdCopy, holdEvent>>

Actors == {"create", "settle", "cancel", "check", "stream", "edit"}
Statuses == {"pending", "success", "failed"}

Init ==
    /\ holdRow = "none" /\ holdNode = "none" /\ holdExpired = FALSE
    /\ holdTask = [a \in Actors |-> "idle"] /\ holdCopy = [a \in Actors |-> "pending"]
    /\ holdEvent = FALSE

At(a, from, to) == holdTask[a] = from /\ holdTask' = [holdTask EXCEPT ![a] = to]

(* create_hold_invoice: LND takes a hash once.  The answer can be lost, and    *)
(* the invoice is then at the node only.                                       *)
Create ==
    /\ \/ holdNode = "none" /\ holdNode' = "open" /\ (At("create", "idle", "write") \/ UNCHANGED holdTask)
       \/ holdNode # "none" /\ UNCHANGED <<holdNode, holdTask>>      \* refused
    /\ UNCHANGED <<holdRow, holdExpired, holdCopy, holdEvent>>

(* get_standalone_payment, and the list of check_pending_payments. *)
Read(a) ==
    /\ a \in Actors \ {"create", "edit"} /\ holdRow # "none"
    /\ At(a, "idle", IF a \in {"settle", "cancel"} THEN "call" ELSE "ask")
    /\ a = "check" => holdRow = "pending"
    /\ a = "stream" => holdEvent
    /\ holdEvent' = (IF a = "stream" THEN FALSE ELSE holdEvent)
    /\ holdCopy' = [holdCopy EXCEPT ![a] = holdRow]
    /\ UNCHANGED <<holdRow, holdNode, holdExpired>>

(* The node settles what it holds and cancels what it has not settled.  Its   *)
(* answer can be lost.                                                        *)
CallNode(a, from, to) ==
    /\ \/ holdNode \in from /\ holdNode' = to /\ (At(a, "call", "write") \/ At(a, "call", "idle"))
       \/ At(a, "call", "idle") /\ UNCHANGED holdNode
    /\ holdEvent' \in {holdEvent, holdEvent \/ (holdNode # "settled" /\ holdNode' = "settled")}
    /\ UNCHANGED <<holdRow, holdExpired, holdCopy>>

Settle == CallNode("settle", {"accepted", "settled"}, "settled")
Cancel == CallNode("cancel", {"open", "accepted", "canceled"}, "canceled")

(* update_payment writes the whole row. *)
Write(a, status) ==
    /\ At(a, "write", "idle") /\ holdRow' = status
    /\ UNCHANGED <<holdNode, holdExpired, holdCopy, holdEvent>>

SettleWrites == Write("settle", holdCopy["settle"])
CancelWrites == Write("cancel", "failed")

(* create_invoice writes the row when the node has answered. *)
CreateWrites == Write("create", "pending")

(* api_update_payment_labels, and api_update_payment_extra of a payment that   *)
(* is successful, read the row and write it whole.                             *)
Edit(may) ==
    /\ may /\ At("edit", "idle", "write") /\ holdCopy' = [holdCopy EXCEPT !["edit"] = holdRow]
    /\ UNCHANGED <<holdRow, holdNode, holdExpired, holdEvent>>
EditLabels == Edit(holdRow # "none")
EditExtra == Edit(holdRow = "success")
EditWrites == Write("edit", holdCopy["edit"])

(* update_pending_payment *)
CheckVerdict ==
    IF holdExpired THEN {"failed"}
    ELSE IF holdNode = "settled" THEN {"success", "pending"}
    ELSE IF holdNode = "canceled" THEN {"failed", "pending"} ELSE {"pending"}

CheckOnlyOnce ==
    /\ \E v \in CheckVerdict :
         /\ holdCopy' = [holdCopy EXCEPT !["check"] = v]
         /\ At("check", "ask", IF v = "pending" THEN "done" ELSE "write")
    /\ UNCHANGED <<holdRow, holdNode, holdExpired, holdEvent>>

CheckAsks ==
    /\ \E v \in CheckVerdict :
         /\ holdCopy' = [holdCopy EXCEPT !["check"] = v]
         /\ At("check", "ask", IF v = "pending" THEN "idle" ELSE "write")
    /\ UNCHANGED <<holdRow, holdNode, holdExpired, holdEvent>>

CheckWrites == Write("check", holdCopy["check"])

(* update_invoice_from_paid_invoices_stream *)
StreamAsks ==
    /\ \/ holdNode = "settled" /\ At("stream", "ask", "write")
       \/ At("stream", "ask", "idle")
    /\ UNCHANGED <<holdRow, holdNode, holdExpired, holdCopy, holdEvent>>

StreamWrites == Write("stream", "success")

(* The payer, who has the invoice from its owner, the node's own timeout and   *)
(* the clock.                                                                  *)
Outside ==
    /\ \/ holdNode = "open" /\ holdRow # "none" /\ holdNode' = "accepted" /\ UNCHANGED holdExpired
       \/ holdNode \in {"open", "accepted"} /\ holdNode' = "canceled" /\ UNCHANGED holdExpired
       \/ ~holdExpired /\ holdNode # "none" /\ holdExpired' = TRUE /\ UNCHANGED holdNode
    /\ UNCHANGED <<holdRow, holdTask, holdCopy, holdEvent>>

Next == \/ \E a \in Actors : Read(a)
        \/ Create \/ CreateWrites \/ EditLabels \/ EditExtra \/ EditWrites
        \/ Settle \/ Cancel \/ SettleWrites \/ CancelWrites
        \/ CheckAsks \/ CheckWrites \/ StreamAsks \/ StreamWrites \/ Outside

(* The check's question answered, and the end of a request that has begun. *)
CheckLearns == CheckAsks /\ holdCopy'["check"] # "pending"
Ends == SettleWrites \/ CancelWrites \/ StreamWrites \/ EditWrites

-----------------------------------------------------------------------------
TypeOK ==
    /\ holdRow \in Statuses \union {"none"} /\ holdNode \in {"none", "open", "accepted", "settled", "canceled"}
    /\ holdExpired \in BOOLEAN /\ holdEvent \in BOOLEAN
    /\ holdTask \in [Actors -> {"idle", "call", "ask", "write", "done"}]
    /\ holdCopy \in [Actors -> Statuses]

(* A hold invoice is credited only when the node has settled it, whatever     *)
(* copies are still to be written; and one that is settled before it expires  *)
(* is credited in the end, although settle_hold_invoice, or an edit of the    *)
(* labels, may write back the pending copy it has read before.  A row is of   *)
(* an invoice the node has.                                                   *)
CreditIsSettled ==
    /\ holdRow = "success" => holdNode = "settled"
    /\ holdRow # "none" => holdNode # "none"
SettledIsCredited == holdNode = "settled" ~> holdRow = "success" \/ holdExpired
=============================================================================
