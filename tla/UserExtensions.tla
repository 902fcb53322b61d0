--------------------------- MODULE UserExtensions ---------------------------
(* One user and one extension: enabling, paying for it, and what the user     *)
(* grants it (core/views/extension_api.py).  Every request reads the user's   *)
(* row, awaits other reads, a wallet's payment or a new invoice, and writes   *)
(* the whole row (update_user_extension).                                     *)
EXTENDS Naturals

CONSTANTS MaxWallets,  \* bound: the wallets the administrator sells from, one after the other
          MaxHashes,   \* bound: the invoices ever created
          Requests,    \* bound: requests at a time
          Payers,      \* those of them that may ask for an invoice
          Grants       \* the permissions a user grants

VARIABLES ueRow,      \* the row of the user, or NoRow
          ueSell,     \* pay_to_enable of the extension: the wallet, None if it is free
          ueInvoices, \* the invoices to enable: [wallet, state]
          ueTask,     \* the requests: [at, row, sell, hash, gone, old]; hash of an
                      \* invoice request, gone of a removal
          ueRemoved,  \* history: removed while nothing else went on, and not granted since
          ueLost      \* history: invoices that nothing promises to take for a payment

vars == <<ueRow, ueSell, ueInvoices, ueTask, ueRemoved, ueLost>>

None == 0
Wallets == 1..MaxWallets
Hashes == 1..MaxHashes
UserConstants == MaxWallets \in Nat /\ MaxHashes \in Nat
HasRead == {"insert", "decide", "ask", "write"}
NoRow == [made |-> FALSE, active |-> FALSE, paid |-> FALSE, hash |-> None, grants |-> {}]
NewRow == [NoRow EXCEPT !.made = TRUE]
Idle == [at |-> "idle", row |-> NoRow, sell |-> None, hash |-> None, gone |-> {},
         old |-> FALSE]

Init ==
    /\ ueRow = NoRow /\ ueSell = None
    /\ ueInvoices = [h \in Hashes |-> [wallet |-> None, state |-> "new"]]
    /\ ueTask = [t \in Requests |-> Idle] /\ ueRemoved = {} /\ ueLost = {}

At(t, at) == ueTask[t].at = at
InvoiceOf(t) == ueTask[t].hash
Alone(t) == \A r \in Requests \ {t} : ueTask[r] = Idle
Becomes(t, task) == ueTask' = [ueTask EXCEPT ![t] = task]
Ends(t) == Becomes(t, Idle)
Begins(t, at, row) ==
    /\ ueTask[t] = Idle
    /\ Becomes(t, [Idle EXCEPT !.at = at, !.row = row,
                               !.sell = IF at \in {"write", "add"} THEN None ELSE ueSell])
(* The request has decided to enable the extension.                           *)
Enables(t, paid) ==
    Becomes(t, [ueTask[t] EXCEPT !.at = "write", !.sell = None,
                    !.row = [ueTask[t].row EXCEPT !.active = TRUE, !.paid = paid]])
history == <<ueRemoved, ueLost>>
Told == {h \in Hashes : ueInvoices[h].state \in {"told", "paid"}}

(* Whatever other requests have read is old from here on.                     *)
Put(t, row, task) ==
    /\ ueRow' = row
    /\ ueTask' = [r \in Requests |-> IF r = t THEN task
                                     ELSE [ueTask[r] EXCEPT !.old = ueTask[r].old \/ ueTask[r].at \in HasRead]]

-----------------------------------------------------------------------------
(* api_enable_extension; the row is inserted if there is none, and the        *)
(* UNIQUE of the table refuses a second one.                                  *)
Enable(t) ==
    /\ Begins(t, IF ueRow.made THEN "decide" ELSE "insert", ueRow)
    /\ UNCHANGED <<ueRow, ueSell, ueInvoices, history>>

Insert(t) ==
    /\ At(t, "insert")
    /\ IF ueRow.made THEN Ends(t) /\ UNCHANGED ueRow
       ELSE Put(t, NewRow, [ueTask[t] EXCEPT !.row = NewRow, !.old = FALSE,
                                !.at = IF InvoiceOf(t) = None THEN "decide" ELSE "write"])
    /\ UNCHANGED <<ueSell, ueInvoices, history>>

Decide(t) ==
    /\ At(t, "decide")
    /\ LET row == ueTask[t].row IN
       IF ueTask[t].sell = None \/ (row.hash # None /\ row.paid)
       THEN Enables(t, row.paid)
       ELSE IF row.hash = None THEN Ends(t) ELSE Becomes(t, [ueTask[t] EXCEPT !.at = "ask"])
    /\ UNCHANGED <<ueRow, ueSell, ueInvoices, history>>

(* check_transaction_status looks for the payment in the wallet that the      *)
(* extension's row named when it was read.                                    *)
PaidHere(t) ==
    /\ ueInvoices[ueTask[t].row.hash].state = "paid"
    /\ ueInvoices[ueTask[t].row.hash].wallet = ueTask[t].sell
Ask(t) ==
    /\ At(t, "ask")
    /\ IF PaidHere(t) THEN Enables(t, TRUE) ELSE Ends(t)
    /\ UNCHANGED <<ueRow, ueSell, ueInvoices, history>>

(* api_disable_extension, and an administrator's update_user_extensions.      *)
Disable(t) ==
    /\ ueRow.active /\ Begins(t, "write", [ueRow EXCEPT !.active = FALSE])
    /\ UNCHANGED <<ueRow, ueSell, ueInvoices, history>>
EditUser(t) ==
    /\ Begins(t, IF ueRow.made THEN "write" ELSE "add", [ueRow EXCEPT !.active = TRUE])
    /\ UNCHANGED <<ueRow, ueSell, ueInvoices, history>>
Add(t) ==
    /\ At(t, "add")
    /\ IF ueRow.made THEN Ends(t) /\ UNCHANGED ueRow
       ELSE Put(t, [NewRow EXCEPT !.active = TRUE], Idle)
    /\ UNCHANGED <<ueSell, ueInvoices, history>>

(* get_pay_to_enable_invoice: the invoice, and only then the user's row.      *)
Invoice(t) ==
    /\ t \in Payers /\ ueSell # None /\ Begins(t, "create", NoRow)
    /\ UNCHANGED <<ueRow, ueSell, ueInvoices, history>>

Create(t) ==
    /\ At(t, "create")
    /\ \E h \in Hashes :
         /\ ueInvoices[h].state = "new" /\ \A i \in Hashes : i < h => ueInvoices[i].state # "new"
         /\ ueInvoices' = [ueInvoices EXCEPT ![h] = [wallet |-> ueTask[t].sell, state |-> "made"]]
         /\ Becomes(t, [ueTask[t] EXCEPT !.at = "read", !.hash = h])
    /\ UNCHANGED <<ueRow, ueSell, history>>

Read(t) ==
    /\ At(t, "read")
    /\ Becomes(t, [ueTask[t] EXCEPT !.at = IF ueRow.made THEN "write" ELSE "insert",
                                    !.row = ueRow, !.old = FALSE])
    /\ UNCHANGED <<ueRow, ueSell, ueInvoices, history>>

(* api_grant_background_payment_permission, api_grant_wallet_payments_watch_  *)
(* permission and api_delete_user_extension_permission                        *)
Grant(t, g) ==
    /\ ueRow.active /\ Begins(t, "write", [ueRow EXCEPT !.grants = @ \union {g}])
    /\ ueRemoved' = ueRemoved \ {g}
    /\ UNCHANGED <<ueRow, ueSell, ueInvoices, ueLost>>
RemovesNone(g) == ueRow.grants
Removes(g) == ueRow.grants \ {g}
Remove(t, g) ==
    /\ ueRow.made /\ ueTask[t] = Idle
    /\ Becomes(t, [Idle EXCEPT !.at = "write", !.gone = {g},
                               !.row = [ueRow EXCEPT !.grants = Removes(g)]])
    /\ UNCHANGED <<ueRow, ueSell, ueInvoices, history>>

(* update_user_extension, and the answer; an invoice's answer tells of it.    *)
Writes(t) ==
    IF InvoiceOf(t) = None THEN ueTask[t].row ELSE [ueTask[t].row EXCEPT !.hash = InvoiceOf(t)]
Write(t) ==
    /\ At(t, "write") /\ Put(t, Writes(t), Idle)
    /\ ueInvoices' = [h \in Hashes |->
           IF h = InvoiceOf(t) THEN [ueInvoices[h] EXCEPT !.state = "told"] ELSE ueInvoices[h]]
    /\ ueRemoved' = (IF Alone(t) THEN ueRemoved \union ueTask[t].gone ELSE ueRemoved)
    /\ ueLost' = IF ueTask[t].old THEN Hashes
                 ELSE IF InvoiceOf(t) = None THEN ueLost
                 ELSE ueLost \union Told \union
                        (IF ueSell = ueTask[t].sell THEN {} ELSE {InvoiceOf(t)})
    /\ UNCHANGED ueSell

(* An exception, or the server, ends a request between two steps.             *)
Abort(t) == ueTask[t] # Idle /\ Ends(t) /\ UNCHANGED <<ueRow, ueSell, ueInvoices, history>>

-----------------------------------------------------------------------------
(* api_update_pay_to_enable, and the payer.                                   *)
Sell(w) ==
    /\ ueSell < w /\ ueSell' = w /\ ueLost' = ueLost \union Told
    /\ UNCHANGED <<ueRow, ueInvoices, ueTask, ueRemoved>>
Pay(h) ==
    /\ ueInvoices[h].state = "told" /\ ueInvoices' = [ueInvoices EXCEPT ![h].state = "paid"]
    /\ UNCHANGED <<ueRow, ueSell, ueTask, history>>

Steps ==
    \/ \E t \in Requests :
         \/ Enable(t) \/ Insert(t) \/ Decide(t) \/ Ask(t) \/ Disable(t) \/ EditUser(t) \/ Add(t)
         \/ Invoice(t) \/ Create(t) \/ Read(t) \/ Write(t) \/ Abort(t)
         \/ \E g \in Grants : Grant(t, g) \/ Remove(t, g)
    \/ \E w \in Wallets \union {None} : Sell(w)
    \/ \E h \in Hashes : Pay(h)

Next == ueLost # Hashes /\ Steps   \* bound: a behaviour is followed until nothing is promised

Spec == Init /\ [][Next]_vars

-----------------------------------------------------------------------------
Rows == [made : BOOLEAN, active : BOOLEAN, paid : BOOLEAN, hash : Hashes \union {None},
         grants : SUBSET Grants]
Works == [at : {"idle", "insert", "add", "decide", "ask", "create", "read", "write"}, row : Rows,
          sell : Wallets \union {None}, hash : Hashes \union {None}, gone : SUBSET Grants, old : BOOLEAN]
TypeOK ==
    /\ ueRow \in Rows /\ ueSell \in Wallets \union {None}
    /\ ueInvoices \in [Hashes -> [wallet : Wallets \union {None}, state : {"new", "made", "told", "paid"}]]
    /\ ueTask \in [Requests -> Works]
    /\ ueRemoved \subseteq Grants /\ ueLost \subseteq Hashes

(* A grant the user removed while no other request of his was under way does  *)
(* not come back before he asks for it again.                                 *)
RemovedStaysRemoved == ueRow.grants \intersect ueRemoved = {}

(* Whoever paid the invoice he asked for last can enable the extension with   *)
(* it, unless the administrator changed the wallet since, or a request that   *)
(* had read the row before wrote it after.                                    *)
PaidEnables ==
    \A h \in Hashes \ ueLost :
        ueInvoices[h].state \in {"told", "paid"} =>
            ueRow.paid \/ (ueRow.hash = h /\ ueInvoices[h].wallet = ueSell)
=============================================================================
