--------------------------- MODULE AdapterAccounts ---------------------------
(***************************************************************************)
(* From an invoice that is asked for to its credit, and the balance that   *)
(* the watchdog is told, behind any of the adapters of wallets/*.py.       *)
(***************************************************************************)
EXTENDS Adapters, Naturals

VARIABLES abAdapter,  \* the funding source that is configured
          abInvoice,  \* the invoice at the service
          abRow,      \* its row in the ledger
          abStream,   \* paid_invoices_stream is about to hand it out
          abFunds,    \* the balance of the node: in one part, and in another
          abCache,    \* the balance the adapter remembers, or None
          abWrong     \* the last balance that was told is not that of the node

vars == <<abAdapter, abInvoice, abRow, abStream, abFunds, abCache, abWrong>>
None == 9
Funds == 2      \* bound of each part of the balance

Init ==
    /\ abAdapter \in DOMAIN MakeTable
    /\ abInvoice = "none" /\ abRow = "none" /\ abStream = FALSE
    /\ abFunds = <<1, 0>> /\ abCache = None /\ abWrong = FALSE

(* What the service does with the request: an answer with an error is no      *)
(* invoice, a lost one may be.                                                *)
Held(r) == IF r = "error" THEN {"none"} ELSE IF r = "lost" THEN {"none", "lost"} ELSE {"open"}

(* create_wallet_invoice stores a row when it has an id and a request to hand *)
(* out; anything else is an error to the user, who may ask again.             *)
Create ==
    /\ abRow = "none" /\ \E r \in MakeReplies :
         IF MakeTable[abAdapter][r] = "handed"
         THEN abInvoice' = "open" /\ abRow' = "pending"
         ELSE abInvoice' \in {IF h = "none" THEN "none" ELSE "lost" : h \in Held(r)} /\ UNCHANGED abRow
    /\ UNCHANGED <<abAdapter, abStream, abFunds, abCache, abWrong>>

(* The payer has the invoice only when it was handed out. A stream that is    *)
(* not silent may bring the payment, or may have missed it.                   *)
Receive ==
    /\ abInvoice = "open" /\ abInvoice' = "received"
    /\ abStream' \in {FALSE, StreamTable[abAdapter] # "silent"}
    /\ UNCHANGED <<abAdapter, abRow, abFunds, abCache, abWrong>>

Expire ==
    /\ abInvoice = "open" /\ abInvoice' = "expired"
    /\ UNCHANGED <<abAdapter, abRow, abStream, abFunds, abCache, abWrong>>

(* update_pending_payment: the verdict of the adapter, when there is one.     *)
Verdict(answer) == InvoiceTable[abAdapter][answer]
Check(answer) ==
    /\ abRow = "pending" /\ answer \in {abInvoice, "error"}
    /\ abRow' = CASE Verdict(answer) = "paid" -> "success" [] Verdict(answer) = "failed" -> "failed"
                 [] OTHER -> abRow
    /\ UNCHANGED <<abAdapter, abInvoice, abStream, abFunds, abCache, abWrong>>

(* update_invoice_from_paid_invoices_stream asks again, and writes whatever   *)
(* the row was.                                                               *)
Book(answer) ==
    /\ abStream /\ abStream' = FALSE /\ answer \in {abInvoice, "error"}
    /\ abRow' = IF Verdict(answer) = "paid" THEN "success" ELSE abRow
    /\ UNCHANGED <<abAdapter, abInvoice, abFunds, abCache, abWrong>>

-----------------------------------------------------------------------------
(* Other payments of the node. *)
FundsMove ==
    /\ \E p \in 1..2, n \in 0..Funds : abFunds' = [abFunds EXCEPT ![p] = n]
    /\ UNCHANGED <<abAdapter, abInvoice, abRow, abStream, abCache, abWrong>>

Total == abFunds[1] + abFunds[2]
(* The answers a service gives: those of gRPC and of the SDKs have every      *)
(* field, and only NWC has methods that are not supported.                    *)
Typed == {"LndGrpc", "Breez", "BreezLiquid", "Boltz"}
TellAnswers ==
    {"error", "lost"}
    \union {IF abFunds[2] > 0 THEN "split" ELSE "balance"}
    \union (IF abAdapter \in Typed THEN {} ELSE {"bare"})
    \union (IF abAdapter = "NWC" THEN {"unsupported"} ELSE {})
Told(r) == CASE TellTable[abAdapter][r] = "balance" -> Total
             [] TellTable[abAdapter][r] = "part" -> abFunds[1]
             [] TellTable[abAdapter][r] = "zero" -> 0
             [] OTHER -> None

(* Strike answers from what it was told in the last thirty seconds, and keeps *)
(* no zero that comes from an answer without a balance.                       *)
Caches == {"Strike"}
TellFromCache ==
    /\ abAdapter \in Caches /\ abCache # None /\ abWrong' = (abCache # Total)
    /\ UNCHANGED <<abAdapter, abInvoice, abRow, abStream, abFunds, abCache>>
Tell ==
    /\ abCache = None
    /\ \E r \in TellAnswers :
         /\ abWrong' = (Told(r) \notin {None, Total})
         /\ abCache' = IF abAdapter \in Caches /\ r \in {"balance", "split"} THEN Told(r) ELSE None
    /\ UNCHANGED <<abAdapter, abInvoice, abRow, abStream, abFunds>>
CacheEnds ==
    /\ abCache # None /\ abCache' = None
    /\ UNCHANGED <<abAdapter, abInvoice, abRow, abStream, abFunds, abWrong>>

Next == \/ Create \/ Receive \/ Expire
        \/ \E answer \in InvoiceReplies : Check(answer) \/ Book(answer)
        \/ FundsMove \/ Tell \/ TellFromCache \/ CacheEnds

TypeOK ==
    /\ abAdapter \in DOMAIN MakeTable
    /\ abInvoice \in {"none", "lost", "open", "received", "expired"}
    /\ abRow \in {"none", "pending", "success", "failed"} /\ abStream \in BOOLEAN
    /\ abFunds \in [1..2 -> 0..Funds] /\ abCache \in (0..2 * Funds) \union {None} /\ abWrong \in BOOLEAN

(* What a payer pays is credited, whichever adapter made the invoice and      *)
(* whether its stream brings it or only the periodic check asks               *)
(* (services/payments.py 389-436, 1127-1152); but for LnTips, which calls an  *)
(* open invoice failed (lntips.py 148-160).                                   *)
ReceivedIsCredited ==
    abInvoice = "received" ~> abRow = "success" \/ (abAdapter = "LnTips" /\ abRow = "failed")

(* What status tells without an error is the balance of the node, for the     *)
(* watchdog switches the server off by it (services/funding_source.py 20-67). *)
(* Not so: the first channel of Phoenixd; Strike, for thirty seconds or       *)
(* without a BTC account; NWC without get_balance; CLNRest without channels.  *)
BalanceIsTheNodes == abWrong => abAdapter \in {"Phoenixd", "Strike", "NWC", "ClnRest"}
=============================================================================
