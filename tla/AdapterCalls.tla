---------------------------- MODULE AdapterCalls ----------------------------
(***************************************************************************)
(* One payment and one invoice at a funding source, behind any of the      *)
(* adapters of wallets/*.py: the request to pay is on its way, reaches the *)
(* node or is lost; the answer may be lost as well; the status is asked    *)
(* while the request is still under way; and the node may be replaced by   *)
(* one that knows nothing of either.                                       *)
(***************************************************************************)
EXTENDS Adapters

CONSTANT Offered   \* the adapters among which one is configured

ASSUME OfferedAdapters == Offered \subseteq DOMAIN PayTable

VARIABLES adapter,   \* the funding source that is configured
          request,   \* the request to pay
          calling,   \* pay_invoice of the adapter has not returned
          node,      \* what the node did with the payment
          overdue,   \* the payment is older than its invoice allows
          known,     \* the node behind the adapter is the one that was asked
          verdict, basis,  \* what the core was told of the payment, on which answer
          invoice,   \* an invoice of the node
          credit, creditBasis   \* what the core was told of the invoice

payment == <<request, calling, node, overdue, verdict, basis>>
receipt == <<invoice, credit, creditBasis>>
vars == <<adapter, known, payment, receipt>>

Init ==
    /\ adapter = "none" /\ known = TRUE
    /\ request = "none" /\ calling = FALSE /\ node = "none" /\ overdue = FALSE
    /\ verdict = "pending" /\ basis = "none"
    /\ invoice = "none" /\ credit = "pending" /\ creditBasis = "none"

-----------------------------------------------------------------------------
(* A new funding source is configured at the start, or replaces the old one. *)
Configure(a) ==
    /\ adapter = "none" /\ adapter' = a
    /\ UNCHANGED <<known, payment, receipt>>

Replace ==
    /\ adapter # "none" /\ known /\ known' = FALSE
    /\ UNCHANGED <<adapter, payment, receipt>>

(* These fail before the request to pay is sent: the invoice cannot be read,  *)
(* has no amount, no quote, a fee above the limit or no right to pay.         *)
ChecksFirst == {"CoreLightning", "CoreLightningRest", "ClnRest", "Breez", "BreezLiquid",
                "Boltz", "Strike", "Blink", "Bark", "NWC"}

Send ==
    /\ adapter # "none" /\ known /\ request = "none"
    /\ \/ request' = "transit"
       \/ adapter \in ChecksFirst /\ request' = "never"
    /\ calling' = TRUE
    /\ UNCHANGED <<adapter, known, node, overdue, verdict, basis, receipt>>

Network ==
    /\ request = "transit"
    /\ \/ request' = "lost" /\ UNCHANGED node
       \/ request' = "arrived" /\ node' \in {"in_flight", "refused"}
    /\ UNCHANGED <<adapter, known, calling, overdue, verdict, basis, receipt>>

NodeDecides ==
    /\ node = "in_flight" /\ node' \in {"settled", "failed"}
    /\ UNCHANGED <<adapter, known, request, calling, overdue, verdict, basis, receipt>>

TimePasses ==
    /\ request # "none" /\ ~overdue /\ overdue' = TRUE
    /\ UNCHANGED <<adapter, known, request, calling, node, verdict, basis, receipt>>

-----------------------------------------------------------------------------
PayAnswers ==
    {"server_error", "lost"} \cup
    (CASE node = "settled"   -> {"succeeded", "partial", "error"}
       [] node = "failed"    -> {"failed", "code", "error"}
       [] node = "in_flight" -> {"in_flight", "partial", "error"}
       [] node = "refused"   -> {"rejected", "bad_request", "code", "error"}
       [] OTHER -> {})

StatusAnswers ==
    {"error"} \cup
    (CASE ~known \/ node \in {"none", "refused"} -> {"unknown"}
       [] known /\ node = "settled" -> {"succeeded"}
       [] known /\ node = "failed"  -> {"failed"}
       [] known /\ node = "in_flight" -> {IF overdue THEN "overdue" ELSE "in_flight"})

(* The core keeps the first verdict that is not "pending". *)
Learn(v, b) ==
    IF verdict = "pending" /\ v # "pending" THEN verdict' = v /\ basis' = b
    ELSE UNCHANGED <<verdict, basis>>

(* LNbits and Eclair take only a success from the status they ask for in      *)
(* pay_invoice.                                                               *)
OnlySuccess == {"LNbits", "Eclair"}
NestedUnread(s) == s

Nested(s) == IF adapter \in OnlySuccess /\ StatusTable[adapter][s] = "failed"
             THEN "pending" ELSE StatusTable[adapter][s]

PayReturns ==
    /\ calling /\ calling' = FALSE
    /\ \/ request = "never" /\ Learn("failed", "never")
       \/ request # "never" /\ \E r \in PayAnswers :
            \/ PayTable[adapter][r] # "ask" /\ Learn(PayTable[adapter][r], r)
            \/ PayTable[adapter][r] = "ask" /\ \E s \in StatusAnswers : Learn(Nested(s), s)
    /\ UNCHANGED <<adapter, known, request, node, overdue, receipt>>

AskStatus ==
    /\ request \notin {"none", "never"} /\ verdict = "pending"
    /\ \E s \in StatusAnswers : Learn(StatusTable[adapter][s], s)
    /\ UNCHANGED <<adapter, known, request, calling, node, overdue, receipt>>

-----------------------------------------------------------------------------
InvoiceAnswers == {"error"} \cup (IF known THEN {invoice} ELSE {"unknown"})

NodeInvoice ==
    /\ \/ invoice = "none" /\ adapter # "none" /\ known /\ invoice' = "open"
       \/ invoice = "open" /\ invoice' \in {"received", "expired"}
    /\ UNCHANGED <<adapter, known, payment, credit, creditBasis>>

AskInvoice ==
    /\ invoice # "none" /\ credit = "pending"
    /\ \E r \in InvoiceAnswers :
         LET v == InvoiceTable[adapter][r] IN
           /\ credit' = v
           /\ creditBasis' = IF v = "pending" THEN creditBasis ELSE r
    /\ UNCHANGED <<adapter, known, payment, invoice>>

Next == \/ \E a \in Offered : Configure(a)
        \/ Replace \/ Send \/ Network \/ NodeDecides \/ TimePasses
        \/ PayReturns \/ AskStatus \/ NodeInvoice \/ AskInvoice

(* The periodic check asks for ever, and not every answer is an error. *)
Fairness == /\ WF_vars(AskStatus /\ verdict' # "pending")
            /\ WF_vars(AskInvoice /\ credit' # "pending")

Spec == Init /\ [][Next]_vars
FairSpec == Spec /\ Fairness

-----------------------------------------------------------------------------
TypeOK ==
    /\ adapter \in Offered \cup {"none"} /\ known \in BOOLEAN
    /\ request \in {"none", "never", "transit", "arrived", "lost"}
    /\ calling \in BOOLEAN /\ overdue \in BOOLEAN
    /\ node \in {"none", "refused", "in_flight", "settled", "failed"}
    /\ verdict \in Verdicts /\ basis \in PayReplies \cup StatusReplies \cup {"none", "never"}
    /\ invoice \in {"none", "open", "received", "expired"}
    /\ credit \in Verdicts /\ creditBasis \in InvoiceReplies \cup {"none"}

(* That a node knows no payment, or that a payment is older than its invoice, *)
(* is not evidence; nor is LnTips' word that an invoice is not paid.  On every *)
(* other answer no adapter says that a payment failed which is under way or    *)
(* may still be sent, and none says that it was paid before it was: the        *)
(* adapters keep the contract FundingSource.                                   *)
Outcome == IF node = "settled" THEN "paid"
           ELSE IF node \in {"refused", "failed"} \/ request \in {"lost", "never"} THEN "failed"
           ELSE "open"
PaymentContract ==
    INSTANCE FundingSource WITH outcome <- Outcome,
                                verdict <- IF basis \in {"unknown", "overdue"} THEN "pending" ELSE verdict
PaymentContractKept == PaymentContract!Spec

(* The same for the credit of an invoice. *)
InvoiceContract ==
    INSTANCE FundingSource WITH
        outcome <- IF invoice = "received" THEN "paid"
                   ELSE IF invoice = "expired" THEN "failed" ELSE "open",
        verdict <- IF creditBasis = "unknown" \/ (adapter = "LnTips" /\ creditBasis = "open")
                   THEN "pending" ELSE credit
InvoiceContractKept == InvoiceContract!Spec

(* What the node decided is learned by asking, unless the node is replaced.   *)
(* LnTips, Alby and Phoenixd never say that a payment failed.                 *)
SilentOnFailure == {"LnTips", "Alby", "Phoenixd"}
OutcomeIsLearned ==
    /\ node = "settled" ~> verdict # "pending" \/ ~known
    /\ (node = "failed" /\ adapter \notin SilentOnFailure) ~> verdict # "pending" \/ ~known
    /\ invoice = "received" ~> credit # "pending" \/ ~known

(* "payment does not exist in phoenixd, so it was never paid": a payment that *)
(* was reported as failed because the node it was sent to knew nothing of it, *)
(* a node that was not replaced since, is never paid by that node.            *)
UnknownIsNeverPaid == known /\ verdict = "failed" /\ basis = "unknown" => node # "settled"
=============================================================================
