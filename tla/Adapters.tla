------------------------------ MODULE Adapters ------------------------------
(***************************************************************************)
(* How the adapters of wallets/*.py read the answers of their services.    *)
(* An adapter turns the answer to a payment request into "paid", "failed"  *)
(* or "pending", or asks for the status first; a status answer and the     *)
(* answer about an invoice into "paid", "failed" or "pending".             *)
(***************************************************************************)

(* Answers to the request to pay: the payment succeeded, failed or goes on;  *)
(* an answer without the fields a success needs; an error text without a     *)
(* code; a code that is documented as "not sent" or "all attempts failed";   *)
(* the HTTP status 400; one of 401, 403, 404 and 405; another HTTP error;    *)
(* no answer at all.                                                         *)
PayReplies == {"succeeded", "failed", "in_flight", "partial", "error", "code",
               "bad_request", "rejected", "server_error", "lost"}

(* Answers about a payment: "overdue" is in flight past the invoice's expiry. *)
StatusReplies == {"succeeded", "failed", "in_flight", "overdue", "unknown", "error"}

(* Answers about an invoice. *)
InvoiceReplies == {"received", "open", "expired", "unknown", "error"}

Verdicts == {"paid", "failed", "pending"}

Reads(paid, failed, asks) ==
    [r \in PayReplies |-> IF r \in paid THEN "paid" ELSE IF r \in failed THEN "failed"
                          ELSE IF r \in asks THEN "ask" ELSE "pending"]
Looks(failed) ==
    [r \in StatusReplies |-> IF r = "succeeded" THEN "paid"
                             ELSE IF r \in failed THEN "failed" ELSE "pending"]
Sees(failed) ==
    [r \in InvoiceReplies |-> IF r = "received" THEN "paid"
                              ELSE IF r \in failed THEN "failed" ELSE "pending"]

Unclear == {"error", "code", "bad_request", "rejected", "server_error", "lost"}

-----------------------------------------------------------------------------
(* pay_invoice, get_payment_status and get_invoice_status of each adapter.   *)

LndRest_fails_on_any_error == Reads({"succeeded"}, {"failed", "code", "server_error"}, {})

LndRest_pay_invoice == Reads({"succeeded"}, {"failed", "code"}, {})
LndRest_payment_status == Looks({"failed"})
LndRest_invoice_status == Sees({"expired"})

LndGrpc_pay_invoice == Reads({"succeeded"}, {"failed", "code"}, {})
LndGrpc_payment_status == Looks({"failed"})
LndGrpc_invoice_status == Sees({"expired"})

CoreLightning_pay_invoice == Reads({"succeeded"}, {"failed", "code"}, {})
CoreLightning_payment_status == Looks({"failed", "unknown"})
CoreLightning_invoice_status == Sees({"expired"})

CoreLightningRest_pay_invoice == Reads({"succeeded"}, {"failed", "code"}, {})
CoreLightningRest_payment_status == Looks({"failed"})
CoreLightningRest_invoice_status == Sees({})

ClnRest_pay_invoice == Reads({"succeeded"}, {"code"}, {})
ClnRest_payment_status == Looks({"failed"})
ClnRest_invoice_status == Sees({})

Spark_pay_invoice == Reads({"succeeded"}, {}, Unclear)
Spark_payment_status == Looks({"failed", "unknown"})
Spark_invoice_status == Sees({"expired"})

SparkL2_pay_invoice == Reads({"succeeded"}, {"failed"}, {})
SparkL2_payment_status == Looks({"failed"})
SparkL2_invoice_status == Sees({"expired"})

Eclair_pay_invoice == Reads({}, {"failed", "bad_request", "rejected"}, {"succeeded"})
Eclair_payment_status == Looks({"failed"})
Eclair_open_is_failed == Sees({"open", "expired"})

Eclair_invoice_status == Sees({"expired"})

Phoenixd_pay_invoice == Reads({"succeeded"}, {}, {})
Phoenixd_payment_status == Looks({"unknown"})
Phoenixd_invoice_status == Sees({"unknown"})

LNbits_pay_invoice == Reads({}, {"failed"}, {"succeeded"})
LNbits_payment_status == Looks({"failed"})
LNbits_invoice_status == Sees({})

LNPay_pay_invoice == Reads({"succeeded"}, {"rejected"}, {})
LNPay_payment_status == Looks({"failed"})
LNPay_invoice_status == Sees({"expired"})

LnTips_pay_invoice == Reads({"succeeded"}, {"rejected"}, {})
LnTips_payment_status == Looks({})
LnTips_invoice_status == Sees({"open", "expired"})

OpenNode_pay_invoice == Reads({"succeeded"}, {"failed", "rejected"}, {})
OpenNode_payment_status == Looks({"failed"})
OpenNode_invoice_status == Sees({"expired"})

ZBD_pay_invoice == Reads({"succeeded"}, {"failed", "rejected"}, {})
ZBD_payment_status == Looks({"failed"})
ZBD_invoice_status == Sees({"expired"})

Alby_pay_invoice == Reads({"succeeded"}, {"rejected"}, {})
Alby_payment_status == Looks({})
Alby_invoice_status == Sees({})

Breez_pay_invoice == Reads({"succeeded"}, {"failed"}, {})
Breez_payment_status == Looks({"failed"})
Breez_invoice_status == Sees({"expired"})

BreezLiquid_pay_invoice == Reads({"succeeded"}, {"failed"}, {})
BreezLiquid_payment_status == Looks({"failed"})
BreezLiquid_invoice_status == Sees({"expired"})

Boltz_pay_invoice == Reads({"succeeded"}, {"failed", "code"}, Unclear \ {"code"})
Boltz_forgets_errors == Looks({})

Boltz_payment_status == Looks({"failed"})
Boltz_invoice_status == Sees({"expired"})

Strike_pay_invoice == Reads({"succeeded"}, {"failed"}, {})
Strike_payment_status == Looks({"failed"})
Strike_invoice_status == Sees({"unknown"})

Blink_pay_invoice == Reads({}, {"failed"}, {"succeeded", "in_flight"})
Blink_payment_status == Looks({"failed"})
Blink_invoice_status == Sees({"expired"})

Bark_pay_invoice == Reads({}, {"rejected"}, {"succeeded", "in_flight"})
Bark_payment_status == Looks({"failed"})
Bark_invoice_status == Sees({"expired", "unknown"})

NWC_pay_invoice == Reads({}, {"failed", "code"}, {"succeeded"})
NWC_payment_status == Looks({"failed", "overdue"})
NWC_invoice_status == Sees({"expired", "unknown"})
-----------------------------------------------------------------------------
PayTable ==
    [LndRest |-> LndRest_pay_invoice,
     LndGrpc |-> LndGrpc_pay_invoice,
     CoreLightning |-> CoreLightning_pay_invoice,
     CoreLightningRest |-> CoreLightningRest_pay_invoice,
     ClnRest |-> ClnRest_pay_invoice,
     Spark |-> Spark_pay_invoice,
     SparkL2 |-> SparkL2_pay_invoice,
     Eclair |-> Eclair_pay_invoice,
     Phoenixd |-> Phoenixd_pay_invoice,
     LNbits |-> LNbits_pay_invoice,
     LNPay |-> LNPay_pay_invoice,
     LnTips |-> LnTips_pay_invoice,
     OpenNode |-> OpenNode_pay_invoice,
     ZBD |-> ZBD_pay_invoice,
     Alby |-> Alby_pay_invoice,
     Breez |-> Breez_pay_invoice,
     BreezLiquid |-> BreezLiquid_pay_invoice,
     Boltz |-> Boltz_pay_invoice,
     Strike |-> Strike_pay_invoice,
     Blink |-> Blink_pay_invoice,
     Bark |-> Bark_pay_invoice,
     NWC |-> NWC_pay_invoice]
StatusTable ==
    [LndRest |-> LndRest_payment_status,
     LndGrpc |-> LndGrpc_payment_status,
     CoreLightning |-> CoreLightning_payment_status,
     CoreLightningRest |-> CoreLightningRest_payment_status,
     ClnRest |-> ClnRest_payment_status,
     Spark |-> Spark_payment_status,
     SparkL2 |-> SparkL2_payment_status,
     Eclair |-> Eclair_payment_status,
     Phoenixd |-> Phoenixd_payment_status,
     LNbits |-> LNbits_payment_status,
     LNPay |-> LNPay_payment_status,
     LnTips |-> LnTips_payment_status,
     OpenNode |-> OpenNode_payment_status,
     ZBD |-> ZBD_payment_status,
     Alby |-> Alby_payment_status,
     Breez |-> Breez_payment_status,
     BreezLiquid |-> BreezLiquid_payment_status,
     Boltz |-> Boltz_payment_status,
     Strike |-> Strike_payment_status,
     Blink |-> Blink_payment_status,
     Bark |-> Bark_payment_status,
     NWC |-> NWC_payment_status]
InvoiceTable ==
    [LndRest |-> LndRest_invoice_status,
     LndGrpc |-> LndGrpc_invoice_status,
     CoreLightning |-> CoreLightning_invoice_status,
     CoreLightningRest |-> CoreLightningRest_invoice_status,
     ClnRest |-> ClnRest_invoice_status,
     Spark |-> Spark_invoice_status,
     SparkL2 |-> SparkL2_invoice_status,
     Eclair |-> Eclair_invoice_status,
     Phoenixd |-> Phoenixd_invoice_status,
     LNbits |-> LNbits_invoice_status,
     LNPay |-> LNPay_invoice_status,
     LnTips |-> LnTips_invoice_status,
     OpenNode |-> OpenNode_invoice_status,
     ZBD |-> ZBD_invoice_status,
     Alby |-> Alby_invoice_status,
     Breez |-> Breez_invoice_status,
     BreezLiquid |-> BreezLiquid_invoice_status,
     Boltz |-> Boltz_invoice_status,
     Strike |-> Strike_invoice_status,
     Blink |-> Blink_invoice_status,
     Bark |-> Bark_invoice_status,
     NWC |-> NWC_invoice_status]
-----------------------------------------------------------------------------
(* paid_invoices_stream of each adapter (InvoiceStreams says what the kinds   *)
(* are; nothing is ever put in the queue of a silent one), with the fallback  *)
(* of SparkL2, the loop of the base class and the queue of the fake wallet.   *)
LndRest_stream == "push"
LndGrpc_stream == "push"
CoreLightning_stream == "latest"
CoreLightningRest_stream == "replay"
ClnRest_stream == "replay"
Spark_stream == "push"
SparkL2_stream == "push"
Eclair_stream == "push"
Phoenixd_stream == "push"
LNbits_stream == "push"
LNPay_stream == "silent"
LnTips_stream == "push"
OpenNode_stream == "silent"
ZBD_stream == "silent"
Alby_stream == "silent"
Breez_stream == "queue"
BreezLiquid_stream == "queue"
Boltz_stream == "push"
Strike_stream == "window"
Blink_stream == "queue"
Bark_stream == "push"
NWC_stream == "queue"
SparkL2_fallback == "copied"
Base_stream == "poll"
Fake_stream == "queue"

StreamTable ==
    [LndRest |-> LndRest_stream, LndGrpc |-> LndGrpc_stream,
     CoreLightning |-> CoreLightning_stream, CoreLightningRest |-> CoreLightningRest_stream,
     ClnRest |-> ClnRest_stream, Spark |-> Spark_stream,
     SparkL2 |-> SparkL2_stream, Eclair |-> Eclair_stream,
     Phoenixd |-> Phoenixd_stream, LNbits |-> LNbits_stream,
     LNPay |-> LNPay_stream, LnTips |-> LnTips_stream,
     OpenNode |-> OpenNode_stream, ZBD |-> ZBD_stream,
     Alby |-> Alby_stream, Breez |-> Breez_stream,
     BreezLiquid |-> BreezLiquid_stream, Boltz |-> Boltz_stream,
     Strike |-> Strike_stream, Blink |-> Blink_stream,
     Bark |-> Bark_stream, NWC |-> NWC_stream,
     SparkL2Fallback |-> SparkL2_fallback, Base |-> Base_stream,
     Fake |-> Fake_stream]
-----------------------------------------------------------------------------
(* Answers to create_invoice: an invoice, one without a field the adapter      *)
(* needs, an error, none at all.  It is handed out, refused, left without a    *)
(* checking_id, or raises.                                                     *)
MakeReplies == {"made", "bare", "error", "lost"}
Made == {"handed", "failed", "unnamed", "raises"}
Makes(bare, lost) ==
    [r \in MakeReplies |-> CASE r = "made" -> "handed" [] r = "bare" -> bare
                           [] r = "error" -> "failed" [] r = "lost" -> lost]

(* Answers to status: the balance, a balance in several parts, an answer       *)
(* without the field, "not supported" (NWC only), an error, none at all.       *)
(* What is told: the balance, one of its parts, zero, or an error.             *)
TellReplies == {"balance", "split", "bare", "unsupported", "error", "lost"}
Tells(bare, lost) ==
    [r \in TellReplies |-> CASE r \in {"balance", "split"} -> "balance" [] r = "bare" -> bare
                           [] r = "lost" -> lost [] OTHER -> "error"]

LndRest_create_invoice == Makes("failed", "failed")
LndRest_status == Tells("error", "error")
LndGrpc_create_invoice == Makes("failed", "failed")
LndGrpc_status == Tells("zero", "error")
CoreLightning_create_invoice == Makes("failed", "failed")
CoreLightning_status == Tells("error", "error")
CoreLightningRest_create_invoice == Makes("failed", "failed")
CoreLightningRest_status == Tells("error", "error")
ClnRest_create_invoice == Makes("failed", "failed")
ClnRest_status == Tells("zero", "error")
Spark_create_invoice == Makes("raises", "failed")
Spark_status == Tells("raises", "error")
SparkL2_create_invoice == Makes("failed", "failed")
SparkL2_status == Tells("error", "error")
Eclair_create_invoice == Makes("failed", "failed")
Eclair_status == Tells("error", "error")
Phoenixd_create_invoice == Makes("failed", "failed")
Phoenixd_status == [Tells("error", "error") EXCEPT !["split"] = "part"]
LNbits_error_is_zero == Tells("zero", "zero")
LNbits_create_invoice == Makes("failed", "failed")
LNbits_status == Tells("error", "error")
LNPay_create_invoice == [Makes("raises", "raises") EXCEPT !["made"] = "unnamed"]
LNPay_status == Tells("raises", "error")
LnTips_create_invoice == Makes("raises", "raises")
LnTips_status == Tells("raises", "raises")
OpenNode_create_invoice == Makes("raises", "raises")
OpenNode_status == Tells("raises", "error")
ZBD_create_invoice == Makes("raises", "raises")
ZBD_status == Tells("raises", "error")
Alby_create_invoice == Makes("failed", "failed")
Alby_status == Tells("error", "error")
Breez_create_invoice == Makes("failed", "failed")
Breez_status == Tells("error", "error")
BreezLiquid_create_invoice == Makes("failed", "failed")
BreezLiquid_status == Tells("error", "error")
Boltz_create_invoice == Makes("failed", "failed")
Boltz_status == Tells("zero", "error")
Strike_create_invoice == Makes("failed", "failed")
Strike_status == Tells("zero", "error")
Blink_create_invoice == Makes("unnamed", "failed")
Blink_status == Tells("error", "error")
Bark_create_invoice == Makes("failed", "failed")
Bark_status == Tells("error", "error")
NWC_create_invoice == Makes("failed", "failed")
NWC_status == [Tells("error", "error") EXCEPT !["unsupported"] = "zero"]

MakeTable ==
    [LndRest |-> LndRest_create_invoice, LndGrpc |-> LndGrpc_create_invoice,
     CoreLightning |-> CoreLightning_create_invoice, CoreLightningRest |-> CoreLightningRest_create_invoice,
     ClnRest |-> ClnRest_create_invoice, Spark |-> Spark_create_invoice,
     SparkL2 |-> SparkL2_create_invoice, Eclair |-> Eclair_create_invoice,
     Phoenixd |-> Phoenixd_create_invoice, LNbits |-> LNbits_create_invoice,
     LNPay |-> LNPay_create_invoice, LnTips |-> LnTips_create_invoice,
     OpenNode |-> OpenNode_create_invoice, ZBD |-> ZBD_create_invoice,
     Alby |-> Alby_create_invoice, Breez |-> Breez_create_invoice,
     BreezLiquid |-> BreezLiquid_create_invoice, Boltz |-> Boltz_create_invoice,
     Strike |-> Strike_create_invoice, Blink |-> Blink_create_invoice,
     Bark |-> Bark_create_invoice, NWC |-> NWC_create_invoice]

TellTable ==
    [LndRest |-> LndRest_status, LndGrpc |-> LndGrpc_status,
     CoreLightning |-> CoreLightning_status, CoreLightningRest |-> CoreLightningRest_status,
     ClnRest |-> ClnRest_status, Spark |-> Spark_status,
     SparkL2 |-> SparkL2_status, Eclair |-> Eclair_status,
     Phoenixd |-> Phoenixd_status, LNbits |-> LNbits_status,
     LNPay |-> LNPay_status, LnTips |-> LnTips_status,
     OpenNode |-> OpenNode_status, ZBD |-> ZBD_status,
     Alby |-> Alby_status, Breez |-> Breez_status,
     BreezLiquid |-> BreezLiquid_status, Boltz |-> Boltz_status,
     Strike |-> Strike_status, Blink |-> Blink_status,
     Bark |-> Bark_status, NWC |-> NWC_status]
=============================================================================
