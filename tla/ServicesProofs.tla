--------------------------- MODULE ServicesProofs ---------------------------
(***************************************************************************)
(* The adapters of the funding sources, and the services around them, for  *)
(* any set of adapters:                                                    *)
(*  - whatever adapter is configured, the core learns of a payment and of  *)
(*    an invoice what their node decided (AdapterCalls);                   *)
(*  - hold invoices, the treasury and the invocations of WASM extensions   *)
(*    keep their types and their safety (MCServices);                      *)
(*  - so do the listeners, the queues of NWC and Blink, what is shown as   *)
(*    the balance of the node, and the trackers (MCDispatch).              *)
(***************************************************************************)
EXTENDS MCServices, MCDispatch, Integers, FiniteSets, FiniteSetTheorems, SequenceTheorems, TLAPS

-----------------------------------------------------------------------------
(* What the tables of all adapters have in common. *)
Refusals == {"failed", "code", "bad_request", "rejected"}

CarefulPay(t) == \A r \in PayReplies :
    /\ t[r] \in Verdicts \cup {"ask"}
    /\ t[r] = "paid" => r = "succeeded"
    /\ t[r] = "failed" => r \in Refusals
CarefulStatus(t) == \A s \in StatusReplies :
    /\ t[s] \in Verdicts
    /\ t[s] = "paid" => s = "succeeded"
    /\ t[s] = "failed" => s \in {"failed", "unknown", "overdue"}
CarefulInvoice(t, seen) == \A r \in InvoiceReplies :
    /\ t[r] \in Verdicts
    /\ t[r] = "paid" => r = "received"
    /\ t[r] = "failed" => r \in seen

(* A table made with Reads says paid on the replies of its first set only, and *)
(* failed on those of its second (PaymentResponse).                            *)
LEMMA ReadsIsCareful ==
    ASSUME NEW paid \in SUBSET {"succeeded"}, NEW failed \in SUBSET Refusals, NEW asks
    PROVE  CarefulPay(Reads(paid, failed, asks))
BY DEF CarefulPay, Reads, Verdicts

(* A table made with Looks says failed on the answers it is given (PaymentStatus). *)
LEMMA LooksIsCareful ==
    ASSUME NEW failed \in SUBSET {"failed", "unknown", "overdue"}
    PROVE  CarefulStatus(Looks(failed))
BY DEF CarefulStatus, Looks, Verdicts

(* A table made with Sees says failed on the answers it is given (PaymentStatus). *)
LEMMA SeesIsCareful ==
    ASSUME NEW failed, NEW seen, failed \subseteq seen
    PROVE  CarefulInvoice(Sees(failed), seen)
BY DEF CarefulInvoice, Sees, Verdicts

(* pay_invoice of every adapter says paid of a success and failed of a refusal only. *)
LEMMA PayTableIsCareful == \A a \in DOMAIN PayTable : CarefulPay(PayTable[a])
<1>1. CarefulPay(LndRest_pay_invoice)  BY ReadsIsCareful DEF LndRest_pay_invoice, Refusals, Unclear
<1>2. CarefulPay(LndGrpc_pay_invoice)  BY ReadsIsCareful DEF LndGrpc_pay_invoice, Refusals, Unclear
<1>3. CarefulPay(CoreLightning_pay_invoice)  BY ReadsIsCareful DEF CoreLightning_pay_invoice, Refusals, Unclear
<1>4. CarefulPay(CoreLightningRest_pay_invoice)  BY ReadsIsCareful DEF CoreLightningRest_pay_invoice, Refusals, Unclear
<1>5. CarefulPay(ClnRest_pay_invoice)  BY ReadsIsCareful DEF ClnRest_pay_invoice, Refusals, Unclear
<1>6. CarefulPay(Spark_pay_invoice)  BY ReadsIsCareful DEF Spark_pay_invoice, Refusals, Unclear
<1>7. CarefulPay(SparkL2_pay_invoice)  BY ReadsIsCareful DEF SparkL2_pay_invoice, Refusals, Unclear
<1>8. CarefulPay(Eclair_pay_invoice)  BY ReadsIsCareful DEF Eclair_pay_invoice, Refusals, Unclear
<1>9. CarefulPay(Phoenixd_pay_invoice)  BY ReadsIsCareful DEF Phoenixd_pay_invoice, Refusals, Unclear
<1>10. CarefulPay(LNbits_pay_invoice)  BY ReadsIsCareful DEF LNbits_pay_invoice, Refusals, Unclear
<1>11. CarefulPay(LNPay_pay_invoice)  BY ReadsIsCareful DEF LNPay_pay_invoice, Refusals, Unclear
<1>12. CarefulPay(LnTips_pay_invoice)  BY ReadsIsCareful DEF LnTips_pay_invoice, Refusals, Unclear
<1>13. CarefulPay(OpenNode_pay_invoice)  BY ReadsIsCareful DEF OpenNode_pay_invoice, Refusals, Unclear
<1>14. CarefulPay(ZBD_pay_invoice)  BY ReadsIsCareful DEF ZBD_pay_invoice, Refusals, Unclear
<1>15. CarefulPay(Alby_pay_invoice)  BY ReadsIsCareful DEF Alby_pay_invoice, Refusals, Unclear
<1>16. CarefulPay(Breez_pay_invoice)  BY ReadsIsCareful DEF Breez_pay_invoice, Refusals, Unclear
<1>17. CarefulPay(BreezLiquid_pay_invoice)  BY ReadsIsCareful DEF BreezLiquid_pay_invoice, Refusals, Unclear
<1>18. CarefulPay(Boltz_pay_invoice)  BY ReadsIsCareful DEF Boltz_pay_invoice, Refusals, Unclear
<1>19. CarefulPay(Strike_pay_invoice)  BY ReadsIsCareful DEF Strike_pay_invoice, Refusals, Unclear
<1>20. CarefulPay(Blink_pay_invoice)  BY ReadsIsCareful DEF Blink_pay_invoice, Refusals, Unclear
<1>21. CarefulPay(Bark_pay_invoice)  BY ReadsIsCareful DEF Bark_pay_invoice, Refusals, Unclear
<1>22. CarefulPay(NWC_pay_invoice)  BY ReadsIsCareful DEF NWC_pay_invoice, Refusals, Unclear
<1>. QED  BY <1>1, <1>2, <1>3, <1>4, <1>5, <1>6, <1>7, <1>8, <1>9, <1>10, <1>11, <1>12,
                 <1>13, <1>14, <1>15, <1>16, <1>17, <1>18, <1>19, <1>20, <1>21, <1>22 DEF PayTable

(* get_payment_status of every adapter says paid of a success only. *)
LEMMA StatusTableIsCareful == \A a \in DOMAIN PayTable : CarefulStatus(StatusTable[a])
<1>1. CarefulStatus(LndRest_payment_status)  BY LooksIsCareful DEF LndRest_payment_status
<1>2. CarefulStatus(LndGrpc_payment_status)  BY LooksIsCareful DEF LndGrpc_payment_status
<1>3. CarefulStatus(CoreLightning_payment_status)  BY LooksIsCareful DEF CoreLightning_payment_status
<1>4. CarefulStatus(CoreLightningRest_payment_status)  BY LooksIsCareful DEF CoreLightningRest_payment_status
<1>5. CarefulStatus(ClnRest_payment_status)  BY LooksIsCareful DEF ClnRest_payment_status
<1>6. CarefulStatus(Spark_payment_status)  BY LooksIsCareful DEF Spark_payment_status
<1>7. CarefulStatus(SparkL2_payment_status)  BY LooksIsCareful DEF SparkL2_payment_status
<1>8. CarefulStatus(Eclair_payment_status)  BY LooksIsCareful DEF Eclair_payment_status
<1>9. CarefulStatus(Phoenixd_payment_status)  BY LooksIsCareful DEF Phoenixd_payment_status
<1>10. CarefulStatus(LNbits_payment_status)  BY LooksIsCareful DEF LNbits_payment_status
<1>11. CarefulStatus(LNPay_payment_status)  BY LooksIsCareful DEF LNPay_payment_status
<1>12. CarefulStatus(LnTips_payment_status)  BY LooksIsCareful DEF LnTips_payment_status
<1>13. CarefulStatus(OpenNode_payment_status)  BY LooksIsCareful DEF OpenNode_payment_status
<1>14. CarefulStatus(ZBD_payment_status)  BY LooksIsCareful DEF ZBD_payment_status
<1>15. CarefulStatus(Alby_payment_status)  BY LooksIsCareful DEF Alby_payment_status
<1>16. CarefulStatus(Breez_payment_status)  BY LooksIsCareful DEF Breez_payment_status
<1>17. CarefulStatus(BreezLiquid_payment_status)  BY LooksIsCareful DEF BreezLiquid_payment_status
<1>18. CarefulStatus(Boltz_payment_status)  BY LooksIsCareful DEF Boltz_payment_status
<1>19. CarefulStatus(Strike_payment_status)  BY LooksIsCareful DEF Strike_payment_status
<1>20. CarefulStatus(Blink_payment_status)  BY LooksIsCareful DEF Blink_payment_status
<1>21. CarefulStatus(Bark_payment_status)  BY LooksIsCareful DEF Bark_payment_status
<1>22. CarefulStatus(NWC_payment_status)  BY LooksIsCareful DEF NWC_payment_status
<1>. QED  BY <1>1, <1>2, <1>3, <1>4, <1>5, <1>6, <1>7, <1>8, <1>9, <1>10, <1>11, <1>12,
                 <1>13, <1>14, <1>15, <1>16, <1>17, <1>18, <1>19, <1>20, <1>21, <1>22 DEF PayTable, StatusTable

(* Told says on which answers get_invoice_status of an adapter may say failed. *)
Told(a) == {"expired", "unknown"} \cup (IF a = "LnTips" THEN {"open"} ELSE {})

(* get_invoice_status of every adapter says paid of a receipt only. *)
LEMMA InvoiceTableIsCareful == \A a \in DOMAIN PayTable : CarefulInvoice(InvoiceTable[a], Told(a))
<1>1. CarefulInvoice(LndRest_invoice_status, Told("LndRest"))  BY SeesIsCareful DEF LndRest_invoice_status, Told
<1>2. CarefulInvoice(LndGrpc_invoice_status, Told("LndGrpc"))  BY SeesIsCareful DEF LndGrpc_invoice_status, Told
<1>3. CarefulInvoice(CoreLightning_invoice_status, Told("CoreLightning"))  BY SeesIsCareful DEF CoreLightning_invoice_status, Told
<1>4. CarefulInvoice(CoreLightningRest_invoice_status, Told("CoreLightningRest"))  BY SeesIsCareful DEF CoreLightningRest_invoice_status, Told
<1>5. CarefulInvoice(ClnRest_invoice_status, Told("ClnRest"))  BY SeesIsCareful DEF ClnRest_invoice_status, Told
<1>6. CarefulInvoice(Spark_invoice_status, Told("Spark"))  BY SeesIsCareful DEF Spark_invoice_status, Told
<1>7. CarefulInvoice(SparkL2_invoice_status, Told("SparkL2"))  BY SeesIsCareful DEF SparkL2_invoice_status, Told
<1>8. CarefulInvoice(Eclair_invoice_status, Told("Eclair"))  BY SeesIsCareful DEF Eclair_invoice_status, Told
<1>9. CarefulInvoice(Phoenixd_invoice_status, Told("Phoenixd"))  BY SeesIsCareful DEF Phoenixd_invoice_status, Told
<1>10. CarefulInvoice(LNbits_invoice_status, Told("LNbits"))  BY SeesIsCareful DEF LNbits_invoice_status, Told
<1>11. CarefulInvoice(LNPay_invoice_status, Told("LNPay"))  BY SeesIsCareful DEF LNPay_invoice_status, Told
<1>12. CarefulInvoice(LnTips_invoice_status, Told("LnTips"))  BY SeesIsCareful DEF LnTips_invoice_status, Told
<1>13. CarefulInvoice(OpenNode_invoice_status, Told("OpenNode"))  BY SeesIsCareful DEF OpenNode_invoice_status, Told
<1>14. CarefulInvoice(ZBD_invoice_status, Told("ZBD"))  BY SeesIsCareful DEF ZBD_invoice_status, Told
<1>15. CarefulInvoice(Alby_invoice_status, Told("Alby"))  BY SeesIsCareful DEF Alby_invoice_status, Told
<1>16. CarefulInvoice(Breez_invoice_status, Told("Breez"))  BY SeesIsCareful DEF Breez_invoice_status, Told
<1>17. CarefulInvoice(BreezLiquid_invoice_status, Told("BreezLiquid"))  BY SeesIsCareful DEF BreezLiquid_invoice_status, Told
<1>18. CarefulInvoice(Boltz_invoice_status, Told("Boltz"))  BY SeesIsCareful DEF Boltz_invoice_status, Told
<1>19. CarefulInvoice(Strike_invoice_status, Told("Strike"))  BY SeesIsCareful DEF Strike_invoice_status, Told
<1>20. CarefulInvoice(Blink_invoice_status, Told("Blink"))  BY SeesIsCareful DEF Blink_invoice_status, Told
<1>21. CarefulInvoice(Bark_invoice_status, Told("Bark"))  BY SeesIsCareful DEF Bark_invoice_status, Told
<1>22. CarefulInvoice(NWC_invoice_status, Told("NWC"))  BY SeesIsCareful DEF NWC_invoice_status, Told
<1>. QED  BY <1>1, <1>2, <1>3, <1>4, <1>5, <1>6, <1>7, <1>8, <1>9, <1>10, <1>11, <1>12,
                 <1>13, <1>14, <1>15, <1>16, <1>17, <1>18, <1>19, <1>20, <1>21, <1>22 DEF PayTable, InvoiceTable

-----------------------------------------------------------------------------
(* A node acts on a request that has reached it, and the core has a basis for *)
(* what it was told.                                                          *)
IInv ==
    /\ TypeOK
    /\ adapter = "none" => request = "none" /\ invoice = "none" /\ ~calling
    /\ node # "none" => request = "arrived"
    /\ verdict = "pending" => basis = "none"
    /\ credit = "pending" => creditBasis = "none"
    /\ invoice = "none" => credit = "pending"

(* The answers of a node about a payment agree with what it decided. *)
LEMMA AnswersAgree ==
    ASSUME IInv, adapter # "none"
    PROVE  /\ \A r \in PayAnswers : /\ r \in PayReplies
                                    /\ PayTable[adapter][r] \in Verdicts \cup {"ask"}
                                    /\ PayTable[adapter][r] = "paid" => node = "settled"
                                    /\ PayTable[adapter][r] = "failed" => node \in {"failed", "refused"}
           /\ \A s \in StatusAnswers : /\ s \in StatusReplies
                                       /\ StatusTable[adapter][s] \in Verdicts
                                       /\ StatusTable[adapter][s] = "paid" => node = "settled"
                                       /\ StatusTable[adapter][s] = "failed" =>
                                             node = "failed" \/ s \in {"unknown", "overdue"}
                                       /\ Nested(s) \in {StatusTable[adapter][s], "pending"}
<1>1. adapter \in DOMAIN PayTable  BY OfferedAdapters DEF IInv, TypeOK
<1>2. CarefulPay(PayTable[adapter])  BY <1>1, PayTableIsCareful
<1>3. CarefulStatus(StatusTable[adapter])  BY <1>1, StatusTableIsCareful
<1>4. node \in {"none", "refused", "in_flight", "settled", "failed"} /\ known \in BOOLEAN
    BY DEF IInv, TypeOK
<1>5. ASSUME NEW r \in PayAnswers
      PROVE  /\ r \in PayReplies
             /\ r = "succeeded" => node = "settled"
             /\ r \in Refusals => node \in {"failed", "refused"}
    BY <1>4, <1>5 DEF PayAnswers, PayReplies, Refusals
<1>6. ASSUME NEW s \in StatusAnswers
      PROVE  /\ s \in StatusReplies
             /\ s = "succeeded" => node = "settled"
             /\ s = "failed" => node = "failed"
    BY <1>4, <1>6 DEF StatusAnswers, StatusReplies
<1>7. ASSUME NEW s \in StatusAnswers
      PROVE  Nested(s) \in {StatusTable[adapter][s], "pending"}
    BY DEF Nested
<1>. QED  BY <1>2, <1>3, <1>5, <1>6, <1>7 DEF CarefulPay, CarefulStatus

LEMMA InvoiceAnswersAgree ==
    ASSUME IInv, adapter # "none", invoice # "none", NEW r \in InvoiceAnswers
    PROVE  /\ r \in InvoiceReplies
           /\ InvoiceTable[adapter][r] \in Verdicts
           /\ InvoiceTable[adapter][r] = "paid" => invoice = "received"
           /\ InvoiceTable[adapter][r] = "failed" =>
                 invoice = "expired" \/ r = "unknown" \/ (adapter = "LnTips" /\ r = "open")
<1>1. adapter \in DOMAIN PayTable  BY OfferedAdapters DEF IInv, TypeOK
<1>2. CarefulInvoice(InvoiceTable[adapter], Told(adapter))  BY <1>1, InvoiceTableIsCareful
<1>3. /\ r \in InvoiceReplies
      /\ r = "received" => invoice = "received"
      /\ r = "expired" => invoice = "expired"
    BY DEF IInv, TypeOK, InvoiceAnswers, InvoiceReplies
<1>. QED  BY <1>2, <1>3 DEF CarefulInvoice, Told

-----------------------------------------------------------------------------
(* What the contracts see of a payment and of an invoice. *)
Heard == IF basis \in {"unknown", "overdue"} THEN "pending" ELSE verdict
Receipt == IF invoice = "received" THEN "paid" ELSE IF invoice = "expired" THEN "failed" ELSE "open"
Credited == IF creditBasis = "unknown" \/ (adapter = "LnTips" /\ creditBasis = "open")
            THEN "pending" ELSE credit

Paying == \/ UNCHANGED <<Outcome, Heard>>
          \/ Outcome = "open" /\ Outcome' \in {"paid", "failed"} /\ Heard' = Heard
          \/ Heard = "pending" /\ Outcome # "open" /\ Heard' = Outcome /\ Outcome' = Outcome
Crediting == \/ UNCHANGED <<Receipt, Credited>>
             \/ Receipt = "open" /\ Receipt' \in {"paid", "failed"} /\ Credited' = Credited
             \/ Credited = "pending" /\ Receipt # "open" /\ Credited' = Receipt /\ Receipt' = Receipt

(* A step that leaves the verdict alone decides the payment once. *)
LEMMA DecidedOnce ==
    ASSUME IInv, UNCHANGED <<verdict, basis>>,
           \/ UNCHANGED <<node, request>>
           \/ request = "none" /\ request' \in {"transit", "never"} /\ node' = node
           \/ request = "transit" /\ request' = "lost" /\ node' = node
           \/ request = "transit" /\ request' = "arrived" /\ node' \in {"in_flight", "refused"}
           \/ node = "in_flight" /\ node' \in {"settled", "failed"} /\ request' = request
    PROVE  Paying
<1>1. Heard' = Heard  BY DEF Heard
<1>. QED  BY <1>1 DEF Paying, Outcome, IInv, TypeOK

(* The core learns a verdict that the node stands for. *)
LEMMA LearnedIsTrue ==
    ASSUME IInv, NEW v \in Verdicts, NEW b \in PayReplies \cup StatusReplies \cup {"never"},
           Learn(v, b), UNCHANGED <<node, request>>,
           v = "paid" => node = "settled",
           v = "failed" => \/ node \in {"failed", "refused"} \/ request = "never"
                           \/ b \in {"unknown", "overdue"}
    PROVE  /\ Paying
           /\ verdict' \in Verdicts /\ basis' \in PayReplies \cup StatusReplies \cup {"none", "never"}
           /\ verdict' = "pending" => basis' = "none"
<1>1. Outcome' = Outcome  BY DEF Outcome
<1>2. CASE verdict = "pending" /\ v # "pending"
  <2>1. verdict' = v /\ basis' = b  BY <1>2 DEF Learn
  <2>2. Heard = "pending"  BY <1>2 DEF Heard
  <2>3. CASE b \in {"unknown", "overdue"}  BY <1>1, <1>2, <2>1, <2>2, <2>3 DEF Paying, Heard
  <2>4. CASE b \notin {"unknown", "overdue"}
    <3>1. Heard' = v  BY <2>1, <2>4 DEF Heard
    <3>2. v = Outcome
      <4>1. request = "never" => node = "none"  BY DEF IInv, TypeOK
      <4>. QED  BY <1>2, <2>4, <4>1 DEF Outcome, Verdicts
    <3>. QED  BY <1>1, <1>2, <2>1, <2>2, <3>1, <3>2 DEF Paying, Verdicts
  <2>. QED  BY <2>3, <2>4
<1>3. CASE ~(verdict = "pending" /\ v # "pending")
  <2>1. UNCHANGED <<verdict, basis>>  BY <1>3 DEF Learn
  <2>. QED  BY <1>1, <2>1 DEF Paying, Heard, IInv, TypeOK
<1>. QED  BY <1>2, <1>3

-----------------------------------------------------------------------------
LEMMA InitHolds == Init => IInv /\ Outcome = "open" /\ Heard = "pending" /\ Receipt = "open"
                           /\ Credited = "pending"
BY DEF Init, IInv, TypeOK, Verdicts, Outcome, Heard, Receipt, Credited

(* Every step keeps the invariant and both contracts. *)
LEMMA StepHolds == IInv /\ [Next]_vars => IInv' /\ Paying /\ Crediting
<1>. SUFFICES ASSUME IInv, [Next]_vars PROVE IInv' /\ Paying /\ Crediting
    OBVIOUS
<1>. USE DEF payment, receipt
<1>0. UNCHANGED <<adapter, receipt>> => Crediting
    BY DEF Crediting, Receipt, Credited
<1>1. ASSUME NEW a \in Offered, Configure(a) PROVE IInv' /\ Paying /\ Crediting
  <2>1. IInv'  BY <1>1 DEF Configure, IInv, TypeOK
  <2>2. Paying  BY <1>1, DecidedOnce DEF Configure
  <2>3. invoice = "none" /\ Receipt' = Receipt
      BY <1>1 DEF Configure, IInv, Receipt
  <2>4. Credited' = Credited
      BY <1>1 DEF Configure, IInv, TypeOK, Credited
  <2>. QED  BY <2>1, <2>2, <2>3, <2>4 DEF Crediting
<1>2. CASE Replace
  BY <1>0, <1>2, DecidedOnce DEF Replace, IInv, TypeOK
<1>3. CASE Send
  <2>1. IInv'  BY <1>3 DEF Send, IInv, TypeOK
  <2>2. Paying  BY <1>3, DecidedOnce DEF Send
  <2>. QED  BY <1>0, <1>3, <2>1, <2>2 DEF Send
<1>4. CASE Network
  <2>1. IInv'  BY <1>4 DEF Network, IInv, TypeOK
  <2>2. Paying  BY <1>4, DecidedOnce DEF Network
  <2>. QED  BY <1>0, <1>4, <2>1, <2>2 DEF Network
<1>5. CASE NodeDecides
  <2>1. IInv'  BY <1>5 DEF NodeDecides, IInv, TypeOK
  <2>2. Paying  BY <1>5, DecidedOnce DEF NodeDecides
  <2>. QED  BY <1>0, <1>5, <2>1, <2>2 DEF NodeDecides
<1>6. CASE TimePasses
  <2>1. IInv'  BY <1>6 DEF TimePasses, IInv, TypeOK
  <2>2. Paying  BY <1>6, DecidedOnce DEF TimePasses
  <2>. QED  BY <1>0, <1>6, <2>1, <2>2 DEF TimePasses
<1>7. CASE PayReturns
  <2>. DEFINE Backed(v, b) ==
           /\ Learn(v, b)
           /\ v = "paid" => node = "settled"
           /\ v = "failed" => \/ node \in {"failed", "refused"} \/ request = "never"
                              \/ b \in {"unknown", "overdue"}
  <2>1. adapter # "none"  BY <1>7 DEF PayReturns, IInv
  <2>2. PICK v \in Verdicts, b \in PayReplies \cup StatusReplies \cup {"never"} : Backed(v, b)
    <3>1. CASE request = "never" /\ Learn("failed", "never")
      <4>1. Backed("failed", "never")  BY <3>1
      <4>. QED  BY <4>1 DEF Verdicts
    <3>2. ASSUME NEW r \in PayAnswers, PayTable[adapter][r] # "ask", Learn(PayTable[adapter][r], r)
          PROVE  \E v \in Verdicts, b \in PayReplies : Backed(v, b)
      <4>1. /\ r \in PayReplies /\ PayTable[adapter][r] \in Verdicts
            /\ PayTable[adapter][r] = "paid" => node = "settled"
            /\ PayTable[adapter][r] = "failed" => node \in {"failed", "refused"}
        BY <2>1, <3>2, AnswersAgree DEF Verdicts
      <4>2. Backed(PayTable[adapter][r], r)  BY <3>2, <4>1
      <4>. QED  BY <4>1, <4>2
    <3>3. ASSUME NEW s \in StatusAnswers, Learn(Nested(s), s)
          PROVE  \E v \in Verdicts, b \in StatusReplies : Backed(v, b)
      <4>1. /\ s \in StatusReplies /\ Nested(s) \in Verdicts
            /\ Nested(s) = "paid" => node = "settled"
            /\ Nested(s) = "failed" => node = "failed" \/ s \in {"unknown", "overdue"}
        BY <2>1, AnswersAgree DEF Verdicts
      <4>2. Backed(Nested(s), s)  BY <3>3, <4>1
      <4>. QED  BY <4>1, <4>2
    <3>. QED  BY <1>7, <3>1, <3>2, <3>3 DEF PayReturns
  <2>3. UNCHANGED <<adapter, known, request, node, overdue, receipt>> /\ calling' = FALSE
    BY <1>7 DEF PayReturns
  <2>4. /\ Paying
        /\ verdict' \in Verdicts /\ basis' \in PayReplies \cup StatusReplies \cup {"none", "never"}
        /\ verdict' = "pending" => basis' = "none"
    <3>1. UNCHANGED <<node, request>>  BY <2>3
    <3>. HIDE DEF payment, receipt
    <3>. QED  BY <2>2, <3>1, LearnedIsTrue
  <2>5. IInv'  BY <2>3, <2>4 DEF IInv, TypeOK
  <2>. QED  BY <1>0, <2>3, <2>4, <2>5
<1>8. CASE AskStatus
  <2>1. adapter # "none"  BY <1>8 DEF AskStatus, IInv
  <2>2. PICK s \in StatusAnswers : Learn(StatusTable[adapter][s], s)
    BY <1>8 DEF AskStatus
  <2>3. UNCHANGED <<adapter, known, request, calling, node, overdue, receipt>>
    BY <1>8 DEF AskStatus
  <2>4. /\ Paying
        /\ verdict' \in Verdicts /\ basis' \in PayReplies \cup StatusReplies \cup {"none", "never"}
        /\ verdict' = "pending" => basis' = "none"
    <3>1. /\ s \in StatusReplies /\ StatusTable[adapter][s] \in Verdicts
          /\ StatusTable[adapter][s] = "paid" => node = "settled"
          /\ StatusTable[adapter][s] = "failed" => node = "failed" \/ s \in {"unknown", "overdue"}
      BY <2>1, AnswersAgree
    <3>. HIDE DEF payment, receipt
    <3>2. UNCHANGED <<node, request>>  BY <2>3
    <3>. QED  BY <2>2, <3>1, <3>2, LearnedIsTrue
  <2>5. IInv'  BY <2>3, <2>4 DEF IInv, TypeOK
  <2>. QED  BY <1>0, <2>3, <2>4, <2>5
<1>9. CASE NodeInvoice
  <2>1. IInv'  BY <1>9 DEF NodeInvoice, IInv, TypeOK
  <2>2. Paying  BY <1>9, DecidedOnce DEF NodeInvoice
  <2>3. Credited' = Credited  BY <1>9 DEF NodeInvoice, Credited
  <2>4. Crediting  BY <1>9, <2>3 DEF NodeInvoice, Crediting, Receipt
  <2>. QED  BY <2>1, <2>2, <2>4
<1>10. CASE AskInvoice
  <2>1. PICK r \in InvoiceAnswers :
           /\ credit' = InvoiceTable[adapter][r]
           /\ creditBasis' = IF InvoiceTable[adapter][r] = "pending" THEN creditBasis ELSE r
    BY <1>10 DEF AskInvoice
  <2>2. adapter # "none" /\ invoice # "none" /\ credit = "pending"
    BY <1>10 DEF AskInvoice, IInv
  <2>3. UNCHANGED <<adapter, known, payment, invoice>>  BY <1>10 DEF AskInvoice
  <2>4. /\ r \in InvoiceReplies /\ credit' \in Verdicts
        /\ credit' = "paid" => invoice = "received"
        /\ credit' = "failed" =>
              invoice = "expired" \/ r = "unknown" \/ (adapter = "LnTips" /\ r = "open")
    BY <2>1, <2>2, InvoiceAnswersAgree
  <2>5. creditBasis = "none"  BY <2>2 DEF IInv
  <2>6. creditBasis' = IF credit' = "pending" THEN "none" ELSE r  BY <2>1, <2>5
  <2>7. IInv'  BY <2>2, <2>3, <2>4, <2>6 DEF IInv, TypeOK
  <2>8. Paying  BY <2>3, DecidedOnce
  <2>9. Crediting
    <3>1. Receipt' = Receipt  BY <2>3 DEF Receipt
    <3>2. Credited = "pending"  BY <2>2 DEF Credited
    <3>3. Credited' = IF r = "unknown" \/ (adapter = "LnTips" /\ r = "open")
                      THEN "pending" ELSE credit'
      BY <2>3, <2>6 DEF Credited
    <3>. QED  BY <2>4, <3>1, <3>2, <3>3 DEF Crediting, Receipt, Verdicts
  <2>. QED  BY <2>7, <2>8, <2>9
<1>11. CASE UNCHANGED vars
  BY <1>0, <1>11, DecidedOnce DEF vars, IInv, TypeOK
<1>. QED
  BY <1>1, <1>2, <1>3, <1>4, <1>5, <1>6, <1>7, <1>8, <1>9, <1>10, <1>11 DEF Next

(* The invariant holds in every reachable state of any set of adapters. *)
THEOREM Invariance == Spec => []IInv
<1>1. Init => IInv  BY InitHolds
<1>2. IInv /\ [Next]_vars => IInv'  BY StepHolds
<1>. QED  BY <1>1, <1>2, PTL DEF Spec

(* The verdicts the core hears are among the three it tells apart. *)
THEOREM AdapterTypes == Spec => []TypeOK
<1>1. IInv => TypeOK  BY DEF IInv
<1>. QED  BY <1>1, Invariance, PTL

(* Whatever adapter is configured, a payment that is reported as paid was      *)
(* settled by the node, and one that is reported as failed was given up by it, *)
(* unless the adapter only knew that the node had no record of it.             *)
THEOREM PaymentRefinement == Spec => PaymentContractKept
<1>1. Init => PaymentContract!Init
  BY InitHolds DEF PaymentContract!Init, Heard
<1>2. IInv /\ [Next]_vars => [PaymentContract!Next]_<<Outcome, Heard>>
  BY StepHolds DEF Paying, PaymentContract!Next, PaymentContract!Decide, PaymentContract!Report, Heard
<1>. QED
  BY <1>1, <1>2, Invariance, PTL
  DEF Spec, PaymentContractKept, PaymentContract!Spec, Heard

(* The same for the credit of an invoice. *)
THEOREM InvoiceRefinement == Spec => InvoiceContractKept
<1>1. Init => InvoiceContract!Init
  BY InitHolds DEF InvoiceContract!Init, Receipt, Credited
<1>2. IInv /\ [Next]_vars => [InvoiceContract!Next]_<<Receipt, Credited>>
  BY StepHolds DEF Crediting, InvoiceContract!Next, InvoiceContract!Decide, InvoiceContract!Report,
                   Receipt, Credited
<1>. QED
  BY <1>1, <1>2, Invariance, PTL
  DEF Spec, InvoiceContractKept, InvoiceContract!Spec, Receipt, Credited

-----------------------------------------------------------------------------
(* A hold invoice: who has begun has it from the node, and the copy that says *)
(* success, as the news of the stream, is of an invoice the node has settled. *)
HeldTrue ==
    /\ holdRow # "none" => holdNode # "none"
    /\ holdRow = "success" => holdNode = "settled"
    /\ \A a \in H!Actors :
         /\ holdTask[a] # "idle" => holdNode # "none"
         /\ holdCopy[a] = "success" => holdNode = "settled"
    /\ holdTask["stream"] = "write" => holdNode = "settled"
HInv == H!TypeOK /\ HeldTrue

(* What the node has done stays done, whatever is still to be written. *)
LEMMA HFrame ==
    ASSUME HInv, UNCHANGED <<holdRow, holdTask, holdCopy>>, holdNode' \in {"none", "open", "accepted", "settled", "canceled"},
           holdNode # "none" => holdNode' # "none", holdNode = "settled" => holdNode' = "settled",
           holdExpired' \in BOOLEAN, holdEvent' \in BOOLEAN
    PROVE  HInv'
BY DEF HInv, H!TypeOK, HeldTrue

(* A write of a status that the node stands for. *)
LEMMA HWrites ==
    ASSUME HInv, NEW a \in H!Actors, NEW s \in H!Statuses, s = "success" => holdNode = "settled",
           H!Write(a, s)
    PROVE  HInv'
<1>1. holdNode # "none"  BY DEF HInv, HeldTrue, H!Write, H!At
<1>2. H!TypeOK'  BY DEF HInv, H!TypeOK, H!Write, H!At
<1>. QED  BY <1>1, <1>2 DEF HInv, HeldTrue, H!TypeOK, H!Write, H!At

(* A question that is put, or answered with a verdict the node stands for. *)
LEMMA HCopies ==
    ASSUME HInv, NEW a \in H!Actors, NEW s \in H!Statuses, s = "success" => holdNode = "settled",
           NEW from, NEW to \in {"idle", "call", "ask", "write", "done"},
           holdNode # "none", a = "stream" => to # "write",
           H!At(a, from, to), holdCopy' = [holdCopy EXCEPT ![a] = s],
           holdEvent' \in BOOLEAN, UNCHANGED <<holdRow, holdNode, holdExpired>>
    PROVE  HInv'
<1>1. H!TypeOK'  BY DEF HInv, H!TypeOK, H!At
<1>. QED  BY <1>1 DEF HInv, HeldTrue, H!TypeOK, H!At

(* A request at the node, which answers, or whose answer is lost. *)
LEMMA HCalls ==
    ASSUME HInv, NEW a \in {"settle", "cancel"}, NEW from, NEW to \in {"settled", "canceled"},
           "none" \notin from, to = "canceled" => "settled" \notin from, H!CallNode(a, from, to)
    PROVE  HInv'
<1>1. /\ holdTask' \in [H!Actors -> {"idle", "call", "ask", "write", "done"}]
      /\ holdTask'["stream"] = holdTask["stream"]
      /\ \A b \in H!Actors : holdTask'[b] # "idle" => holdTask[b] # "idle"
      /\ holdTask[a] # "idle"
    BY DEF HInv, H!TypeOK, H!CallNode, H!At, H!Actors
<1>2. holdNode # "none" /\ a \in H!Actors  BY <1>1 DEF HInv, HeldTrue, H!Actors
<1>3. /\ holdNode' \in {"none", "open", "accepted", "settled", "canceled"} /\ holdNode' # "none"
      /\ holdNode = "settled" => holdNode' = "settled"
    BY <1>2 DEF HInv, H!TypeOK, H!CallNode
<1>4. holdEvent' \in BOOLEAN  BY DEF HInv, H!TypeOK, H!CallNode
<1>5. H!TypeOK'  BY <1>1, <1>3, <1>4 DEF HInv, H!TypeOK, H!CallNode
<1>. QED  BY <1>1, <1>2, <1>3, <1>5 DEF HInv, HeldTrue, H!CallNode

LEMMA HInit == H!Init => HInv
BY DEF H!Init, HInv, H!TypeOK, HeldTrue, H!Actors, H!Statuses

LEMMA HStepHolds == HInv /\ [H!Next]_hVars => HInv'
<1>. SUFFICES ASSUME HInv, [H!Next]_hVars PROVE HInv'
    OBVIOUS
<1>. USE DEF H!Actors, H!Statuses
<1>1. CASE UNCHANGED hVars
    BY <1>1, HFrame DEF hVars, HInv, H!TypeOK
<1>2. ASSUME NEW a \in H!Actors, H!Read(a) PROVE HInv'
  <2>1. holdRow \in H!Statuses /\ (holdRow = "success" => holdNode = "settled") /\ holdNode # "none"
      BY <1>2 DEF HInv, H!TypeOK, HeldTrue, H!Read
  <2>2. holdEvent' \in BOOLEAN  BY <1>2 DEF HInv, H!TypeOK, H!Read
  <2>. DEFINE to == IF a \in {"settle", "cancel"} THEN "call" ELSE "ask"
  <2>3. H!At(a, "idle", to)  BY <1>2 DEF H!Read
  <2>. QED  BY <1>2, <2>1, <2>2, <2>3, HCopies DEF H!Read
<1>3. CASE H!Create
  <2>1. /\ holdNode' \in {"open", "accepted", "settled", "canceled"} /\ holdNode # "none" => holdNode' = holdNode
        /\ holdTask' \in [H!Actors -> {"idle", "call", "ask", "write", "done"}]
        /\ holdTask'["stream"] = holdTask["stream"]
      BY <1>3 DEF HInv, H!TypeOK, H!Create, H!At
  <2>2. H!TypeOK'  BY <1>3, <2>1 DEF HInv, H!TypeOK, H!Create
  <2>. QED  BY <1>3, <2>1, <2>2 DEF HInv, HeldTrue, H!Create
<1>4. CASE H!CreateWrites  BY <1>4, HWrites DEF H!CreateWrites
<1>5. ASSUME NEW may, may => holdRow # "none", H!Edit(may) PROVE HInv'
  <2>1. holdRow \in H!Statuses /\ (holdRow = "success" => holdNode = "settled") /\ holdNode # "none"
      BY <1>5 DEF HInv, H!TypeOK, HeldTrue, H!Edit
  <2>2. holdEvent' \in BOOLEAN  BY <1>5 DEF HInv, H!TypeOK, H!Edit
  <2>. QED  BY <1>5, <2>1, <2>2, HCopies DEF H!Edit
<1>6. CASE H!EditLabels  BY <1>5, <1>6 DEF H!EditLabels
<1>7. CASE H!EditExtra  BY <1>5, <1>7 DEF H!EditExtra
<1>8. \A a \in H!Actors : holdCopy[a] \in H!Statuses /\ (holdCopy[a] = "success" => holdNode = "settled")
    BY DEF HInv, H!TypeOK, HeldTrue
<1>9. CASE H!EditWrites  BY <1>8, <1>9, HWrites DEF H!EditWrites
<1>10. CASE H!Settle  BY <1>10, HCalls DEF H!Settle
<1>11. CASE H!Cancel  BY <1>11, HCalls DEF H!Cancel
<1>12. CASE H!SettleWrites  BY <1>8, <1>12, HWrites DEF H!SettleWrites
<1>13. CASE H!CancelWrites  BY <1>13, HWrites DEF H!CancelWrites
<1>14. CASE H!CheckAsks
  <2>1. PICK v \in H!CheckVerdict :
          /\ holdCopy' = [holdCopy EXCEPT !["check"] = v]
          /\ H!At("check", "ask", IF v = "pending" THEN "idle" ELSE "write")
      BY <1>14 DEF H!CheckAsks
  <2>. DEFINE to == IF v = "pending" THEN "idle" ELSE "write"
  <2>2. v \in H!Statuses /\ (v = "success" => holdNode = "settled")  BY DEF H!CheckVerdict
  <2>3. holdNode # "none"  BY <2>1 DEF HInv, HeldTrue, H!At
  <2>4. UNCHANGED <<holdRow, holdNode, holdExpired>> /\ holdEvent' \in BOOLEAN
      BY <1>14 DEF H!CheckAsks, HInv, H!TypeOK
  <2>5. H!At("check", "ask", to)  BY <2>1
  <2>. HIDE DEF to
  <2>6. to \in {"idle", "call", "ask", "write", "done"}  BY DEF to
  <2>. QED  BY <2>1, <2>2, <2>3, <2>4, <2>5, <2>6, HCopies
<1>15. CASE H!CheckWrites  BY <1>8, <1>15, HWrites DEF H!CheckWrites
<1>16. CASE H!StreamAsks
  <2>1. /\ holdTask' \in [H!Actors -> {"idle", "call", "ask", "write", "done"}]
        /\ holdTask'["stream"] = "write" => holdNode = "settled"
        /\ \A b \in H!Actors : holdTask'[b] # "idle" => holdTask[b] # "idle"
      BY <1>16 DEF HInv, H!TypeOK, HeldTrue, H!StreamAsks, H!At
  <2>2. H!TypeOK'  BY <1>16, <2>1 DEF HInv, H!TypeOK, H!StreamAsks
  <2>. QED  BY <1>16, <2>1, <2>2 DEF HInv, HeldTrue, H!StreamAsks
<1>17. CASE H!StreamWrites
  <2>1. holdNode = "settled"  BY <1>17 DEF HInv, HeldTrue, H!StreamWrites, H!Write, H!At
  <2>. QED  BY <1>17, <2>1, HWrites DEF H!StreamWrites
<1>18. CASE H!Outside
  BY <1>18, HFrame DEF H!Outside, HInv, H!TypeOK
<1>. QED
  BY <1>1, <1>2, <1>3, <1>4, <1>6, <1>7, <1>9, <1>10, <1>11, <1>12, <1>13, <1>14, <1>15, <1>16, <1>17, <1>18
  DEF H!Next, hVars, H!vars

-----------------------------------------------------------------------------
(* The ledger differs from the node by what an administrator has made less    *)
(* what is under way; what the watchdog has read of the node is behind by no  *)
(* more than what was received since; and what an administrator has read of   *)
(* the wallet, by no more than what was spent since.                          *)
Watching == [at : {"idle", "status", "ledger"}, node : Int, recv : Nat]
Changing == [at : {"idle", "write"}, amount : Int, seen : Int, spent : Nat]
TInv ==
    /\ T!TypeOK /\ trWatch \in Watching /\ trAdmin \in Changing /\ trExcess \in Int
    /\ trLedger = trMade + trNode - trIn - trOut
    /\ trWatch.at = "ledger" => trNode - trWatch.node <= trWatch.recv
    /\ trAdmin.at = "write" => trLedger >= trAdmin.seen - trAdmin.spent
    /\ T!OverdraftIsTheGap /\ T!SwitchIsJustified

LEMMA TInit == T!Init => TInv
BY DEF T!Init, TInv, T!TypeOK, Watching, Changing, T!NoWatch, T!NoAdmin, T!Start, T!Funds, T!Delta,
       T!OverdraftIsTheGap, T!SwitchIsJustified

LEMMA TStepHolds == TInv /\ [T!Next]_tVars => TInv'
<1>. SUFFICES ASSUME TInv, [T!Next]_tVars PROVE TInv'
    OBVIOUS
<1>. USE DEF TInv, T!TypeOK, Watching, Changing, T!OverdraftIsTheGap, T!SwitchIsJustified, T!Funds,
             T!Delta, T!payments
<1>1. CASE UNCHANGED tVars  BY <1>1 DEF tVars
<1>2. CASE T!Receive  BY <1>2 DEF T!Receive
<1>3. CASE T!Credit  BY <1>3 DEF T!Credit
<1>4. CASE T!Debit  BY <1>4 DEF T!Debit
<1>5. CASE T!Sent  BY <1>5 DEF T!Sent
<1>6. CASE T!WatchStarts  BY <1>6 DEF T!WatchStarts, T!Watch, T!NoWatch
<1>7. CASE T!WatchReadsNode  BY <1>7 DEF T!WatchReadsNode, T!Watch, T!NoWatch
<1>8. CASE T!WatchDecides  BY <1>8 DEF T!WatchDecides, T!Watch, T!NoWatch
<1>9. ASSUME NEW amount \in T!Changes, T!AdminReads(amount) PROVE TInv'
    BY <1>9 DEF T!AdminReads, T!Changes
<1>10. CASE T!AdminWrites  BY <1>10 DEF T!AdminWrites, T!Allowed, T!NoAdmin
<1>. QED
  BY <1>1, <1>2, <1>3, <1>4, <1>5, <1>6, <1>7, <1>8, <1>9, <1>10 DEF T!Next, T!WatchReads, tVars, T!vars

-----------------------------------------------------------------------------
(* What an invocation has, by where its request is: a handle while it is      *)
(* waited for, a stop flag once its time is over, and no thread before.       *)
Held(i) ==
    /\ i \in wiHandles <=> wiTask[i] \in {"wait", "grace"}
    /\ wiTask[i] = "grace" => i \in wiStopped
    /\ wiTask[i] \in {"idle", "refused"} \union I!Starting => wiThread[i] = "none"

(* A store that is attached is interrupted when its handle is to stop, and     *)
(* stays so when the handle is gone; the thread has not come back.            *)
Attached(i) ==
    i \in wiBound =>
        /\ wiThread[i] \in {"wasm", "host"}
        /\ i \in wiStopped \/ i \notin wiHandles => i \in wiCut

(* An administrator's stop goes on with an invocation that has a row; and     *)
(* while the extension is being deactivated, an invocation that has a handle  *)
(* is stopped, still to be stopped, or was being started meanwhile.           *)
Leaving == wiAdmin.last \/ ~wiActive
Unstopped == IF wiAdmin.at = "stop" THEN wiAdmin.todo ELSE {i \in wiAdmin.todo : i # I!First}
Stopping ==
    /\ wiAdmin.at \in {"stop", "read", "write"} => wiAdmin.todo # {}
    /\ wiAdmin.at = "write" => wiRow[I!First] # "none"
    /\ wiAdmin.at = "end" => wiAdmin.last /\ wiAdmin.todo = {}
    /\ ~wiActive => wiAdmin = I!Idle
    /\ Leaving => \A i \in I!Ids : wiTask[i] \in I!Starting => i \in wiMissed
    /\ Leaving => wiHandles \subseteq wiStopped \union wiMissed \union Unstopped

RunsRight ==
    /\ I!TypeOK /\ I!HistoryIsTrue /\ I!StopsHold /\ Stopping
    /\ \A i \in I!Ids : Held(i) /\ Attached(i)

AdminType == [at : {"idle", "stop", "read", "write", "end"}, todo : SUBSET I!Ids, last : BOOLEAN]
LEMMA IdleAdmin == I!Idle \in AdminType
<1>1. {} \in SUBSET I!Ids  OBVIOUS
<1>. QED  BY <1>1 DEF AdminType, I!Idle

LEMMA IInit == I!Init => RunsRight
<1>. SUFFICES ASSUME I!Init PROVE RunsRight
    OBVIOUS
<1>1. I!TypeOK
  <2>1. wiAdmin \in AdminType  BY IdleAdmin DEF I!Init
  <2>2. wiCalls \in [I!Ids -> 0..I!MaxCalls]  BY DEF I!Init, I!MaxCalls
  <2>3. wiTask \in [I!Ids -> {"idle"}] /\ wiThread \in [I!Ids -> {"none"}] /\ wiRow \in [I!Ids -> {"none"}]
      BY DEF I!Init
  <2>. QED  BY <2>1, <2>2, <2>3 DEF I!Init, AdminType, I!TypeOK
<1>. USE DEF I!Init, I!Idle
<1>2. I!HistoryIsTrue /\ I!StopsHold  BY DEF I!HistoryIsTrue, I!StopsHold
<1>3. Stopping  BY DEF Stopping, Leaving
<1>4. \A i \in I!Ids : Held(i) /\ Attached(i)  BY DEF Held, Attached
<1>. QED  BY <1>1, <1>2, <1>3, <1>4 DEF RunsRight

(* Where each invocation is, kept by every step but those of the administrator. *)
LEMMA IStepHolds == RunsRight /\ [I!Next]_iVars => RunsRight'
<1>. SUFFICES ASSUME RunsRight, [I!Next]_iVars PROVE RunsRight'
    OBVIOUS
<1>. USE DEF RunsRight, I!TypeOK, I!HistoryIsTrue, I!StopsHold, Stopping, Held, Attached, Leaving, Unstopped,
             I!Goes, I!Starting, I!Saving, I!Final, I!memory, I!history, I!MaxCalls
<1>0. CASE UNCHANGED iVars  BY <1>0 DEF iVars, I!First
<1>1. ASSUME NEW i \in I!Ids, I!Request(i) PROVE RunsRight'
  BY <1>1 DEF I!Request, I!First, I!Idle
<1>2. ASSUME NEW i \in I!Ids, I!Check(i) PROVE RunsRight'
  BY <1>2 DEF I!Check, I!Abandoned, I!First
<1>3. ASSUME NEW i \in I!Ids, I!Insert(i) PROVE RunsRight'
  BY <1>3 DEF I!Insert, I!First
<1>4. ASSUME NEW i \in I!Ids, I!Start(i) PROVE RunsRight'
  BY <1>4 DEF I!Start, I!First
<1>5. ASSUME NEW i \in I!Ids, I!TimesOut(i) PROVE RunsRight'
  BY <1>5 DEF I!TimesOut, I!Interrupt, I!First
<1>6. ASSUME NEW i \in I!Ids, I!Returns(i) PROVE RunsRight'
  <2>1. PICK from \in {"wait", "grace"}, status \in I!Saving : I!Back(i) /\ I!Ends(i, from, status)
      BY <1>6 DEF I!Returns
  <2>. QED  BY <2>1 DEF I!Ends, I!Back, I!First
<1>7. ASSUME NEW i \in I!Ids, I!GivesUp(i) PROVE RunsRight'
  BY <1>7 DEF I!GivesUp, I!Ends, I!First
<1>8. ASSUME NEW i \in I!Ids, I!Save(i) PROVE RunsRight'
  BY <1>8 DEF I!Save, I!First
<1>9. ASSUME NEW i \in I!Ids, I!ThreadStarts(i) PROVE RunsRight'
  BY <1>9 DEF I!ThreadStarts, I!Attach, I!First
<1>10. ASSUME NEW i \in I!Ids, I!HostCall(i) PROVE RunsRight'
  BY <1>10 DEF I!HostCall, I!CallsLeft, I!First
<1>11. ASSUME NEW i \in I!Ids, I!HostReturns(i) PROVE RunsRight'
  BY <1>11 DEF I!HostReturns, I!First
<1>12. ASSUME NEW i \in I!Ids, I!ThreadEnds(i) PROVE RunsRight'
  BY <1>12 DEF I!ThreadEnds, I!First
<1>13. CASE I!AdminBegins
  <2>1. I!TypeOK'
    <3>1. wiAdmin' \in AdminType
      <4>1. ASSUME NEW at \in {"stop", "end"}, NEW todo \in SUBSET I!Ids, NEW last \in BOOLEAN
            PROVE  [at |-> at, todo |-> todo, last |-> last] \in AdminType
          BY DEF AdminType
      <4>2. wiHandles \in SUBSET I!Ids /\ \A i \in I!Ids : {i} \in SUBSET I!Ids  OBVIOUS
      <4>. DEFINE Stop(i) == [at |-> "stop", todo |-> {i}, last |-> FALSE]
                  All == [at |-> IF wiHandles = {} THEN "end" ELSE "stop", todo |-> wiHandles, last |-> TRUE]
      <4>3. \A i \in I!Ids : Stop(i) \in AdminType  BY <4>1, <4>2
      <4>4. All \in AdminType  BY <4>1, <4>2
      <4>5. (\E i \in I!Ids : wiAdmin' = Stop(i)) \/ wiAdmin' = All  BY <1>13, Zenon DEF I!AdminBegins
      <4>. QED  BY <4>3, <4>4, <4>5, Zenon
    <3>2. wiMissed' \subseteq I!Ids  BY <1>13 DEF I!AdminBegins
    <3>. QED  BY <1>13, <3>1, <3>2 DEF I!AdminBegins, AdminType
  <2>. USE DEF I!AdminBegins, I!Idle
  <2>2. (I!HistoryIsTrue /\ I!StopsHold)'  BY <1>13
  <2>3. Stopping'  BY <1>13
  <2>4. \A i \in I!Ids : Held(i)' /\ Attached(i)'  BY <1>13
  <2>. QED  BY <2>1, <2>2, <2>3, <2>4
<1>14. wiAdmin.todo # {} => I!First \in wiAdmin.todo  BY DEF I!First
<1>15. CASE I!StopFlags
  BY <1>14, <1>15 DEF I!StopFlags, I!Interrupt, I!First, I!Idle
<1>20. ASSUME wiAdmin.at \in {"read", "write"}, wiAdmin' = I!AfterFirst,
             UNCHANGED <<wiTask, wiHandles, wiStopped, wiActive, wiMissed>>
       PROVE  Stopping' /\ wiAdmin' \in [at : {"idle", "stop", "read", "write", "end"},
                                        todo : SUBSET I!Ids, last : BOOLEAN]
  <2>1. /\ wiAdmin'.todo = wiAdmin.todo \ {I!First} /\ wiAdmin'.last = wiAdmin.last
        /\ wiAdmin'.at \in {"stop", "idle", "end"}
        /\ wiAdmin'.at = "stop" <=> wiAdmin.todo # {I!First}
        /\ wiAdmin'.at = "end" => wiAdmin.last
        /\ wiAdmin' \in [at : {"idle", "stop", "read", "write", "end"}, todo : SUBSET I!Ids, last : BOOLEAN]
      BY <1>20 DEF I!AfterFirst
  <2>2. wiActive  BY <1>20 DEF I!Idle
  <2>3. wiAdmin.todo # {} /\ I!First \in wiAdmin.todo  BY <1>14, <1>20
  <2>4. wiAdmin.todo \ {I!First} = {} => wiAdmin.todo = {I!First}  BY <2>3
  <2>5. Leaving' => Leaving  BY <1>20, <2>1
  <2>6. Leaving => wiHandles \subseteq wiStopped \union wiMissed \union wiAdmin'.todo
      BY <1>20, <2>1
  <2>7. Leaving' => wiHandles' \subseteq (wiStopped \union wiMissed \union Unstopped)'
    <3>1. CASE wiAdmin'.at = "stop"  BY <1>20, <2>5, <2>6, <3>1
    <3>2. CASE wiAdmin'.at # "stop"
      <4>1. wiAdmin'.todo = {}  BY <2>1, <3>2
      <4>. QED  BY <1>20, <2>5, <2>6, <4>1
    <3>. QED  BY <3>1, <3>2
  <2>. QED  BY <1>20, <2>1, <2>2, <2>3, <2>4, <2>5, <2>7
<1>16. CASE I!StopReads
  <2>1. CASE wiRow[I!First] = "running"
    BY <1>14, <1>16, <2>1 DEF I!StopReads, I!First, I!Idle
  <2>2. CASE wiRow[I!First] # "running"
    BY <1>16, <1>20, <2>2 DEF I!StopReads
  <2>. QED  BY <2>1, <2>2
<1>17. CASE I!StopWrites
  <2>1. Stopping' /\ I!TypeOK'  BY <1>14, <1>17, <1>20 DEF I!StopWrites
  <2>2. I!HistoryIsTrue'  BY <1>14, <1>17 DEF I!StopWrites
  <2>3. I!StopsHold' /\ \A i \in I!Ids : Held(i)' /\ Attached(i)'  BY <1>17 DEF I!StopWrites
  <2>. QED  BY <2>1, <2>2, <2>3
<1>18. CASE I!Deactivate
  BY <1>18 DEF I!Deactivate, I!Idle
<1>19. CASE I!Restart
  <2>1. I!TypeOK'
    <3>1. wiAdmin' \in AdminType  BY <1>19, IdleAdmin DEF I!Restart
    <3>2. wiCalls' \in [I!Ids -> 0..I!MaxCalls]  BY <1>19 DEF I!Restart
    <3>3. wiTask' \in [I!Ids -> {"idle", "done"}] /\ wiThread' \in [I!Ids -> {"none"}]  BY <1>19 DEF I!Restart
    <3>. QED  BY <1>19, <3>1, <3>2, <3>3 DEF I!Restart, AdminType
  <2>. USE DEF I!Restart, I!Idle
  <2>2. (I!HistoryIsTrue /\ I!StopsHold)'  BY <1>19
  <2>3. Stopping'  BY <1>19
  <2>4. \A i \in I!Ids : Held(i)' /\ Attached(i)'  BY <1>19
  <2>. QED  BY <2>1, <2>2, <2>3, <2>4
<1>. QED
  BY <1>0, <1>1, <1>2, <1>3, <1>4, <1>5, <1>6, <1>7, <1>8, <1>9, <1>10, <1>11, <1>12, <1>13,
     <1>15, <1>16, <1>17, <1>18, <1>19 DEF I!Next, iVars, I!vars

-----------------------------------------------------------------------------
(* The components of a behaviour of the services, together. *)
ServicesInv ==
    /\ part \in Parts
    /\ IInv
    /\ HInv
    /\ TInv
    /\ RunsRight

LEMMA ServicesSteps ==
    ASSUME [ServicesNext]_allVars
    PROVE  /\ part' = part
           /\ [Next]_vars
           /\ [H!Next]_hVars
           /\ [T!Next]_tVars
           /\ [I!Next]_iVars
BY DEF ServicesNext, allVars, CStep, HStep, TStep, IStep

(* Each component keeps its invariant, whichever of them a step is of. *)
THEOREM ServicesInvariance == ServicesSpec => []ServicesInv
<1>1. ServicesInit => ServicesInv
  BY InitHolds, HInit, TInit, IInit DEF ServicesInit, ServicesInv
<1>2. ServicesInv /\ [ServicesNext]_allVars => ServicesInv'
  BY ServicesSteps, StepHolds, HStepHolds, TStepHolds, IStepHolds DEF ServicesInv
<1>. QED  BY <1>1, <1>2, PTL DEF ServicesSpec

(* The state of the adapters, of a hold invoice, of the treasury and of the  *)
(* invocations is one the code has a name for.                               *)
THEOREM ServicesStayTyped == ServicesSpec => []ServicesTypes
<1>1. ServicesInv => ServicesTypes
  BY DEF ServicesInv, IInv, HInv, TInv, RunsRight, ServicesTypes
<1>. QED  BY <1>1, ServicesInvariance, PTL

(* The services keep the contracts of the adapters they call: what           *)
(* PaymentRefinement and InvoiceRefinement say of the calls by themselves.   *)
THEOREM AdaptersServe == ServicesSpec => PaymentContractKept /\ InvoiceContractKept
<1>1. ServicesInit => Init  BY DEF ServicesInit
<1>2. [ServicesNext]_allVars => [Next]_vars  BY ServicesSteps
<1>3. ServicesSpec => Spec  BY <1>1, <1>2, PTL DEF ServicesSpec, Spec
<1>. QED  BY <1>3, PaymentRefinement, InvoiceRefinement, PTL

(* A hold invoice is credited only when the node has settled it, whoever      *)
(* settles, cancels, edits or checks it meanwhile (the safety of HoldsSettle; *)
(* payments.py 1080-1114).                                                    *)
THEOREM HoldsAreTrue == ServicesSpec => []H!CreditIsSettled
<1>1. ServicesInv => H!CreditIsSettled
  BY DEF ServicesInv, HInv, HeldTrue, H!CreditIsSettled
<1>. QED  BY <1>1, ServicesInvariance, PTL

(* The watchdog changes to the void wallet only for a debt there was, and an  *)
(* administrator's debit overdraws a wallet by no more than what was spent    *)
(* since the wallet was read (the safety of TreasuryIsRight;                  *)
(* funding_source.py 12-67, payments.py 484-547).                             *)
THEOREM TreasuryIsSafe == ServicesSpec => [](T!SwitchIsJustified /\ T!OverdraftIsTheGap)
<1>1. ServicesInv => T!SwitchIsJustified /\ T!OverdraftIsTheGap
  BY DEF ServicesInv, TInv
<1>. QED  BY <1>1, ServicesInvariance, PTL

(* The history calls running no invocation that is not, unless a stop wrote   *)
(* back a row it had read before; a stopped one calls the host no more, and a *)
(* deactivated extension runs none that is not stopped (the safety of         *)
(* InvocationsAreRight; services/extensions.py 315-396, wasm/invoke.py        *)
(* 102-178).                                                                  *)
THEOREM InvocationsAreSafe == ServicesSpec => [](I!HistoryIsTrue /\ I!StopsHold)
<1>1. ServicesInv => I!HistoryIsTrue /\ I!StopsHold
  BY DEF ServicesInv, RunsRight
<1>. QED  BY <1>1, ServicesInvariance, PTL

-----------------------------------------------------------------------------
(* The watch on an address, and that on a transaction. *)
LEMMA EInit == E!Init => E!TypeOK
<1>. SUFFICES ASSUME E!Init PROVE E!TypeOK
    OBVIOUS
<1>1. elChain \in E!Versions /\ elCloses \in 0..E!MaxCloses
    BY DEF E!Init, E!Versions, E!MaxCloses
<1>2. elSeen \in [E!Callers -> E!Versions \union {E!NotTold}]
    BY DEF E!Init
<1>. QED  BY <1>1, <1>2 DEF E!Init, E!TypeOK

LEMMA EStepHolds == E!TypeOK /\ [E!Next]_eVars => E!TypeOK'
<1>. SUFFICES ASSUME E!TypeOK, [E!Next]_eVars PROVE E!TypeOK'
    OBVIOUS
<1>. USE DEF E!TypeOK, E!Versions, E!NotTold, E!MaxCloses, E!Report
<1>1. CASE UNCHANGED eVars  BY <1>1 DEF eVars
<1>2. ASSUME NEW c \in E!Callers, E!Track(c) \/ E!Untrack(c) PROVE E!TypeOK'
    BY <1>2 DEF E!Track, E!Untrack
<1>3. CASE E!Change \/ E!Connect \/ E!Sync \/ E!DropUnwanted \/ E!Wake
    BY <1>3 DEF E!Change, E!Connect, E!Sync, E!DropUnwanted, E!Wake
<1>5. CASE E!Close
  <2>1. elCloses' \in 0..2  BY <1>5 DEF E!Close
  <2>. QED  BY <1>5, <2>1 DEF E!Close
<1>4. CASE E!ReportFirst \/ E!OnStatusChange
    BY <1>4 DEF E!ReportFirst, E!OnStatusChange
<1>. QED  BY <1>1, <1>2, <1>3, <1>4, <1>5 DEF E!Next, eVars, E!vars

LEMMA XInit == X!Init => X!TypeOK
BY DEF X!Init, X!TypeOK

LEMMA XStepHolds == X!TypeOK /\ [X!Next]_xVars => X!TypeOK'
<1>. SUFFICES ASSUME X!TypeOK, [X!Next]_xVars PROVE X!TypeOK'
    OBVIOUS
<1>. USE DEF X!TypeOK, X!NewConnection, X!Told
<1>1. CASE UNCHANGED xVars  BY <1>1 DEF xVars
<1>2. ASSUME NEW q \in X!Queues, X!Register(q) \/ X!Unregister(q) PROVE X!TypeOK'
    BY <1>2 DEF X!Register, X!Unregister
<1>3. CASE X!Confirm \/ X!Subscribe \/ X!Removed \/ X!EndOfWait \/ X!Close
    BY <1>3 DEF X!Confirm, X!Subscribe, X!Removed, X!EndOfWait, X!Close
<1>4. CASE X!FirstLook \/ X!FirstLookFails \/ X!OnChange \/ X!OnChangeFails
    BY <1>4 DEF X!FirstLook, X!FirstLookFails, X!OnChange, X!OnChangeFails
<1>. QED  BY <1>1, <1>2, <1>3, <1>4 DEF X!Next, xVars, X!vars

-----------------------------------------------------------------------------
(* What is told of a balance: of one in parts, of an answer without the field *)
(* and of one that is an error, by each adapter that is believed.             *)
Doubted == {"Phoenixd", "Strike", "NWC", "ClnRest"}
TellsTruth(a) == \A r \in B!TellReplies :
    /\ B!TellTable[a][r] \in {"balance", "part", "zero", "raises", "error"}
    /\ B!TellTable[a][r] = "part" => a \in Doubted
    /\ B!TellTable[a][r] = "zero" => a \in Doubted \/ (a \in B!Typed /\ r = "bare")

LEMMA TellTableIsTrue == \A a \in DOMAIN B!MakeTable : TellsTruth(a)
<1>. SUFFICES ASSUME NEW a \in DOMAIN B!MakeTable PROVE TellsTruth(a)
    OBVIOUS
<1>. USE DEF TellsTruth, B!TellTable, B!Tells, B!TellReplies, Doubted, B!Typed
<1>1. CASE a \in {"LndRest", "CoreLightning", "CoreLightningRest", "SparkL2", "Eclair", "LNbits", "Alby"}
    BY <1>1 DEF B!LndRest_status, B!CoreLightning_status, B!CoreLightningRest_status, B!SparkL2_status,
                B!Eclair_status, B!LNbits_status, B!Alby_status
<1>2. CASE a \in {"Breez", "BreezLiquid", "Blink", "Bark", "LndGrpc", "Boltz"}
    BY <1>2 DEF B!Breez_status, B!BreezLiquid_status, B!Blink_status, B!Bark_status, B!LndGrpc_status, B!Boltz_status
<1>3. CASE a \in {"Spark", "LNPay", "LnTips", "OpenNode", "ZBD"}
    BY <1>3 DEF B!Spark_status, B!LNPay_status, B!LnTips_status, B!OpenNode_status, B!ZBD_status
<1>4. CASE a \in {"Strike", "ClnRest"}
    BY <1>4 DEF B!Strike_status, B!ClnRest_status
<1>5. CASE a = "Phoenixd"
    BY <1>5 DEF B!Phoenixd_status
<1>6. CASE a = "NWC"
    BY <1>6 DEF B!NWC_status
<1>. QED  BY <1>1, <1>2, <1>3, <1>4, <1>5, <1>6 DEF B!MakeTable

BInv ==
    /\ B!TypeOK /\ B!BalanceIsTheNodes
    /\ abCache # B!None => abAdapter = "Strike"

LEMMA BInit == B!Init => BInv
<1>. SUFFICES ASSUME B!Init PROVE BInv
    OBVIOUS
<1>1. abFunds \in [1..2 -> 0..B!Funds]  BY DEF B!Init, B!Funds
<1>. QED  BY <1>1 DEF B!Init, BInv, B!TypeOK, B!BalanceIsTheNodes

LEMMA BStepHolds == BInv /\ [B!Next]_bVars => BInv'
<1>. SUFFICES ASSUME BInv, [B!Next]_bVars PROVE BInv'
    OBVIOUS
<1>. USE DEF BInv, B!TypeOK, B!BalanceIsTheNodes
<1>1. CASE UNCHANGED bVars  BY <1>1 DEF bVars
<1>2. CASE B!Create
    BY <1>2 DEF B!Create, B!Held
<1>3. CASE B!Receive \/ B!Expire
  <2>1. abStream' \in BOOLEAN
    <3>1. \A x : abStream' \in {FALSE, x # "silent"} => abStream' \in BOOLEAN  BY Zenon
    <3>. QED  BY <1>3, <3>1, Zenon DEF B!Receive, B!Expire
  <2>2. UNCHANGED <<abAdapter, abRow, abFunds, abCache, abWrong>> /\ abInvoice' \in {"received", "expired"}
      BY <1>3 DEF B!Receive, B!Expire
  <2>. QED  BY <2>1, <2>2
<1>4. ASSUME NEW r \in B!InvoiceReplies, B!Check(r) \/ B!Book(r) PROVE BInv'
  <2>1. abRow' \in {"none", "pending", "success", "failed"}
    <3>. DEFINE v == B!Verdict(r)
    <3>1. abRow' \in {"success", "failed", abRow}
      <4>. HIDE DEF v
      <4>1. \/ abRow' = (CASE v = "paid" -> "success" [] v = "failed" -> "failed" [] OTHER -> abRow)
            \/ abRow' = (IF v = "paid" THEN "success" ELSE abRow)
          BY <1>4 DEF B!Check, B!Book, v
      <4>2. CASE v = "paid"  BY <4>1, <4>2
      <4>3. CASE v = "failed"  BY <4>1, <4>3
      <4>4. CASE v # "paid" /\ v # "failed"  BY <4>1, <4>4
      <4>. QED  BY <4>2, <4>3, <4>4
    <3>. QED  BY <3>1
  <2>2. UNCHANGED <<abAdapter, abInvoice, abFunds, abCache, abWrong>> /\ abStream' \in BOOLEAN
      BY <1>4 DEF B!Check, B!Book
  <2>. QED  BY <2>1, <2>2
<1>5. CASE B!FundsMove
    BY <1>5 DEF B!FundsMove
<1>6. CASE B!TellFromCache \/ B!CacheEnds
    BY <1>6 DEF B!TellFromCache, B!CacheEnds, B!Caches
<1>7. CASE B!Tell
  <2>1. PICK r \in B!TellAnswers :
          /\ abWrong' = (B!Told(r) \notin {B!None, B!Total})
          /\ abCache' = IF abAdapter \in B!Caches /\ r \in {"balance", "split"} THEN B!Told(r) ELSE B!None
      BY <1>7 DEF B!Tell
  <2>2. UNCHANGED <<abAdapter, abInvoice, abRow, abStream, abFunds>>  BY <1>7 DEF B!Tell
  <2>3. r \in B!TellReplies /\ (r = "bare" => abAdapter \notin B!Typed)
      BY <2>1 DEF B!TellAnswers, B!TellReplies
  <2>4. abFunds[1] \in 0..2 /\ abFunds[2] \in 0..2  BY DEF B!Funds
  <2>5. B!Told(r) \in (0..4) \union {B!None}  BY <2>4 DEF B!Told, B!Total
  <2>6. abAdapter \notin Doubted => B!Told(r) \in {B!None, B!Total}
    <3>1. TellsTruth(abAdapter)  BY TellTableIsTrue
    <3>. DEFINE told == B!TellTable[abAdapter][r]
    <3>2. abAdapter \notin Doubted => told \notin {"part", "zero"}
        BY <2>3, <3>1 DEF TellsTruth
    <3>3. told \notin {"part", "zero"} => B!Told(r) \in {B!None, B!Total}  BY DEF B!Told
    <3>. QED  BY <3>2, <3>3
  <2>7. abCache' \in (0..2 * B!Funds) \union {B!None}  BY <2>1, <2>5 DEF B!Funds
  <2>8. abWrong' \in BOOLEAN /\ (abWrong' => abAdapter \in Doubted)  BY <2>1, <2>6
  <2>9. abCache' # B!None => abAdapter = "Strike"  BY <2>1 DEF B!Caches
  <2>. QED  BY <2>2, <2>7, <2>8, <2>9 DEF Doubted
<1>. QED  BY <1>1, <1>2, <1>3, <1>4, <1>5, <1>6, <1>7 DEF B!Next, bVars, B!vars

-----------------------------------------------------------------------------
(* The queues of NWC and Blink.  An invoice that is tracked by NWC has not    *)
(* been put in the queue; with Blink its notice and the look that is due may  *)
(* both put it there.                                                         *)
Looked(i) == i \in tkTracked \/ tkAsked = i
Puts(i) == tkPuts[i] + (IF i \in tkNotices THEN 1 ELSE 0) + (IF Looked(i) THEN 1 ELSE 0)
KTyped ==
    /\ tkKind \in {"nwc", "blink"}
    /\ tkPaid \subseteq K!Invoices /\ tkLate \subseteq K!Invoices /\ tkTracked \subseteq K!Invoices
    /\ tkNotices \subseteq K!Invoices /\ tkDue \subseteq K!Invoices /\ tkDropped \subseteq K!Invoices
    /\ tkQueue \in Seq(K!Invoices) /\ tkStep \in {"get", "reconcile", "lookup"}
    /\ tkAsked \in K!Invoices \union {K!Nothing} /\ tkPuts \in [K!Invoices -> 0..2]
KInv ==
    /\ KTyped /\ K!NoneTwice
    /\ tkNotices \subseteq tkPaid
    /\ tkStep = "reconcile" => tkKind = "nwc"
    /\ \A i \in K!Invoices :
         /\ i \notin tkPaid => tkPuts[i] = 0
         /\ tkKind = "nwc" /\ i \in tkTracked => tkPuts[i] = 0
         /\ tkKind = "blink" => Puts(i) <= 2

LEMMA KTypesHold == KTyped => K!TypeOK
BY DEF KTyped, K!TypeOK

LEMMA KInit == K!Init => KInv
BY DEF K!Init, KInv, KTyped, K!NoneTwice, K!Invoices, K!Nothing, Puts, Looked

(* What is put in the queue is put once, at its end. *)
LEMMA KPut ==
    ASSUME KTyped, NEW settled \in SUBSET K!Invoices, K!Put(settled)
    PROVE  /\ tkQueue' \in Seq(K!Invoices)
           /\ tkTracked' = tkTracked \ settled
           /\ tkPuts' = [i \in K!Invoices |-> tkPuts[i] + (IF i \in settled THEN 1 ELSE 0)]
<1>0. K!Cardinality(settled) = Cardinality(settled)  BY DEF K!Cardinality, Cardinality, K!IsFiniteSet, IsFiniteSet
<1>1. PICK q \in [1..Cardinality(settled) -> settled] : tkQueue' = tkQueue \o q  BY <1>0, Zenon DEF K!Put
<1>2. IsFiniteSet(K!Invoices)  BY FS_Interval, 1 \in Int, 2 \in Int DEF K!Invoices
<1>3. Cardinality(settled) \in Nat  BY <1>2, FS_Subset, FS_CardinalityType
<1>4. q \in Seq(K!Invoices)  BY <1>3
<1>. QED  BY <1>1, <1>4 DEF K!Put, KTyped

(* A step that puts nothing in the queue, and one that does. *)
Moves ==
    /\ UNCHANGED tkKind
    /\ tkDue' \subseteq K!Invoices /\ tkStep' \in {"get", "reconcile", "lookup"}
    /\ tkStep' = "reconcile" => tkKind = "nwc"
    /\ tkAsked' \in {tkAsked, K!Nothing} /\ tkNotices' \subseteq tkNotices

LEMMA KMoves ==
    ASSUME KInv, Moves, tkPuts' = tkPuts, tkPaid' = tkPaid, tkTracked' \subseteq tkTracked,
           tkLate' \subseteq K!Invoices, tkDropped' \subseteq K!Invoices, tkQueue' \in Seq(K!Invoices)
    PROVE  KInv'
<1>1. KTyped'  BY DEF KInv, KTyped, Moves
<1>2. \A i \in K!Invoices : Looked(i)' => Looked(i)  BY DEF Looked, Moves, K!Nothing, K!Invoices
<1>3. \A i \in K!Invoices : Puts(i)' <= Puts(i)  BY <1>2 DEF KInv, KTyped, Moves, Puts
<1>4. \A i \in K!Invoices : Puts(i) \in Int /\ Puts(i)' \in Int  BY <1>1 DEF KInv, KTyped, Puts
<1>. QED  BY <1>1, <1>3, <1>4 DEF KInv, Moves, K!NoneTwice

LEMMA KPutsOnce ==
    ASSUME KInv, Moves, UNCHANGED <<tkPaid, tkLate, tkDropped>>,
           NEW settled, settled \subseteq tkPaid, K!Put(settled),
           tkKind = "nwc" => settled \subseteq tkTracked,
           tkKind = "blink" => \A i \in settled : \/ i \in tkNotices \ tkNotices'
                                                  \/ tkAsked = i /\ tkAsked' # i
    PROVE  KInv'
<1>1. settled \in SUBSET K!Invoices  BY DEF KInv, KTyped
<1>2. /\ tkQueue' \in Seq(K!Invoices) /\ tkTracked' = tkTracked \ settled
      /\ tkPuts' = [i \in K!Invoices |-> tkPuts[i] + (IF i \in settled THEN 1 ELSE 0)]
    BY <1>1, KPut DEF KInv
<1>3. \A i \in K!Invoices : tkPuts[i] \in 0..2 /\ tkPuts'[i] = tkPuts[i] + (IF i \in settled THEN 1 ELSE 0)
    BY <1>2 DEF KInv, KTyped
<1>4. \A i \in K!Invoices : Looked(i)' => Looked(i) /\ (i \in settled => tkAsked' = i)
    BY <1>2 DEF Looked, Moves, K!Nothing, K!Invoices
<1>5. ASSUME tkKind = "blink", NEW i \in K!Invoices PROVE Puts(i)' <= 2
  <2>1. Puts(i) <= 2  BY <1>5 DEF KInv
  <2>2. CASE i \notin settled  BY <1>3, <1>4, <2>1, <2>2 DEF Puts, Moves
  <2>3. CASE i \in settled /\ i \in tkNotices \ tkNotices'  BY <1>3, <1>4, <2>1, <2>3 DEF Puts
  <2>4. CASE i \in settled /\ tkAsked = i /\ tkAsked' # i
    <3>1. Looked(i) /\ ~Looked(i)'  BY <1>4, <2>4 DEF Looked
    <3>. QED  BY <1>3, <2>1, <2>4, <3>1 DEF Puts, Moves
  <2>. QED  BY <1>5, <2>2, <2>3, <2>4
<1>6. ASSUME NEW i \in K!Invoices PROVE tkPuts'[i] \in 0..2
  <2>1. CASE tkKind = "blink"  BY <1>3, <1>5, <2>1 DEF Puts
  <2>2. CASE tkKind = "nwc"  BY <1>3, <2>2 DEF KInv
  <2>. QED  BY <2>1, <2>2 DEF KInv, KTyped
<1>7. KTyped'  BY <1>2, <1>6 DEF KInv, KTyped, Moves
<1>8. \A i \in K!Invoices :
        /\ i \notin tkPaid' => tkPuts'[i] = 0
        /\ tkKind' = "nwc" /\ i \in tkTracked' => tkPuts'[i] = 0
        /\ tkKind' = "nwc" => tkPuts'[i] <= 1
    BY <1>2, <1>3 DEF KInv, Moves, K!NoneTwice
<1>. QED  BY <1>5, <1>7, <1>8 DEF KInv, Moves, K!NoneTwice

LEMMA KStepHolds == KInv /\ [K!Next]_kVars => KInv'
<1>. SUFFICES ASSUME KInv, [K!Next]_kVars PROVE KInv'
    OBVIOUS
<1>1. CASE UNCHANGED kVars  BY <1>1, KMoves DEF kVars, Moves, KInv, KTyped
<1>2. ASSUME NEW i \in K!Invoices, K!Track(i) PROVE KInv'
    BY <1>2 DEF K!Track, KInv, KTyped, K!NoneTwice, Puts, Looked, K!Nothing
<1>3. ASSUME NEW i \in K!Invoices, K!Pay(i) PROVE KInv'
  <2>1. KTyped' /\ tkPaid' = tkPaid \union {i} /\ i \notin tkPaid  BY <1>3 DEF K!Pay, KInv, KTyped
  <2>2. tkPuts[i] = 0 /\ UNCHANGED <<tkKind, tkPuts, tkTracked, tkAsked, tkStep>>  BY <1>3, <2>1 DEF K!Pay, KInv
  <2>3. \A j \in K!Invoices : j # i => (j \in tkNotices' <=> j \in tkNotices)  BY <1>3 DEF K!Pay
  <2>4. tkNotices' \subseteq tkPaid'  BY <1>3, <2>1 DEF K!Pay, KInv
  <2>5. \A j \in K!Invoices : tkKind = "blink" => Puts(j)' <= 2
      BY <2>2, <2>3 DEF Puts, Looked, KInv
  <2>. QED  BY <2>1, <2>2, <2>4, <2>5 DEF KInv, K!NoneTwice
<1>4. ASSUME NEW i \in K!Invoices, K!Expires(i) PROVE KInv'
    BY <1>4, KMoves DEF K!Expires, Moves, KInv, KTyped
<1>5. ASSUME NEW i \in K!Invoices, K!Notified(i) PROVE KInv'
  <2>1. K!Marked({i}) \subseteq {i} /\ (tkKind = "nwc" => K!Marked({i}) \subseteq tkTracked)  BY DEF K!Marked
  <2>5. i \in tkNotices /\ i \notin tkNotices'  BY <1>5 DEF K!Notified
  <2>2. Moves /\ i \in tkPaid  BY <1>5 DEF K!Notified, Moves, KInv, KTyped
  <2>3. UNCHANGED <<tkPaid, tkLate, tkDropped>> /\ K!Put(K!Marked({i}))  BY <1>5 DEF K!Notified
  <2>4. ASSUME NEW m, m = K!Marked({i}) PROVE KInv'
    <3>1. m \subseteq tkPaid /\ (tkKind = "nwc" => m \subseteq tkTracked) /\ K!Put(m)
        BY <2>1, <2>2, <2>3, <2>4
    <3>2. tkKind = "blink" => \A j \in m : \/ j \in tkNotices \ tkNotices'
                                           \/ tkAsked = j /\ tkAsked' # j
      <4>1. \A j \in m : j = i  BY <2>1, <2>4
      <4>2. \A j \in m : j \in tkNotices \ tkNotices'  BY <2>5, <4>1
      <4>. QED  BY <4>2
    <3>3. Moves /\ UNCHANGED <<tkPaid, tkLate, tkDropped>>  BY <2>2, <2>3
    <3>. QED  BY <3>1, <3>2, <3>3, KPutsOnce
  <2>. QED  BY <2>4
<1>6. CASE K!HandOut
    BY <1>6, KMoves DEF K!HandOut, Moves, KInv, KTyped
<1>7. ASSUME NEW s \in SUBSET K!Invoices, K!Maintain(s) PROVE KInv'
  <2>1. Moves  BY <1>7 DEF K!Maintain, Moves, KInv, KTyped
  <2>. QED  BY <1>7, <2>1, KMoves DEF K!Maintain, KInv, KTyped
<1>8. ASSUME NEW s \in SUBSET K!Invoices, K!Reconcile(s) PROVE KInv'
  <2>1. tkKind = "nwc" /\ K!Marked(s) \subseteq tkTracked /\ K!Marked(s) \subseteq tkPaid
      BY <1>8 DEF K!Reconcile, K!Marked, KInv
  <2>2. Moves  BY <1>8 DEF K!Reconcile, Moves, KInv, KTyped
  <2>. QED  BY <1>8, <2>1, <2>2, KPutsOnce DEF K!Reconcile
<1>9. ASSUME NEW i \in K!Invoices, K!Lookup(i) PROVE KInv'
    BY <1>9 DEF K!Lookup, KInv, KTyped, K!NoneTwice, Puts, Looked, K!Nothing
<1>10. CASE K!FoundPaid
  <2>1. K!Marked({tkAsked}) \subseteq {tkAsked} /\ (tkKind = "nwc" => K!Marked({tkAsked}) \subseteq tkTracked)
      BY DEF K!Marked
  <2>2. Moves /\ tkAsked \in tkPaid  BY <1>10 DEF K!FoundPaid, Moves, KInv, KTyped
  <2>3. tkAsked' # tkAsked  BY <1>10, <2>2 DEF K!FoundPaid, KInv, KTyped, K!Nothing, K!Invoices
  <2>. QED  BY <1>10, <2>1, <2>2, <2>3, KPutsOnce DEF K!FoundPaid
<1>11. CASE K!FoundNot
    BY <1>11, KMoves DEF K!FoundNot, Moves, KInv, KTyped
<1>12. CASE K!RoundEnds
    BY <1>12, KMoves DEF K!RoundEnds, Moves, KInv, KTyped
<1>. QED
  BY <1>1, <1>2, <1>3, <1>4, <1>5, <1>6, <1>7, <1>8, <1>9, <1>10, <1>11, <1>12 DEF K!Next, kVars, K!vars

-----------------------------------------------------------------------------
(* A payment is in one place at a time: with the consumers, and, for each     *)
(* listener, with them, in its queue, being handled, or handled.              *)
Once(s) == L!IsInjective(s)
In(p, s) == \E n \in DOMAIN s : s[n] = p
Central(p) == \E s \in L!Sources : In(p, tmCentral[s])

LEMMA AppendedOnce ==
    ASSUME NEW P, NEW s \in Seq(P), Once(s), NEW p \in P, ~In(p, s)
    PROVE  Append(s, p) \in Seq(P) /\ Once(Append(s, p)) /\ \A q : In(q, Append(s, p)) <=> In(q, s) \/ q = p
BY DEF Once, L!IsInjective, In

LEMMA TakenOnce ==
    ASSUME NEW P, NEW s \in Seq(P), s # << >>, Once(s)
    PROVE  /\ Head(s) \in P /\ In(Head(s), s)
           /\ Tail(s) \in Seq(P) /\ Once(Tail(s))
           /\ \A q : In(q, Tail(s)) <=> In(q, s) /\ q # Head(s)
<1>1. /\ Head(s) = s[1] /\ 1 \in DOMAIN s /\ Head(s) \in P
      /\ Tail(s) \in Seq(P) /\ DOMAIN Tail(s) = 1..(Len(s) - 1) /\ DOMAIN s = 1..Len(s) /\ Len(s) \in Nat
      /\ \A n \in 1..(Len(s) - 1) : Tail(s)[n] = s[n + 1]
    OBVIOUS
<1>2. \A m, n \in DOMAIN s : s[m] = s[n] => m = n  BY DEF Once, L!IsInjective
<1>3. Once(Tail(s))
  <2>1. ASSUME NEW m \in DOMAIN Tail(s), NEW n \in DOMAIN Tail(s), Tail(s)[m] = Tail(s)[n] PROVE m = n
    <3>1. m + 1 \in DOMAIN s /\ n + 1 \in DOMAIN s /\ s[m + 1] = s[n + 1]  BY <1>1, <2>1
    <3>2. m + 1 = n + 1  BY <1>2, <3>1
    <3>. QED  BY <1>1, <3>2
  <2>. QED  BY <2>1 DEF Once, L!IsInjective
<1>4. ASSUME NEW q, In(q, Tail(s)) PROVE In(q, s) /\ q # Head(s)
  <2>1. PICK n \in 1..(Len(s) - 1) : s[n + 1] = q  BY <1>1, <1>4 DEF In
  <2>2. n + 1 \in DOMAIN s /\ n + 1 # 1  BY <1>1
  <2>. QED  BY <1>1, <1>2, <2>1, <2>2 DEF In
<1>5. ASSUME NEW q, In(q, s), q # Head(s) PROVE In(q, Tail(s))
  <2>1. PICK n \in DOMAIN s : s[n] = q  BY <1>5 DEF In
  <2>2. n # 1  BY <1>1, <1>5, <2>1
  <2>3. n - 1 \in 1..(Len(s) - 1) /\ (n - 1) + 1 = n  BY <1>1, <2>2
  <2>4. Tail(s)[n - 1] = q  BY <1>1, <2>1, <2>3
  <2>. QED  BY <1>1, <2>3, <2>4 DEF In
<1>6. In(Head(s), s)  BY <1>1 DEF In
<1>. QED  BY <1>1, <1>3, <1>4, <1>5, <1>6

Announced == \A p \in L!Payments : p >= tmNext => ~Central(p) /\ \A h \in L!Hooks :
                 ~In(p, tmQueue[h]) /\ tmRuns[h] # p /\ ~In(p, tmGot[h])
Apart(h) ==
    /\ Once(tmQueue[h]) /\ Once(tmGot[h])
    /\ \A p \in L!Payments :
         /\ Central(p) => ~In(p, tmQueue[h]) /\ tmRuns[h] # p /\ ~In(p, tmGot[h])
         /\ In(p, tmQueue[h]) => tmRuns[h] # p /\ ~In(p, tmGot[h])
         /\ tmRuns[h] = p => ~In(p, tmGot[h])
LTyped ==
    /\ tmNext \in Nat /\ tmCentral \in [L!Sources -> Seq(L!Payments)]
    /\ tmQueue \in [L!Hooks -> Seq(L!Payments)] /\ tmGot \in [L!Hooks -> Seq(L!Payments)]
    /\ tmRuns \in [L!Hooks -> L!Payments \union {L!Waiting}]
LInv ==
    /\ LTyped /\ Announced
    /\ \A s \in L!Sources : Once(tmCentral[s])
    /\ \A p \in L!Payments : ~(In(p, tmCentral["invoice"]) /\ In(p, tmCentral["internal"]))
    /\ \A h \in L!Hooks : Apart(h)

LEMMA EmptyIsOnce == Once(<< >>) /\ \A p : ~In(p, << >>)
BY DEF Once, L!IsInjective, In

LEMMA LInit == L!Init => LInv
<1>. SUFFICES ASSUME L!Init PROVE LInv
    OBVIOUS
<1>1. LTyped  BY DEF L!Init, LTyped
<1>2. \A p : ~Central(p)  BY EmptyIsOnce DEF L!Init, Central
<1>3. \A h \in L!Hooks : tmQueue[h] = << >> /\ tmGot[h] = << >> /\ tmRuns[h] = L!Waiting
    BY DEF L!Init
<1>4. \A p \in L!Payments : p # L!Waiting  BY DEF L!Payments, L!Waiting
<1>5. \A s \in L!Sources : tmCentral[s] = << >>  BY DEF L!Init
<1>6. \A h \in L!Hooks : Apart(h)  BY <1>2, <1>3, <1>4, EmptyIsOnce DEF Apart
<1>7. Announced  BY <1>2, <1>3, <1>4, EmptyIsOnce DEF Announced
<1>. QED  BY <1>1, <1>5, <1>6, <1>7, EmptyIsOnce DEF LInv, L!Sources

LEMMA LStepHolds == LInv /\ [L!Next]_lVars => LInv'
<1>. SUFFICES ASSUME LInv, [L!Next]_lVars PROVE LInv'
    OBVIOUS
<1>0. ASSUME UNCHANGED <<tmNext, tmCentral, tmQueue, tmRuns, tmGot>> PROVE LInv'
    BY <1>0 DEF LInv, LTyped, Announced, Apart, Central
<1>1. CASE UNCHANGED lVars  BY <1>0, <1>1 DEF lVars
<1>2. CASE L!HeartBeat  BY <1>0, <1>2 DEF L!HeartBeat
<1>3. ASSUME NEW j \in L!Jobs, L!StartJob(j) \/ L!EndJob(j) PROVE LInv'
    BY <1>0, <1>3 DEF L!StartJob, L!EndJob
<1>9. \A p \in L!Payments : p # L!Waiting  BY DEF L!Payments, L!Waiting
(* A step of one listener. *)
<1>4. ASSUME NEW h \in L!Hooks, UNCHANGED <<tmNext, tmCentral>>, Apart(h)', LTyped',
             \A g \in L!Hooks \ {h} : tmQueue'[g] = tmQueue[g] /\ tmRuns'[g] = tmRuns[g] /\ tmGot'[g] = tmGot[g],
             \A p \in L!Payments : In(p, tmQueue'[h]) \/ tmRuns'[h] = p \/ In(p, tmGot'[h]) =>
                                   In(p, tmQueue[h]) \/ tmRuns[h] = p \/ In(p, tmGot[h])
      PROVE  LInv'
  <2>1. \A p : Central(p)' <=> Central(p)  BY <1>4 DEF Central
  <2>2. \A g \in L!Hooks : Apart(g)'
    <3>1. ASSUME NEW g \in L!Hooks \ {h} PROVE Apart(g)'  BY <1>4, <2>1, <3>1 DEF LInv, Apart
    <3>. QED  BY <1>4, <3>1
  <2>3. Announced'
    <3>1. ASSUME NEW p \in L!Payments, p >= tmNext, NEW g \in L!Hooks
          PROVE  ~In(p, tmQueue'[g]) /\ tmRuns'[g] # p /\ ~In(p, tmGot'[g])
      <4>1. CASE g = h  BY <1>4, <3>1, <4>1 DEF LInv, Announced
      <4>2. CASE g # h  BY <1>4, <3>1, <4>2 DEF LInv, Announced
      <4>. QED  BY <4>1, <4>2
    <3>2. \A p \in L!Payments : p >= tmNext => ~Central(p)'  BY <2>1 DEF LInv, Announced
    <3>. QED  BY <1>4, <3>1, <3>2 DEF Announced
  <2>. QED  BY <1>4, <2>2, <2>3 DEF LInv
<1>5. ASSUME NEW h \in L!Hooks, L!Take(h) PROVE LInv'
  <2>. DEFINE p == Head(tmQueue[h])
  <2>1. tmQueue[h] \in Seq(L!Payments) /\ tmQueue[h] # << >> /\ Once(tmQueue[h])
      BY <1>5 DEF L!Take, LInv, LTyped, Apart
  <2>2. p \in L!Payments /\ In(p, tmQueue[h]) /\ Tail(tmQueue[h]) \in Seq(L!Payments) /\ Once(Tail(tmQueue[h]))
      BY <2>1, TakenOnce
  <2>3. \A q : In(q, Tail(tmQueue[h])) <=> In(q, tmQueue[h]) /\ q # p  BY <2>1, TakenOnce
  <2>4. tmQueue' = [tmQueue EXCEPT ![h] = Tail(@)] /\ tmRuns' = [tmRuns EXCEPT ![h] = p]
        /\ UNCHANGED <<tmNext, tmCentral, tmGot>>
      BY <1>5 DEF L!Take
  <2>. HIDE DEF p
  <2>5. LTyped'  BY <2>2, <2>4 DEF LInv, LTyped
  <2>6. tmQueue'[h] = Tail(tmQueue[h]) /\ tmRuns'[h] = p /\ tmGot'[h] = tmGot[h]
      BY <2>4 DEF LInv, LTyped
  <2>7. \A q : Central(q)' <=> Central(q)  BY <2>4 DEF Central
  <2>8. Apart(h)'  BY <2>2, <2>3, <2>6, <2>7 DEF LInv, Apart
  <2>9. \A q \in L!Payments : In(q, tmQueue'[h]) \/ tmRuns'[h] = q \/ In(q, tmGot'[h]) =>
                                   In(q, tmQueue[h]) \/ tmRuns[h] = q \/ In(q, tmGot[h])
      BY <2>2, <2>3, <2>6
  <2>10. \A g \in L!Hooks \ {h} : tmQueue'[g] = tmQueue[g] /\ tmRuns'[g] = tmRuns[g] /\ tmGot'[g] = tmGot[g]
      BY <2>4 DEF LInv, LTyped
  <2>. QED  BY <1>4, <2>4, <2>5, <2>8, <2>9, <2>10
<1>6. ASSUME NEW h \in L!Hooks, L!Handle(h) \/ L!Raise(h) PROVE LInv'
  <2>. DEFINE p == tmRuns[h]
  <2>1. p \in L!Payments /\ p # L!Waiting /\ tmRuns' = [tmRuns EXCEPT ![h] = L!Waiting]
        /\ UNCHANGED <<tmNext, tmCentral, tmQueue>>
      BY <1>6, <1>9 DEF L!Handle, L!Raise
  <2>2. tmGot' = [tmGot EXCEPT ![h] = Append(@, p)] \/ tmGot' = tmGot  BY <1>6 DEF L!Handle, L!Raise
  <2>3. tmGot[h] \in Seq(L!Payments) /\ Once(tmGot[h]) /\ ~In(p, tmGot[h])
      BY <2>1 DEF LInv, LTyped, Apart
  <2>4. Append(tmGot[h], p) \in Seq(L!Payments) /\ Once(Append(tmGot[h], p))
        /\ \A q : In(q, Append(tmGot[h], p)) <=> In(q, tmGot[h]) \/ q = p
      BY <2>1, <2>3, AppendedOnce
  <2>5. tmGot'[h] \in {Append(tmGot[h], p), tmGot[h]} /\ tmRuns'[h] = L!Waiting /\ tmQueue'[h] = tmQueue[h]
      BY <2>1, <2>2 DEF LInv, LTyped
  <2>. HIDE DEF p
  <2>6. LTyped'  BY <2>1, <2>2, <2>4 DEF LInv, LTyped
  <2>7. \A q : Central(q)' <=> Central(q)  BY <2>1 DEF Central
  <2>8. Apart(h)'
    <3>1. Once(tmQueue'[h]) /\ Once(tmGot'[h])  BY <2>3, <2>4, <2>5 DEF LInv, Apart
    <3>2. \A q : In(q, tmGot'[h]) => In(q, tmGot[h]) \/ q = p  BY <2>4, <2>5
    <3>3. p = tmRuns[h]  BY DEF p
    <3>. QED  BY <1>9, <2>5, <2>7, <3>1, <3>2, <3>3 DEF LInv, Apart
  <2>9. \A q \in L!Payments : In(q, tmQueue'[h]) \/ tmRuns'[h] = q \/ In(q, tmGot'[h]) =>
                                   In(q, tmQueue[h]) \/ tmRuns[h] = q \/ In(q, tmGot[h])
      BY <1>9, <2>4, <2>5 DEF p
  <2>10. \A g \in L!Hooks \ {h} : tmQueue'[g] = tmQueue[g] /\ tmRuns'[g] = tmRuns[g] /\ tmGot'[g] = tmGot[g]
      BY <2>1, <2>2 DEF LInv, LTyped
  <2>. QED  BY <1>4, <2>1, <2>6, <2>8, <2>9, <2>10
<1>7. CASE L!Register("ext")
  <2>. DEFINE h == "ext"
  <2>1. tmQueue' = [tmQueue EXCEPT ![h] = << >>] /\ tmRuns' = [tmRuns EXCEPT ![h] = L!Waiting]
        /\ UNCHANGED <<tmNext, tmCentral, tmGot>> /\ h \in L!Hooks
      BY <1>7 DEF L!Register, L!Hooks
  <2>. HIDE DEF h
  <2>2. LTyped'  BY <2>1 DEF LInv, LTyped
  <2>3. tmQueue'[h] = << >> /\ tmRuns'[h] = L!Waiting /\ tmGot'[h] = tmGot[h]  BY <2>1 DEF LInv, LTyped
  <2>4. \A q : Central(q)' <=> Central(q)  BY <2>1 DEF Central
  <2>5. Apart(h)'  BY <1>9, <2>1, <2>3, <2>4, EmptyIsOnce DEF LInv, Apart
  <2>6. \A q \in L!Payments : In(q, tmQueue'[h]) \/ tmRuns'[h] = q \/ In(q, tmGot'[h]) =>
                                   In(q, tmQueue[h]) \/ tmRuns[h] = q \/ In(q, tmGot[h])
      BY <1>9, <2>3, EmptyIsOnce
  <2>7. \A g \in L!Hooks \ {h} : tmQueue'[g] = tmQueue[g] /\ tmRuns'[g] = tmRuns[g] /\ tmGot'[g] = tmGot[g]
      BY <2>1 DEF LInv, LTyped
  <2>. QED  BY <1>4, <2>1, <2>2, <2>5, <2>6, <2>7
(* A step of a consumer. *)
<1>8. ASSUME NEW s \in L!Sources, L!Announce(s) PROVE LInv'
  <2>. DEFINE p == tmNext
  <2>1. p \in L!Payments /\ tmNext' = p + 1 /\ tmCentral' = [tmCentral EXCEPT ![s] = Append(@, p)]
        /\ UNCHANGED <<tmQueue, tmRuns, tmGot>> /\ p \in Nat
      BY <1>8 DEF L!Announce, LInv, LTyped
  <2>2. ~Central(p) /\ \A h \in L!Hooks : ~In(p, tmQueue[h]) /\ tmRuns[h] # p /\ ~In(p, tmGot[h])
      BY <2>1 DEF LInv, Announced
  <2>3. tmCentral[s] \in Seq(L!Payments) /\ Once(tmCentral[s]) /\ ~In(p, tmCentral[s])
      BY <2>2 DEF LInv, LTyped, Central
  <2>4. Append(tmCentral[s], p) \in Seq(L!Payments) /\ Once(Append(tmCentral[s], p))
        /\ \A q : In(q, Append(tmCentral[s], p)) <=> In(q, tmCentral[s]) \/ q = p
      BY <2>1, <2>3, AppendedOnce
  <2>5. tmCentral'[s] = Append(tmCentral[s], p) /\ \A t \in L!Sources \ {s} : tmCentral'[t] = tmCentral[t]
      BY <2>1 DEF LInv, LTyped
  <2>. HIDE DEF p
  <2>6. LTyped'  BY <2>1, <2>4 DEF LInv, LTyped
  <2>7. \A q : Central(q)' => Central(q) \/ q = p  BY <2>4, <2>5 DEF Central
  <2>8. \A t \in L!Sources : Once(tmCentral'[t])  BY <2>4, <2>5 DEF LInv
  <2>9. \A t \in L!Sources : ~In(p, tmCentral[t])  BY <2>2 DEF Central
  <2>10. \A q \in L!Payments : ~(In(q, tmCentral'["invoice"]) /\ In(q, tmCentral'["internal"]))
      BY <2>4, <2>5, <2>9 DEF LInv, L!Sources
  <2>11. \A h \in L!Hooks : Apart(h)'  BY <2>1, <2>2, <2>7 DEF LInv, Apart
  <2>12. Announced'
    <3>1. \A q \in L!Payments : q >= tmNext' => q >= tmNext /\ q # p
        BY <2>1 DEF L!Payments, p
    <3>. QED  BY <2>1, <2>7, <3>1 DEF LInv, Announced
  <2>. QED  BY <2>6, <2>8, <2>10, <2>11, <2>12 DEF LInv
<1>10. ASSUME NEW s \in L!Sources, L!Consume(s) PROVE LInv'
  <2>. DEFINE p == Head(tmCentral[s])
  <2>1. tmCentral[s] \in Seq(L!Payments) /\ tmCentral[s] # << >> /\ Once(tmCentral[s])
      BY <1>10 DEF L!Consume, LInv, LTyped
  <2>2. p \in L!Payments /\ In(p, tmCentral[s]) /\ Tail(tmCentral[s]) \in Seq(L!Payments) /\ Once(Tail(tmCentral[s]))
        /\ \A q : In(q, Tail(tmCentral[s])) <=> In(q, tmCentral[s]) /\ q # p
      BY <2>1, TakenOnce
  <2>3. tmCentral' = [tmCentral EXCEPT ![s] = Tail(@)] /\ UNCHANGED <<tmNext, tmRuns, tmGot>>
        /\ tmQueue' = L!Dispatched(p)
      BY <1>10 DEF L!Consume
  <2>. HIDE DEF p
  <2>4. tmCentral'[s] = Tail(tmCentral[s]) /\ \A t \in L!Sources \ {s} : tmCentral'[t] = tmCentral[t]
      BY <2>3 DEF LInv, LTyped
  <2>5. Central(p)  BY <2>2 DEF Central
  <2>6. \A q \in L!Payments : Central(q)' => Central(q) /\ q # p
      BY <2>2, <2>4 DEF Central, LInv, L!Sources
  <2>7. ASSUME NEW h \in L!Hooks
        PROVE  /\ tmQueue'[h] \in Seq(L!Payments) /\ Once(tmQueue'[h])
               /\ \A q : In(q, tmQueue'[h]) => In(q, tmQueue[h]) \/ q = p
    <3>1. tmQueue[h] \in Seq(L!Payments) /\ Once(tmQueue[h]) /\ ~In(p, tmQueue[h])
        BY <2>2, <2>5 DEF LInv, LTyped, Apart
    <3>2. tmQueue'[h] \in {tmQueue[h], Append(tmQueue[h], p)}  BY <2>3 DEF L!Dispatched
    <3>3. CASE tmQueue'[h] = tmQueue[h]  BY <3>1, <3>3
    <3>4. CASE tmQueue'[h] = Append(tmQueue[h], p)
      <4>1. Append(tmQueue[h], p) \in Seq(L!Payments) /\ Once(Append(tmQueue[h], p))
            /\ \A q : In(q, Append(tmQueue[h], p)) <=> In(q, tmQueue[h]) \/ q = p
          BY <2>2, <3>1, AppendedOnce
      <4>. QED  BY <3>4, <4>1
    <3>. QED  BY <3>2, <3>3, <3>4
  <2>8. LTyped'
    <3>1. tmQueue' \in [L!Hooks -> Seq(L!Payments)]  BY <2>3, <2>7 DEF L!Dispatched
    <3>. QED  BY <2>2, <2>3, <3>1 DEF LInv, LTyped
  <2>9. \A t \in L!Sources : Once(tmCentral'[t])  BY <2>2, <2>4 DEF LInv
  <2>10. \A q \in L!Payments : ~(In(q, tmCentral'["invoice"]) /\ In(q, tmCentral'["internal"]))
      BY <2>2, <2>4 DEF LInv, L!Sources
  <2>11. \A h \in L!Hooks : ~In(p, tmQueue[h]) /\ tmRuns[h] # p /\ ~In(p, tmGot[h])
      BY <2>2, <2>5 DEF LInv, Apart
  <2>12. \A h \in L!Hooks : Apart(h)'  BY <2>3, <2>6, <2>7, <2>11 DEF LInv, Apart
  <2>13. Announced'
    <3>1. ~(p >= tmNext)  BY <2>2, <2>5 DEF LInv, Announced
    <3>. QED  BY <2>3, <2>6, <2>7, <3>1 DEF LInv, Announced
  <2>. QED  BY <2>8, <2>9, <2>10, <2>12, <2>13 DEF LInv
<1>. QED
  BY <1>1, <1>2, <1>3, <1>5, <1>6, <1>7, <1>8, <1>10 DEF L!Next, lVars, L!vars

-----------------------------------------------------------------------------
(* The components of a behaviour of the dispatch, together. *)
DispatchInv ==
    /\ LInv
    /\ E!TypeOK
    /\ X!TypeOK
    /\ BInv
    /\ KInv

LEMMA DispatchSteps ==
    ASSUME [DispatchNext]_dispatchVars
    PROVE  /\ [L!Next]_lVars
           /\ [E!Next]_eVars
           /\ [X!Next]_xVars
           /\ [B!Next]_bVars
           /\ [K!Next]_kVars
BY DEF DispatchNext, dispatchVars, Step, Rest, LStep, SStep, EStep, XStep, BStep, KStep, NStep

(* Each component keeps its invariant, whichever of them a step is of. *)
THEOREM DispatchInvariance == DispatchSpec => []DispatchInv
<1>1. DispatchInit => DispatchInv
  BY LInit, EInit, XInit, BInit, KInit DEF DispatchInit, DispatchInv
<1>2. DispatchInv /\ [DispatchNext]_dispatchVars => DispatchInv'
  BY DispatchSteps, LStepHolds, EStepHolds, XStepHolds, BStepHolds, KStepHolds DEF DispatchInv
<1>. QED  BY <1>1, <1>2, PTL DEF DispatchSpec

(* The trackers, the balance of the node and the queues of NWC and Blink are  *)
(* in states the code has a name for (the part of DispatchTypes that can be   *)
(* proved).                                                                   *)
THEOREM DispatchStaysTyped == DispatchSpec => [](E!TypeOK /\ X!TypeOK /\ B!TypeOK /\ K!TypeOK)
<1>1. DispatchInv => E!TypeOK /\ X!TypeOK /\ B!TypeOK /\ K!TypeOK
  BY KTypesHold DEF DispatchInv, BInv, KInv
<1>. QED  BY <1>1, DispatchInvariance, PTL

(* A listener handles no payment twice, though both consumers fill its queue  *)
(* and the listener of an extension may be registered again                   *)
(* (task_manager.py 444-450, 485-493).                                        *)
THEOREM NothingHandledTwice == DispatchSpec => [](\A h \in L!Hooks : L!IsInjective(tmGot[h]))
<1>1. DispatchInv => \A h \in L!Hooks : L!IsInjective(tmGot[h])
  BY DEF DispatchInv, LInv, Apart, Once
<1>. QED  BY <1>1, DispatchInvariance, PTL

(* NWC puts an invoice in the queue once, though a notification, a round of   *)
(* reconciliation and a look at the invoice may each find it paid (the safety *)
(* of SettledIsBooked; nwc.py 186-409).                                       *)
THEOREM QueuedOnce == DispatchSpec => []K!NoneTwice
<1>1. DispatchInv => K!NoneTwice  BY DEF DispatchInv, KInv
<1>. QED  BY <1>1, DispatchInvariance, PTL

(* What is shown as the balance of the node is the node's own, but with the   *)
(* adapters that are known to tell less (the safety of NodeIsBelieved;        *)
(* services/funding_source.py 20-67).                                         *)
THEOREM BalancesAreTrue == DispatchSpec => []B!BalanceIsTheNodes
<1>1. DispatchInv => B!BalanceIsTheNodes  BY DEF DispatchInv, BInv
<1>. QED  BY <1>1, DispatchInvariance, PTL
=============================================================================
