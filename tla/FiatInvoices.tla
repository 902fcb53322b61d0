---------------------------- MODULE FiatInvoices ----------------------------
(***************************************************************************)
(* Invoices that are paid at a fiat provider (Stripe, PayPal, Square,      *)
(* Revolut).  LNbits keeps one row per invoice; the provider keeps an      *)
(* order.  The order is confirmed by a webhook, by a poll of the invoice,  *)
(* or by a recheck of a page of payments that keeps the database lock.     *)
(* Each confirmation credits the fee wallet, debits the faucet wallet and  *)
(* announces the payment.                                                  *)
(***************************************************************************)
EXTENDS Naturals

CONSTANTS Invoices,      \* payment hashes
          Orders,        \* checkout sessions and subscription cycles of a provider
          Kinds,         \* the kinds of order there may be, by provider
          Tasks,         \* requests, webhooks and rechecks under way
          NoOrder, Free,
          FiatFee,       \* service_fee_fiat of the amount
          LightningFee,  \* service_fee of the amount, which a poll writes instead
          MaxCrashes     \* bound of the model

Checkouts == {"stripe_session", "stripe_intent", "paypal_order", "square_order",
              "revolut_order"}
Cycles == {"stripe_invoice", "paypal_capture", "square_payment", "revolut_cycle"}

ASSUME FiatConstants ==
    /\ Invoices # {}
    /\ Kinds \subseteq [Orders -> Checkouts \cup Cycles] /\ NoOrder \notin Orders
    /\ Free \notin Tasks
    /\ FiatFee \in Nat /\ LightningFee \in Nat /\ MaxCrashes \in Nat

VARIABLES rows,      \* the rows of the invoices in apipayments
          feeCredit, \* what rows service_fee_<hash> add to the fee wallet
          faucet,    \* how many faucet rows of a hash there are
          announced, \* how often a hash was put on internal_invoice_queue
          kind,      \* the kind of each order
          order,     \* what the provider holds
          expired,   \* the invoices past their expiry
          task, dbLock, crashes

vars == <<rows, feeCredit, faucet, announced, kind, order, expired, task, dbLock, crashes>>
books == <<feeCredit, faucet, announced>>
outside == <<kind, order, expired, crashes>>

-----------------------------------------------------------------------------
(* A row: its key is NoOrder as long as the checking_id is internal_<hash>, *)
(* its order is extra["fiat_checking_id"], its fee the magnitude.           *)
Row == [status : {"absent", "pending", "success", "failed"},
        fee : {0, FiatFee, LightningFee},
        key : Orders \cup {NoOrder}, order : Orders \cup {NoOrder}]

NoRow == [status |-> "absent", fee |-> 0, key |-> NoOrder, order |-> NoOrder]
NewRow == [NoRow EXCEPT !.status = "pending"]

TaskPCs == {"idle", "create", "session", "refused", "update", "rename", "expire", "ask",
            "success", "fee", "faucet", "settle", "fail"}
Task == [pc : TaskPCs, by : {"checkout", "event", "webhook", "poll", "page"},
         inv : Invoices, order : Orders \cup {NoOrder}, copy : Row]
Resting == [pc |-> "idle", by |-> "poll", inv |-> CHOOSE i \in Invoices : TRUE,
            order |-> NoOrder, copy |-> NoRow]
Idle(t) == task[t].pc = "idle"

Init ==
    /\ rows = [i \in Invoices |-> NoRow]
    /\ feeCredit = [i \in Invoices |-> 0]
    /\ faucet = [i \in Invoices |-> 0]
    /\ announced = [i \in Invoices |-> 0]
    /\ kind \in Kinds
    /\ order = [o \in Orders |-> "none"]
    /\ expired = {}
    /\ task = [t \in Tasks |-> Resting]
    /\ dbLock = Free /\ crashes = 0

(* A statement that opens a connection of its own waits for the lock; a     *)
(* recheck passes the connection it holds to some statements, not to all.   *)
OwnConnection == dbLock = Free
SharedConnection(t) == dbLock = IF task[t].by = "page" THEN t ELSE Free

(* update_payment writes the whole copy WHERE checking_id is the copy's.    *)
update_payment(i, copy) ==
    rows' = IF rows[i].key = copy.key THEN [rows EXCEPT ![i] = copy] ELSE rows

Goto(t, pc) == task' = [task EXCEPT ![t].pc = pc]
Done(t) ==
    /\ task' = [task EXCEPT ![t] = Resting]
    /\ dbLock' = IF dbLock = t THEN Free ELSE dbLock

-----------------------------------------------------------------------------
(* create_fiat_invoice: an internal invoice first, the provider's session    *)
(* next, then the row with fee and order, then its new checking_id.          *)

Fresh(i) ==
    rows[i].status = "absent" /\ \A t \in Tasks : task[t].pc = "create" => task[t].inv # i

OpenInvoice(t, i) ==
    /\ OwnConnection
    /\ \/ /\ Idle(t) /\ Fresh(i)
          /\ task' = [task EXCEPT ![t] = [pc |-> "session", by |-> "checkout", inv |-> i,
                                          order |-> NoOrder, copy |-> NewRow]]
       \/ /\ task[t].pc = "create" /\ task[t].inv = i
          /\ task' = [task EXCEPT ![t].pc = "update", ![t].copy = NewRow]
    /\ rows' = [rows EXCEPT ![i] = NewRow]
    /\ UNCHANGED <<books, outside, dbLock>>

(* create_invoice of each provider: one request makes the order. Without an  *)
(* answer that names the order and where to pay it the invoice fails, and     *)
(* nothing takes an order back that was made.                                *)
stripe_create_invoice(o) == kind[o] \in {"stripe_session", "stripe_intent"}
paypal_create_invoice(o) == kind[o] = "paypal_order"
square_create_invoice(o) == kind[o] = "square_order"
revolut_create_invoice(o) == kind[o] = "revolut_order"

SessionOpens(t, o) ==
    /\ task[t].pc = "session" /\ order[o] = "none"
    /\ \/ stripe_create_invoice(o) \/ paypal_create_invoice(o)
       \/ square_create_invoice(o) \/ revolut_create_invoice(o)
    /\ order' = [order EXCEPT ![o] = "open"]
    /\ \/ task' = [task EXCEPT ![t].pc = "update", ![t].order = o]
       \/ Goto(t, "refused")
    /\ UNCHANGED <<rows, books, kind, expired, dbLock, crashes>>

SessionFails(t) ==
    /\ task[t].pc \in {"session", "refused"} /\ OwnConnection
    /\ update_payment(task[t].inv, [task[t].copy EXCEPT !.status = "failed"])
    /\ Done(t)
    /\ UNCHANGED <<books, outside>>

UpdateInvoiceAddsFees(t) ==   \* the lightning fee on top of the provider's
    /\ task[t].pc = "update" /\ OwnConnection
    /\ LET copy == [task[t].copy EXCEPT !.fee = FiatFee + LightningFee,
                                        !.order = task[t].order] IN
         /\ update_payment(task[t].inv, copy)
         /\ task' = [task EXCEPT ![t].pc = "rename", ![t].copy = copy]
    /\ UNCHANGED <<books, outside, dbLock>>

UpdateInvoice(t) ==
    /\ task[t].pc = "update" /\ OwnConnection
    /\ LET copy == [task[t].copy EXCEPT !.fee = FiatFee, !.order = task[t].order] IN
         /\ update_payment(task[t].inv, copy)
         /\ task' = [task EXCEPT ![t].pc = "rename", ![t].copy = copy]
    /\ UNCHANGED <<books, outside, dbLock>>

KeyTaken(o) == \E i \in Invoices : rows[i].key = o

(* UNIQUE (wallet, checking_id): the second row of an order keeps its        *)
(* internal key, and the handler ends with the database's error.             *)
Rename(t) ==
    /\ task[t].pc = "rename" /\ OwnConnection
    /\ LET i == task[t].inv  o == task[t].order IN
         \/ /\ ~KeyTaken(o)
            /\ rows' = [rows EXCEPT ![i].key = o]
            /\ \/ task[t].by = "checkout" /\ Done(t)
               \/ /\ task[t].by = "event"
                  /\ task' = [task EXCEPT ![t].pc = "ask", ![t].by = "webhook",
                                          ![t].copy = [task[t].copy EXCEPT !.key = o]]
                  /\ UNCHANGED dbLock
         \/ KeyTaken(o) /\ Done(t) /\ UNCHANGED rows
    /\ UNCHANGED <<books, outside>>

-----------------------------------------------------------------------------
(* The webhook of a subscription cycle.  The handlers of Square and Revolut   *)
(* look for the row of an earlier delivery, those of Stripe and PayPal create *)
(* a row each time.                                                           *)
stripe_invoice_paid(o) == kind[o] = "stripe_invoice"
paypal_sale_completed(o) == kind[o] = "paypal_capture"
square_subscription_payment(o) == kind[o] = "square_payment" /\ ~KeyTaken(o)
revolut_order_completed(o) == kind[o] = "revolut_cycle" /\ ~KeyTaken(o)

SubscriptionEvent(t, o, i) ==
    /\ Idle(t) /\ OwnConnection /\ order[o] = "paid" /\ Fresh(i)
    /\ \/ stripe_invoice_paid(o) \/ paypal_sale_completed(o)
       \/ square_subscription_payment(o) \/ revolut_order_completed(o)
    /\ task' = [task EXCEPT ![t] = [pc |-> "create", by |-> "event", inv |-> i,
                                    order |-> o, copy |-> NoRow]]
    /\ UNCHANGED <<rows, books, outside, dbLock>>

(* A webhook of a paid order and a poll read a copy of the pending row.  A   *)
(* copy that names no order is left pending unless it has expired.           *)
(* A provider calls back when an order is paid, approved or, at Square, changed. *)
Notified(o) == order[o] \in {"paid", "approved"}
                 \/ (order[o] = "declined" /\ kind[o] = "square_order")
FirstCheck(by, i) == IF by # "webhook" /\ i \in expired THEN "expire" ELSE "ask"
MayCheckUnexpired(by, i) ==   \* an expired invoice is not looked at again
    /\ rows[i].status = "pending" /\ rows[i].order # NoOrder
    /\ by # "webhook" => i \notin expired
    /\ by = "webhook" => Notified(rows[i].order)

MayCheck(by, i) ==
    /\ rows[i].status = "pending"
    /\ (rows[i].order # NoOrder \/ FirstCheck(by, i) = "expire")
    /\ by = "webhook" => Notified(rows[i].order)

ReadInvoice(t, i, by) ==
    /\ Idle(t) /\ OwnConnection /\ MayCheck(by, i)
    /\ task' = [task EXCEPT ![t] = [pc |-> FirstCheck(by, i), by |-> by, inv |-> i,
                                    order |-> rows[i].order, copy |-> rows[i]]]
    /\ UNCHANGED <<rows, books, outside, dbLock>>

(* api_payments_paginated with recheck_pending keeps the lock until its end. *)
PageBegin(t, i) ==
    /\ Idle(t) /\ OwnConnection /\ MayCheck("page", i)
    /\ dbLock' = t
    /\ task' = [task EXCEPT ![t] = [pc |-> FirstCheck("page", i), by |-> "page", inv |-> i,
                                    order |-> rows[i].order, copy |-> rows[i]]]
    /\ UNCHANGED <<rows, books, outside>>

Expire(t) ==
    /\ task[t].pc = "expire" /\ SharedConnection(t)
    /\ update_payment(task[t].inv, [task[t].copy EXCEPT !.status = "failed"])
    /\ Done(t)
    /\ UNCHANGED <<books, outside>>

(* The states of an order in which the provider's status is success.         *)
SuccessWhileApproved == {"paid", "approved"}   \* before the money is captured

SuccessWhile == {"paid"}

(* The states in which it may be failed.  A session is failed a day after it  *)
(* expired, a terminal intent after five minutes or one declined card, and an *)
(* order of Square with its first tender, while the payer may still pay.      *)
stripe_fails(k) == IF k \in {"stripe_session", "stripe_intent"}
                   THEN {"open", "declined", "dead"} ELSE {"dead"}
paypal_fails == {"dead"}
square_fails(k) == IF k = "square_order" THEN {"declined", "dead"} ELSE {"dead"}
revolut_fails == {"dead"}

FailsWhileOpen(k) == {"open", "declined", "dead"}   \* whatever is not paid

FailsWhile(k) ==
    CASE k \in {"stripe_session", "stripe_intent", "stripe_invoice"} -> stripe_fails(k)
      [] k \in {"paypal_order", "paypal_capture"} -> paypal_fails
      [] k \in {"square_order", "square_payment"} -> square_fails(k)
      [] k \in {"revolut_order", "revolut_cycle"} -> revolut_fails
Answers(k, s) == {"pending"} \cup (IF s \in SuccessWhile THEN {"success"} ELSE {})
                              \cup (IF s \in FailsWhile(k) THEN {"failed"} ELSE {})

(* The status request of PayPal captures an order the payer approved.        *)
Capturing(o) == kind[o] = "paypal_order" /\ order[o] = "approved"
AskProvider(o) ==
    \/ Capturing(o) /\ \E s \in {"approved", "paid", "dead"} : order' = [order EXCEPT ![o] = s]
    \/ ~Capturing(o) /\ UNCHANGED order

(* get_invoice_status of the provider; a webhook leaves a failed order alone *)
Ask(t) ==
    /\ task[t].pc = "ask" /\ AskProvider(task[t].order)
    /\ \E answer \in Answers(kind[task[t].order], order'[task[t].order]) :
         \/ answer = "success" /\ Goto(t, "success") /\ UNCHANGED dbLock
         \/ answer = "failed" /\ task[t].by # "webhook" /\ Goto(t, "fail") /\ UNCHANGED dbLock
         \/ answer = "failed" /\ task[t].by = "webhook" /\ Done(t)
         \/ answer = "pending" /\ Done(t)
    /\ UNCHANGED <<rows, books, kind, expired, crashes>>

Fail(t) ==
    /\ task[t].pc = "fail" /\ SharedConnection(t)
    /\ update_payment(task[t].inv, [task[t].copy EXCEPT !.status = "failed"])
    /\ Done(t)
    /\ UNCHANGED <<books, outside>>

WriteSuccessOnly(t) ==   \* only a webhook books the fee and the faucet
    /\ task[t].pc = "success" /\ OwnConnection
    /\ LET copy == [task[t].copy EXCEPT !.status = "success"] IN
         /\ update_payment(task[t].inv, copy)
         /\ task' = [task EXCEPT ![t].pc = IF task[t].by = "webhook" THEN "fee" ELSE "settle",
                                 ![t].copy = copy]
    /\ UNCHANGED <<books, outside, dbLock>>

(* check_fiat_status never uses the connection of its caller. *)
WriteSuccess(t) ==
    /\ task[t].pc = "success" /\ OwnConnection
    /\ LET copy == [task[t].copy EXCEPT !.status = "success"] IN
         /\ update_payment(task[t].inv, copy)
         /\ task' = [task EXCEPT ![t].pc = "fee", ![t].copy = copy]
    /\ UNCHANGED <<books, outside, dbLock>>

CreditFeeAgain(t) ==   \* no look at the credits that exist
    /\ task[t].pc = "fee" /\ OwnConnection
    /\ feeCredit' = [feeCredit EXCEPT ![task[t].inv] = (@ + task[t].copy.fee) % (3 * FiatFee)]
    /\ Goto(t, "faucet")
    /\ UNCHANGED <<rows, faucet, announced, outside, dbLock>>

(* create_payment refuses a checking_id that exists, by its own query or by  *)
(* the constraint of the table; handle_fiat_payment_confirmation goes on.    *)
CreditFee(t) ==
    /\ task[t].pc = "fee" /\ OwnConnection
    /\ LET i == task[t].inv IN
         feeCredit' = IF feeCredit[i] = 0
                      THEN [feeCredit EXCEPT ![i] = task[t].copy.fee] ELSE feeCredit
    /\ Goto(t, "faucet")
    /\ UNCHANGED <<rows, faucet, announced, outside, dbLock>>

DebitFaucet(t) ==
    /\ task[t].pc = "faucet" /\ OwnConnection
    /\ LET i == task[t].inv IN
         /\ faucet' = IF faucet[i] = 0 THEN [faucet EXCEPT ![i] = 1] ELSE faucet
         /\ announced' = [announced EXCEPT ![i] = @ + 1]
    /\ \/ task[t].by = "webhook" /\ Done(t)
       \/ task[t].by # "webhook" /\ Goto(t, "settle") /\ UNCHANGED dbLock
    /\ UNCHANGED <<rows, feeCredit, outside>>

(* update_payment_success_status after the answer of check_payment_status *)
Settle(t) ==
    /\ task[t].pc = "settle" /\ SharedConnection(t)
    /\ update_payment(task[t].inv, [task[t].copy EXCEPT !.fee = LightningFee])
    /\ Done(t)
    /\ UNCHANGED <<books, outside>>

-----------------------------------------------------------------------------
(* The provider, the clock and the operating system. *)
PayerSteps(k) ==
    CASE k = "paypal_order" -> {<<"open", "approved">>, <<"approved", "dead">>}
      [] k = "revolut_order" -> {<<"open", "approved">>, <<"approved", "paid">>}
      [] OTHER -> {<<"open", "paid">>}
ProviderStep(o) ==
    /\ \E s \in {"declined", "approved", "paid", "dead"} :
         /\ order' = [order EXCEPT ![o] = s]
         /\ \/ kind[o] \in Cycles /\ order[o] = "none" /\ s = "paid"
            \/ kind[o] \in Checkouts /\ order[o] = "declined" /\ <<"open", s>> \in PayerSteps(kind[o])
            \/ kind[o] \in Checkouts /\ order[o] \in {"open", "approved"}
                 /\ <<order[o], s>> \in PayerSteps(kind[o]) \cup {<<"open", "declined">>}
            \/ kind[o] \in Checkouts /\ order[o] \in {"open", "declined"} /\ s = "dead"
    /\ UNCHANGED <<rows, books, kind, expired, task, dbLock, crashes>>

Expires(i) ==
    /\ rows[i].status # "absent" /\ i \notin expired
    /\ expired' = expired \cup {i}
    /\ UNCHANGED <<rows, books, kind, order, task, dbLock, crashes>>

Crash ==
    /\ crashes < MaxCrashes /\ crashes' = crashes + 1
    /\ task' = [t \in Tasks |-> Resting]
    /\ dbLock' = Free
    /\ UNCHANGED <<rows, books, kind, order, expired>>

Create(t) == \/ \E i \in Invoices : OpenInvoice(t, i)
             \/ \E o \in Orders : SessionOpens(t, o)
             \/ SessionFails(t) \/ UpdateInvoice(t) \/ Rename(t)
Begin(t) == \/ \E o \in Orders, i \in Invoices : SubscriptionEvent(t, o, i)
            \/ \E i \in Invoices, by \in {"webhook", "poll"} : ReadInvoice(t, i, by)
            \/ \E i \in Invoices : PageBegin(t, i)
Confirm(t) == \/ Expire(t) \/ Ask(t) \/ Fail(t)
              \/ WriteSuccess(t) \/ CreditFee(t) \/ DebitFaucet(t) \/ Settle(t)
External == \/ \E o \in Orders : ProviderStep(o)
            \/ \E i \in Invoices : Expires(i)
            \/ Crash

Next == (\E t \in Tasks : Create(t) \/ Begin(t) \/ Confirm(t)) \/ External

(* asyncio.Lock serves waiters in order.  check_pending_payments polls every *)
(* renamed row for ever (the query leaves out keys internal_), and the       *)
(* provider does not answer "pending" for ever about a decided order.        *)
Fairness ==
    \A t \in Tasks :
        /\ SF_vars(Create(t)) /\ WF_vars(Confirm(t) /\ task[t].by = "page")
        /\ SF_vars(Confirm(t) /\ task[t].pc # "ask")
        /\ SF_vars(Ask(t) /\ task'[t].pc # "idle") /\ WF_vars(Ask(t))
        /\ \A i \in Invoices : SF_vars(rows[i].key # NoOrder /\ ReadInvoice(t, i, "poll"))

Spec == Init /\ [][Next]_vars
FairSpec == Spec /\ Fairness

-----------------------------------------------------------------------------
TypeOK ==
    /\ rows \in [Invoices -> Row]
    /\ feeCredit \in [Invoices -> Nat] /\ faucet \in [Invoices -> Nat]
    /\ announced \in [Invoices -> Nat]
    /\ kind \in Kinds
    /\ order \in [Orders -> {"none", "open", "declined", "approved", "paid", "dead"}]
    /\ expired \subseteq Invoices
    /\ task \in [Tasks -> Task] /\ dbLock \in Tasks \cup {Free} /\ crashes \in Nat

(* An invoice is successful only when the provider holds the money of its    *)
(* own order: check_fiat_status believes the provider's status, never the     *)
(* webhook, the copy of the row or the order of another invoice.              *)
PaidOrder(o) == o \in Orders /\ order[o] = "paid"
CreditIsPaid == \A i \in Invoices : rows[i].status = "success" => PaidOrder(rows[i].order)

(* A payment the listeners were told about is never failed, whatever stale    *)
(* copies webhooks, polls and rechecks still write over it, unless the        *)
(* invoice expired or the provider may fail an order that is paid later.  (It  *)
(* may be pending: a copy read just before the row gets its new checking_id   *)
(* is announced and written nowhere.)                                         *)
AnnouncedStays ==
    \A i \in Invoices :
        announced[i] > 0 /\ rows[i].status = "failed" =>
            i \in expired \/ kind[rows[i].order] \in {"stripe_session", "stripe_intent", "square_order"}

(* However many webhooks, polls and restarts confirm a payment, the fee      *)
(* wallet is credited once, with the fee of the provider and not with the    *)
(* lightning fee a poll writes later, and the faucet is debited once.        *)
BookedOnce ==
    \A i \in Invoices :
        /\ feeCredit[i] \in {0, FiatFee}
        /\ faucet[i] \in {0, 1}
        /\ faucet[i] = 1 => announced[i] > 0 /\ feeCredit[i] = FiatFee

(* A recheck of a page that finds a paid fiat invoice waits for the lock it  *)
(* holds itself.                                                             *)
StuckPage == \E t \in Tasks : dbLock = t /\ task[t].pc = "success"

(* "Force check and update of pending payments": a recheck ends and gives    *)
(* the lock back.                                                            *)
RecheckEnds == \A t \in Tasks : (task[t].by = "page" /\ ~Idle(t)) ~> Idle(t)

(* A paid invoice that the periodic check can see ends its wait: credited,   *)
(* failed because it expired, or held up by a page that never ends.          *)
PaidIsDecided ==
    \A i \in Invoices :
        (rows[i].status = "pending" /\ rows[i].key \in Orders /\ rows[i].order \in Orders
            /\ order[rows[i].key] = "paid")
        ~> (rows[i].status # "pending" \/ StuckPage)

(* A payment that was credited is booked with the fee and the faucet wallet, *)
(* unless the process ends in between, which nothing repairs.                *)
CreditIsBooked ==
    \A i \in Invoices :
        (rows[i].status = "success" /\ crashes = 0)
        ~> (faucet[i] = 1 \/ crashes > 0 \/ StuckPage)

-----------------------------------------------------------------------------
(* Instances with one order, of any kind. *)
OneOfEach == [Orders -> Checkouts \cup Cycles]
OnePerProvider == [Orders -> {"stripe_session", "paypal_order", "square_payment"}]
RevolutCheckout == [Orders -> {"revolut_order"}]
=============================================================================
