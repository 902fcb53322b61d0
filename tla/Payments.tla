------------------------------ MODULE Payments ------------------------------
(***************************************************************************)
(* The payment core of core/services/payments.py: tasks of one asyncio     *)
(* process that pay, check and settle payments over one ledger and one     *)
(* funding source.                                                         *)
(*                                                                         *)
(*   pay_invoice     one call per member of Payers; it takes the database  *)
(*                   lock twice, and keeps it the second time until the    *)
(*                   payment is over or the wait times out                 *)
(*   checkers        check_pending_payments, update_pending_payments and   *)
(*                   api_payment: they read rows, ask the node without the *)
(*                   lock, and write the copies they hold                  *)
(*   pagers          api_payments_paginated with recheck_pending: the same *)
(*                   work under one hold of the lock                       *)
(*   the producer    fundingsource_invoice_producer                        *)
(*                                                                         *)
(* A database statement commits by itself, so a crash may fall between any *)
(* two.  The funding source is external: it answers with what it did or    *)
(* says it does not know, it never reports as failed what may still be     *)
(* paid (the rule the code states as IMPORTANT PAYMENT RULES).             *)
(***************************************************************************)
EXTENDS Ledger

CONSTANTS
  Amount,      \* [Hashes -> Nat], the amount of each invoice (msat)
  Issuer,      \* [Hashes -> Wallets \cup {NoWallet}], NoWallet: another node
  Payers,      \* pay_invoice calls that can be under way at a time
  Checkers,    \* checks of pending payments that can be under way at a time
  Pagers,      \* paginated requests that can be under way at a time
  Free,        \* the value of dbLock when nobody holds it
  DailyLimit,  \* lnbits_wallet_limit_daily_max_withdraw in msat; 0 is no limit
  MaxBalance,  \* lnbits_wallet_limit_max_balance in msat; 0 is no limit
  NodeFees,    \* the routing fees a payment may turn out to cost
  MaxCrashes   \* bound on restarts of the process

ASSUME PaymentConstants ==
  /\ Amount \in [Hashes -> Nat \ {0}]
  /\ Issuer \in [Hashes -> Wallets \cup {NoWallet}]
  /\ Free \notin Payers \cup Pagers
  /\ Payers \cap Pagers = {}
  /\ DailyLimit \in Nat
  /\ MaxBalance \in Nat
  /\ NodeFees \subseteq Nat
  /\ MaxCrashes \in Nat

VARIABLES
  rows,       \* the ledger
  dbLock,     \* who holds Database.lock
  pay,        \* the pay_invoice calls
  check,      \* the checkers: rows still to check, and the copy to be written
  page,       \* the pagers: rows still to check
  producer,   \* the copy the invoice producer is about to write, if any
  announced,  \* the rows handed to the invoice listeners
  node,       \* the funding source's view of each hash
  stream,     \* hashes the node will report in paid_invoices_stream
  expired,    \* hashes whose invoice is past its expiry
  crashes     \* restarts so far

vars == <<rows, dbLock, pay, check, page, producer, announced, node, stream,
          expired, crashes>>
taskVars == <<pay, check, page, producer>>
nodeVars == <<node, stream, expired>>

Items == Keys \X Row          \* a row's key and a copy of the row

\* pay_invoice: before the first and before the second hold of the lock, and
\* at each await inside the second
PayPCs == {"idle", "checked", "debited", "verify", "waiting", "credit_fee"}
UnderLock == PayPCs \ {"idle", "checked"}

\* genuine: the request's bolt11 is the one stored for its hash;
\* kind: the kind of the row the call will return;
\* sent: the funding source task has handed the payment to the node
Call == [pc : PayPCs, wallet : Wallets \cup {NoWallet}, key : Keys \cup {<<>>},
         genuine : BOOLEAN, sent : BOOLEAN]
IdleCall == [pc |-> "idle", wallet |-> NoWallet, key |-> <<>>,
             genuine |-> FALSE, sent |-> FALSE]

\* invoice: of a local wallet, on the node; payment: an outgoing payment
NodeHash == [invoice : {"none", "open", "settled"},
             payment : {"none", "inflight", "settled", "failed"},
             fee : Nat, requests : Nat]

TypeOK ==
  /\ rows \in [Keys -> Row]
  /\ dbLock \in Payers \cup Pagers \cup {Free}
  /\ pay \in [Payers -> Call]
  /\ check \in [Checkers -> [todo : SUBSET Items, writing : SUBSET Items]]
  /\ page \in [Pagers -> SUBSET Items]
  /\ producer \in SUBSET Items
  /\ announced \in SUBSET Keys
  /\ node \in [Hashes -> NodeHash]
  /\ stream \in SUBSET Hashes
  /\ expired \in SUBSET Hashes
  /\ crashes \in 0 .. MaxCrashes

Init ==
  /\ rows = [k \in Keys |-> NoRow]
  /\ dbLock = Free
  /\ pay = [p \in Payers |-> IdleCall]
  /\ check = [c \in Checkers |-> [todo |-> {}, writing |-> {}]]
  /\ page = [g \in Pagers |-> {}]
  /\ producer = {}
  /\ announced = {}
  /\ node = [h \in Hashes |-> [invoice |-> "none", payment |-> "none",
                               fee |-> 0, requests |-> 0]]
  /\ stream = {}
  /\ expired = {}
  /\ crashes = 0

-----------------------------------------------------------------------------
(***************************************************************************)
(* create_invoice                                                          *)
(***************************************************************************)
create_invoice(h) ==
  LET w == Issuer[h] IN
  /\ w # NoWallet
  /\ dbLock = Free
  /\ MaxBalance > 0 => balance_msat(rows, w) + Amount[h] <= MaxBalance
  /\ MayCreate(rows, <<"in", h>>)
  /\ rows' = create_payment(rows, <<"in", h>>,
                            NewRow("pending", w, Amount[h], 0))
  /\ node' = [node EXCEPT ![h].invoice = "open"]
  /\ UNCHANGED <<dbLock, taskVars, announced, stream, expired, crashes>>

-----------------------------------------------------------------------------
(***************************************************************************)
(* pay_invoice                                                             *)
(***************************************************************************)
Hash(p) == pay[p].key[2]
Copies(t, S) == {<<k, t[k]>> : k \in S}

\* check_wallet_daily_withdraw_limit: the first payment of a wallet passes,
\* and payments that failed count
WithinDailyLimit(w, amount) ==
  \/ DailyLimit = 0
  \/ Outgoing(rows, w) = {}
  \/ DailyLimit + MapThenSumSet(LAMBDA k : rows[k].amount, Outgoing(rows, w))
       - amount >= 0

\* the first hold of the lock; a call that is refused leaves no trace
PayCheck(p, w, h, genuine) ==
  /\ pay[p].pc = "idle"
  /\ dbLock = Free
  /\ Issuer[h] = NoWallet => genuine
  /\ Issuer[h] # NoWallet => <<"in", h>> \in Stored(rows)
  /\ WithinDailyLimit(w, Amount[h])
  /\ is_internal_status_success(rows, h) # {TRUE}
  /\ pay' = [pay EXCEPT ![p] = [pc |-> "checked", wallet |-> w,
                                key |-> <<"out", h>>, genuine |-> genuine,
                                sent |-> FALSE]]
  /\ UNCHANGED <<rows, dbLock, check, page, producer, announced, nodeVars,
                 crashes>>

\* the second hold of the lock is taken, and kept if the call has to wait
Enter(p) == pay[p].pc = "checked" /\ dbLock = Free
MoveTo(p, pc, kind) ==
  pay' = [pay EXCEPT ![p].pc = pc, ![p].key = <<kind, Hash(p)>>]

Leave(p) ==
  /\ pay' = [pay EXCEPT ![p] = IdleCall]
  /\ dbLock' = Free

\* mutant: the balance check forgets the fees
CanAffordAmount(p, internal) ==
  balance_msat(rows, pay[p].wallet) >= Amount[Hash(p)]

CanAfford(p, internal) ==
  LET amount == Amount[Hash(p)]
  IN  balance_msat(rows, pay[p].wallet)
        >= amount + fee_reserve_total(amount, internal)

Internal(p) == check_internal(rows, Hash(p)) # {}

\* every PaymentError and ValueError that _pay_invoice raises before it writes
PayRejected(p) ==
  /\ Enter(p)
  /\ \/ Internal(p) /\ ~pay[p].genuine
     \/ ~CanAfford(p, Internal(p))
     \/ Internal(p) /\ ~MayCreate(rows, <<"internal", Hash(p)>>)
     \/ /\ ~Internal(p)
        /\ \E k \in get_standalone_payment(rows, Hash(p), FALSE) :
             rows[k].status \in {"pending", "success"}
  /\ Leave(p)
  /\ UNCHANGED <<rows, check, page, producer, announced, nodeVars, crashes>>

\* mutant: the receiver is credited before the payer is debited
PayInternalCreditsFirst(p) ==
  LET h == Hash(p) IN
  /\ Enter(p)
  /\ Internal(p)
  /\ pay[p].genuine
  /\ CanAfford(p, TRUE)
  /\ rows' = update_payment(rows, <<"in", h>>,
                            [rows[<<"in", h>>] EXCEPT !.status = "success"])
  /\ MoveTo(p, "debited", "internal")
  /\ dbLock' = p
  /\ UNCHANGED <<check, page, producer, announced, nodeVars, crashes>>

\* _pay_internal_invoice, its first commit: the payer's row
PayInternalDebit(p) ==
  LET h == Hash(p) IN
  /\ Enter(p)
  /\ Internal(p)
  /\ pay[p].genuine
  /\ CanAfford(p, TRUE)
  /\ MayCreate(rows, <<"internal", h>>)
  /\ rows' = create_payment(rows, <<"internal", h>>,
               NewRow("success", pay[p].wallet, -Amount[h],
                      fee_reserve_total(Amount[h], TRUE)))
  /\ MoveTo(p, "debited", "internal")
  /\ dbLock' = p
  /\ UNCHANGED <<check, page, producer, announced, nodeVars, crashes>>

\* its second commit: the receiver's row, then internal_invoice_queue
PayInternalCredit(p) ==
  LET k == <<"in", Hash(p)>> IN
  /\ pay[p].pc = "debited"
  /\ rows' = update_payment(rows, k, [rows[k] EXCEPT !.status = "success"])
  /\ announced' = announced \cup {k}
  /\ MoveTo(p, "credit_fee", "internal")
  /\ UNCHANGED <<dbLock, check, page, producer, nodeVars, crashes>>

\* _pay_external_invoice, a hash nobody paid: the row, then the task
PayExternal(p) ==
  LET h == Hash(p) IN
  /\ Enter(p)
  /\ ~Internal(p)
  /\ CanAfford(p, FALSE)
  /\ MayCreate(rows, <<"out", h>>)
  /\ rows' = create_payment(rows, <<"out", h>>,
               NewRow("pending", pay[p].wallet, -Amount[h],
                      fee_reserve_total(Amount[h], FALSE)))
  /\ MoveTo(p, "waiting", "out")
  /\ dbLock' = p
  /\ UNCHANGED <<check, page, producer, announced, nodeVars, crashes>>

\* _pay_external_invoice, an old payment of the hash that failed
PayVerify(p) ==
  /\ Enter(p)
  /\ ~Internal(p)
  /\ CanAfford(p, FALSE)
  /\ \E k \in get_standalone_payment(rows, Hash(p), FALSE) :
       /\ rows[k].status = "failed"
       /\ MoveTo(p, "verify", k[1])
  /\ dbLock' = p
  /\ UNCHANGED <<rows, check, page, producer, announced, nodeVars, crashes>>

\* check_payment_status: what the node may answer for a row.  It knows nothing
\* of the checking_id of a service fee.
StatusAnswers(k) ==
  LET n == node[k[2]] IN
  {"pending"} \cup
  {s \in {"success", "failed"} :
     \/ k[1] = "in" /\ s = "success" /\ n.invoice = "settled"
     \/ k[1] = "in" /\ s = "failed" /\ n.invoice = "open" /\ k[2] \in expired
     \/ k[1] = "out" /\ s = "success" /\ n.payment = "settled"
     \/ k[1] = "out" /\ s = "failed" /\ n.payment = "failed"}

node_fee(k) == IF k[1] = "in" THEN 0 ELSE node[k[2]].fee

\* mutant: a payment the node does not know yet is really tried again
VerifyAnswerRetries(p) ==
  /\ pay[p].pc = "verify"
  /\ MoveTo(p, "waiting", "out")
  /\ UNCHANGED <<rows, dbLock, check, page, producer, announced, nodeVars,
                 crashes>>

\* _verify_external_payment of that failed payment; pending "falls through"
\* and the old payment itself is returned
VerifyAnswer(p) ==
  LET k == pay[p].key IN
  /\ pay[p].pc = "verify"
  /\ \/ /\ Leave(p)             \* it failed for good, or the request raised
        /\ UNCHANGED rows
     \/ /\ "success" \in StatusAnswers(k)
        /\ rows' = update_payment(rows, k,
                     update_payment_success_status(rows[k], node_fee(k)))
        /\ Leave(p)
     \/ /\ MoveTo(p, "credit_fee", k[1])
        /\ UNCHANGED <<rows, dbLock>>
  /\ UNCHANGED <<check, page, producer, announced, nodeVars, crashes>>

\* _fundingsource_pay_invoice: the task hands the payment to the node
FundingSourcePay(p) ==
  LET h == Hash(p) IN
  /\ pay[p].pc = "waiting"
  /\ ~pay[p].sent
  /\ pay' = [pay EXCEPT ![p].sent = TRUE]
  /\ node' = [node EXCEPT
       ![h].requests = @ + 1,
       ![h].payment = IF @ = "none" THEN "inflight" ELSE @]
  /\ UNCHANGED <<rows, dbLock, check, page, producer, announced, stream,
                 expired, crashes>>

\* the answer: success, failed, or an exception out of the task
PayResponse(p) ==
  LET k == pay[p].key IN
  /\ pay[p].pc = "waiting"
  /\ pay[p].sent
  /\ \/ /\ node[Hash(p)].payment = "settled"
        /\ rows' = update_payment(rows, k,
                     update_payment_success_status(rows[k], node_fee(k)))
        /\ MoveTo(p, "credit_fee", "out")
        /\ UNCHANGED dbLock
     \/ /\ node[Hash(p)].payment = "failed"
        /\ rows' = update_payment(rows, k, Failed(rows[k]))
        /\ Leave(p)
     \/ /\ Leave(p)
        /\ UNCHANGED rows
  /\ UNCHANGED <<check, page, producer, announced, nodeVars, crashes>>

\* mutant: a timeout counts as a failure
PayTimeoutFails(p) ==
  /\ pay[p].pc = "waiting"
  /\ rows' = update_payment(rows, pay[p].key, Failed(rows[pay[p].key]))
  /\ Leave(p)
  /\ UNCHANGED <<check, page, producer, announced, nodeVars, crashes>>

\* mutant: the wait ends only when the node is done with the payment
PayTimeoutWaits(p) ==
  /\ pay[p].pc = "waiting"
  /\ node[Hash(p)].payment \in {"settled", "failed"}
  /\ MoveTo(p, "credit_fee", "out")
  /\ UNCHANGED <<rows, dbLock, check, page, producer, announced, nodeVars,
                 crashes>>

\* a pending answer, or asyncio.wait_for gives up and cancels the task, which
\* may not have sent anything; the row stays pending and is returned
PayTimeout(p) ==
  /\ pay[p].pc = "waiting"
  /\ MoveTo(p, "credit_fee", "out")
  /\ UNCHANGED <<rows, dbLock, check, page, producer, announced, nodeVars,
                 crashes>>

\* _credit_service_fee_wallet, whatever the status of the payment
FeeDue(p) == service_fee(rows[pay[p].key].amount, is_internal(pay[p].key))

CreditServiceFee(p) ==
  LET k == <<"service_fee", Hash(p)>> IN
  /\ pay[p].pc = "credit_fee"
  /\ rows' = IF FeeDue(p) > 0 /\ MayCreate(rows, k)
             THEN create_payment(rows, k,
                                 NewRow("success", FeeWallet, FeeDue(p), 0))
             ELSE rows
  /\ Leave(p)
  /\ UNCHANGED <<check, page, producer, announced, nodeVars, crashes>>

-----------------------------------------------------------------------------
(***************************************************************************)
(* update_pending_payment                                                  *)
(***************************************************************************)
IsExpired(item) == item[2].amount > 0 /\ item[1][2] \in expired

\* mutant: whatever is not a success counts as failed
VerdictsNotPaid(item) ==
  LET k == item[1]  r == item[2] IN
  IF IsExpired(item) THEN {Failed(r)}
  ELSE {Failed(r) : s \in StatusAnswers(k) \ {"success"}} \cup
       {update_payment_success_status(r, node_fee(k)) :
          s \in StatusAnswers(k) \cap {"success"}}

\* the copies it may write for a row it was given; none if still pending
Verdicts(item) ==
  LET k == item[1]  r == item[2] IN
  IF IsExpired(item) THEN {Failed(r)}
  ELSE {Failed(r) : s \in StatusAnswers(k) \cap {"failed"}} \cup
       {update_payment_success_status(r, node_fee(k)) :
          s \in StatusAnswers(k) \cap {"success"}}

CheckerStart(c, S) ==
  /\ check[c] = [todo |-> {}, writing |-> {}]
  /\ dbLock = Free
  /\ S # {}
  /\ check' = [check EXCEPT ![c].todo = Copies(rows, S)]
  /\ UNCHANGED <<rows, dbLock, pay, page, producer, announced, nodeVars,
                 crashes>>

\* check_pending_payments and update_pending_payments read a list of rows
CheckerReadAll(c) == CheckerStart(c, PendingCheckable(rows))

\* api_payment reads the row it was asked about
CheckerReadOne(c) == \E k \in PendingCheckable(rows) : CheckerStart(c, {k})

\* the check of one row, without the lock
CheckerAsk(c) ==
  /\ check[c].writing = {}
  /\ \E item \in check[c].todo :
       \E copy \in Verdicts(item) :
         check' = [check EXCEPT ![c].todo = @ \ {item},
                                ![c].writing = {<<item[1], copy>>}]
  /\ UNCHANGED <<rows, dbLock, pay, page, producer, announced, nodeVars,
                 crashes>>

\* the node does not know yet: the row is left for the next round
CheckerSkip(c) ==
  /\ check[c].writing = {}
  /\ \E item \in check[c].todo :
       /\ ~IsExpired(item)
       /\ check' = [check EXCEPT ![c].todo = @ \ {item}]
  /\ UNCHANGED <<rows, dbLock, pay, page, producer, announced, nodeVars,
                 crashes>>

\* an exception ends the round, and the permanent task starts over later
CheckerRaise(c) ==
  /\ check[c].writing = {}
  /\ \E item \in check[c].todo : ~IsExpired(item)
  /\ check' = [check EXCEPT ![c].todo = {}]
  /\ UNCHANGED <<rows, dbLock, pay, page, producer, announced, nodeVars,
                 crashes>>

CheckerWrite(c) ==
  /\ dbLock = Free
  /\ \E item \in check[c].writing :
       rows' = update_payment(rows, item[1], item[2])
  /\ check' = [check EXCEPT ![c].writing = {}]
  /\ UNCHANGED <<dbLock, pay, page, producer, announced, nodeVars, crashes>>

\* api_payments_paginated: reads, asks and writes under one hold of the lock
PageBegin(g, w) ==
  /\ dbLock = Free
  /\ dbLock' = g
  /\ page' = [page EXCEPT ![g] =
       Copies(rows, {k \in Stored(rows) :
                       rows[k].wallet = w /\ rows[k].status = "pending"})]
  /\ UNCHANGED <<rows, pay, check, producer, announced, nodeVars, crashes>>

PageCheck(g) ==
  /\ dbLock = g
  /\ \E item \in page[g] :
       /\ page' = [page EXCEPT ![g] = @ \ {item}]
       /\ \/ \E copy \in Verdicts(item) :
               rows' = update_payment(rows, item[1], copy)
          \/ ~IsExpired(item) /\ UNCHANGED rows
  /\ UNCHANGED <<dbLock, pay, check, producer, announced, nodeVars, crashes>>

\* the rows are done, or a status call raised
PageEnd(g) ==
  /\ dbLock = g
  /\ dbLock' = Free
  /\ page' = [page EXCEPT ![g] = {}]
  /\ UNCHANGED <<rows, pay, check, producer, announced, nodeVars, crashes>>

-----------------------------------------------------------------------------
(***************************************************************************)
(* fundingsource_invoice_producer                                          *)
(***************************************************************************)
\* update_invoice_from_paid_invoices_stream reads the row and asks the node;
\* a row it finds is written whatever its status; the node may report again
ProducerRead(h) ==
  /\ producer = {}
  /\ dbLock = Free
  /\ h \in stream
  /\ stream' \in {stream, stream \ {h}}
  /\ \E k \in get_standalone_payment(rows, h, TRUE) :
       producer' = Copies(rows, {k})
  /\ UNCHANGED <<rows, dbLock, pay, check, page, announced, node, expired,
                 crashes>>

\* the node does not confirm: the update is skipped
ProducerSkip ==
  /\ producer # {}
  /\ producer' = {}
  /\ UNCHANGED <<rows, dbLock, pay, check, page, announced, nodeVars, crashes>>

ProducerWrite ==
  /\ dbLock = Free
  /\ \E item \in producer :
       /\ "success" \in StatusAnswers(item[1])
       /\ rows' = update_payment(rows, item[1],
                                 [item[2] EXCEPT !.status = "success"])
       /\ announced' = announced \cup {item[1]}
  /\ producer' = {}
  /\ UNCHANGED <<dbLock, pay, check, page, nodeVars, crashes>>

-----------------------------------------------------------------------------
(***************************************************************************)
(* The funding source, time and crashes                                    *)
(***************************************************************************)
NodeReceives(h) ==
  /\ node[h].invoice = "open"
  /\ h \notin expired
  /\ node' = [node EXCEPT ![h].invoice = "settled"]
  /\ stream' = stream \cup {h}
  /\ UNCHANGED <<rows, dbLock, taskVars, announced, expired, crashes>>

\* a payment in flight costs at most the fee limit it was sent with
NodePays(h) ==
  /\ node[h].payment = "inflight"
  /\ \E f \in NodeFees :
       /\ f <= fee_reserve(Amount[h], FALSE)
       /\ node' = [node EXCEPT ![h].payment = "settled", ![h].fee = f]
  /\ UNCHANGED <<rows, dbLock, taskVars, announced, stream, expired, crashes>>

NodeFails(h) ==
  /\ node[h].payment = "inflight"
  /\ node' = [node EXCEPT ![h].payment = "failed"]
  /\ UNCHANGED <<rows, dbLock, taskVars, announced, stream, expired, crashes>>

Expire(h) ==
  /\ node[h].invoice # "none"
  /\ h \notin expired
  /\ expired' = expired \cup {h}
  /\ UNCHANGED <<rows, dbLock, taskVars, announced, node, stream, crashes>>

\* tasks, locks, queues and an unread part of the stream are lost
Crash ==
  /\ crashes < MaxCrashes
  /\ crashes' = crashes + 1
  /\ dbLock' = Free
  /\ pay' = [p \in Payers |-> IdleCall]
  /\ check' = [c \in Checkers |-> [todo |-> {}, writing |-> {}]]
  /\ page' = [g \in Pagers |-> {}]
  /\ producer' = {}
  /\ stream' \in SUBSET stream
  /\ UNCHANGED <<rows, announced, node, expired>>

-----------------------------------------------------------------------------
PayStep(p) ==
  \/ \E w \in Wallets, h \in Hashes, genuine \in BOOLEAN :
       PayCheck(p, w, h, genuine)
  \/ PayRejected(p)
  \/ PayInternalDebit(p)
  \/ PayInternalCredit(p)
  \/ PayExternal(p)
  \/ PayVerify(p)
  \/ VerifyAnswer(p)
  \/ FundingSourcePay(p)
  \/ PayResponse(p)
  \/ PayTimeout(p)
  \/ CreditServiceFee(p)

CheckerStep(c) ==
  \/ CheckerReadAll(c)
  \/ CheckerReadOne(c)
  \/ CheckerAsk(c)
  \/ CheckerSkip(c)
  \/ CheckerRaise(c)
  \/ CheckerWrite(c)

PageStep(g) ==
  \/ \E w \in Wallets : PageBegin(g, w)
  \/ PageCheck(g)
  \/ PageEnd(g)

ProducerStep ==
  \/ \E h \in Hashes : ProducerRead(h)
  \/ ProducerSkip
  \/ ProducerWrite

NodeStep ==
  \E h \in Hashes :
    NodeReceives(h) \/ NodePays(h) \/ NodeFails(h) \/ Expire(h)

Next ==
  \/ \E h \in Hashes : create_invoice(h)
  \/ \E p \in Payers : PayStep(p)
  \/ \E c \in Checkers : CheckerStep(c)
  \/ \E g \in Pagers : PageStep(g)
  \/ ProducerStep
  \/ NodeStep
  \/ Crash

Spec == Init /\ [][Next]_vars

-----------------------------------------------------------------------------
(***************************************************************************)
(* Safety                                                                  *)
(***************************************************************************)
\* the payment of h counts against a wallet
Debited(h) == Counted(rows[<<"out", h>>]) \/ Counted(rows[<<"internal", h>>])

\* the invoice of h was paid: over the network, or by a local wallet
Paid(h) ==
  node[h].invoice = "settled" \/ rows[<<"internal", h>>].status = "success"

\* what the node has spent on h, or may still spend
Committed(h) ==
  CASE node[h].payment = "settled" -> Amount[h] + node[h].fee
    [] node[h].payment = "inflight" -> Amount[h] + fee_reserve(Amount[h], FALSE)
    [] OTHER -> 0

Received(h) == IF node[h].invoice = "settled" THEN Amount[h] ELSE 0

\* service fees credited for payments that debit nobody
UnbackedFees ==
  Total(rows, {<<"service_fee", h>> : h \in {j \in Hashes : ~Debited(j)}})

(***************************************************************************)
(* The server owes its wallets no more than its node holds, the worst case *)
(* of payments in flight counted: a payment is debited with its full       *)
(* reserve before the node hears of it, and refunded only when the node    *)
(* can no longer pay it.  The one exception are service fees credited by   *)
(* pay_invoice for payments that then fail.                                *)
(***************************************************************************)
Solvent ==
  Total(rows, Keys)
    <= SumFunctionOnSet([h \in Hashes |-> Received(h) - Committed(h)], Hashes)
         + UnbackedFees

\* What w would hold if every invoice it was paid were credited in full.
Entitled(w) ==
  LET debits == {k \in Outgoing(rows, w) : Counted(rows[k])}
      earned == {h \in Hashes : Issuer[h] = w /\ Paid(h)}
      fees == {<<"service_fee", h>> : h \in Hashes}
  IN  Opening[w] + Total(rows, debits)
        + SumFunctionOnSet(Amount, earned)
        + (IF w = FeeWallet THEN Total(rows, fees) ELSE 0)

\* No wallet is debited for more than it was ever owed, whatever races: the
\* balance check and the debit of pay_invoice are under one hold of the lock.
NoOverdraft == \A w \in Wallets : Entitled(w) >= 0

\* A payment is refunded only if the node has given it up, and final only if
\* the node has paid it: across timeouts, crashes and stale checks.
OutcomeMatchesNode ==
  \A h \in Hashes :
    /\ rows[<<"out", h>>].status = "failed" => node[h].payment = "failed"
    /\ rows[<<"out", h>>].status = "success" => node[h].payment = "settled"

\* The node is asked to pay a hash at most once in the life of the ledger, and
\* only after the debit was committed: retries and restarts never pay twice.
SentOnce ==
  \A h \in Hashes :
    /\ node[h].requests <= 1
    /\ node[h].requests = 1 => <<"out", h>> \in Stored(rows)

\* "the other side only has access to his new money when we are sure the payer
\* has enough to deduct from": a credited invoice was paid on the network or
\* by a committed debit, at every point a crash can leave the ledger in.
CreditIsBacked ==
  \A h \in Hashes : rows[<<"in", h>>].status = "success" => Paid(h)

\* A hash debits one wallet once: an invoice of a local wallet is never also
\* paid through the node, however it expired or failed before.
DebitedOnce ==
  \A h \in Hashes :
    /\ ~(Counted(rows[<<"out", h>>]) /\ Counted(rows[<<"internal", h>>]))
    /\ Issuer[h] # NoWallet => node[h].requests = 0

\* The payer's row never changes again once it is final, although checkers and
\* pagers write whole rows from copies they read long before.
FinalIsFinal ==
  [][\A k \in Keys :
       k[1] \in {"out", "internal"} /\ rows[k].status \in {"success", "failed"}
         => rows'[k] = rows[k]]_vars

-----------------------------------------------------------------------------
(***************************************************************************)
(* Liveness.  asyncio.Lock serves its waiters in order, so a task that     *)
(* keeps coming back to the lock gets it: strong fairness for the steps    *)
(* that take it.  asyncio.wait_for bounds the wait for the node, and the   *)
(* permanent task restarts check_pending_payments for ever; the node is    *)
(* only assumed to answer now and then, never to pay, fail or receive.     *)
(***************************************************************************)
PayEnters(p) ==
  PayRejected(p) \/ PayInternalDebit(p) \/ PayExternal(p) \/ PayVerify(p)

PayGoesOn(p) ==
  PayInternalCredit(p) \/ VerifyAnswer(p) \/ PayTimeout(p) \/ CreditServiceFee(p)

Fairness ==
  /\ \A p \in Payers : SF_vars(PayEnters(p)) /\ WF_vars(PayGoesOn(p))
  /\ \A c \in Checkers :
       /\ SF_vars(CheckerReadAll(c))
       /\ SF_vars(CheckerAsk(c))
       /\ WF_vars(CheckerSkip(c))
       /\ SF_vars(CheckerWrite(c))
  /\ \A g \in Pagers : WF_vars(PageEnd(g))

FairSpec == Spec /\ Fairness

\* No call hangs: whatever the node does, pay_invoice lets go of the lock.
CallsEnd ==
  \A p \in Payers : pay[p].pc = "checked" ~> pay[p].pc = "idle"

\* What became of a payment on the node reaches the ledger, also when the call
\* timed out, the answer was lost or the process was restarted.
OutcomeReachesLedger ==
  \A h \in Hashes :
    node[h].payment \in {"settled", "failed"}
      ~> rows[<<"out", h>>].status \in {"success", "failed"}

\* An invoice paid on the node is credited, or its expiry was noticed first.
ReceiptReachesLedger ==
  \A h \in Hashes :
    node[h].invoice = "settled"
      ~> (rows[<<"in", h>>].status = "success" \/ h \in expired)

=============================================================================
