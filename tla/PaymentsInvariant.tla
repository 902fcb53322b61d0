------------------------- MODULE PaymentsInvariant -------------------------
(***************************************************************************)
(* The inductive invariant of Payments: what every step relies on.  The    *)
(* safety properties of Payments that do not add up balances follow from   *)
(* it (module PaymentsProofs).  What the sums of balances need besides, and *)
(* the mapping to PaymentPromise.                                          *)
(***************************************************************************)
EXTENDS Payments

Settled(k) ==
  \/ k[1] = "in" /\ node[k[2]].invoice = "settled"
  \/ k[1] = "out" /\ node[k[2]].payment = "settled"

\* The kind of a row tells its sign, who can have it, and what may become of it.
RowsOK(h) ==
  /\ rows[<<"in", h>>].status # "none" =>
       Issuer[h] # NoWallet /\ rows[<<"in", h>>].amount > 0
  /\ rows[<<"in", h>>].status = "success" => Paid(h)
  /\ rows[<<"out", h>>].status # "none" =>
       Issuer[h] = NoWallet /\ rows[<<"out", h>>].amount < 0
  /\ rows[<<"internal", h>>].status \in {"none", "success"}
  /\ rows[<<"internal", h>>].status # "none" =>
       Issuer[h] # NoWallet /\ rows[<<"internal", h>>].amount < 0
  /\ rows[<<"service_fee", h>>].status \in {"none", "success"}

RowsInv == \A h \in Hashes : RowsOK(h)

\* The node hears of a hash only after its row, and once.
NodeOK(h) ==
  /\ node[h].invoice # "none" => rows[<<"in", h>>].status # "none"
  /\ node[h].requests \in {0, 1}
  /\ node[h].requests = 0 <=> node[h].payment = "none"
  /\ node[h].requests = 1 => rows[<<"out", h>>].status # "none"
  /\ rows[<<"out", h>>].status = "failed" => node[h].payment = "failed"
  /\ rows[<<"out", h>>].status = "success" => node[h].payment = "settled"

NodeInv == \A h \in Hashes : NodeOK(h)

\* What a call knows while it holds the lock stays true until it lets go.
CallOK(p) ==
  /\ pay[p].pc # "idle" => pay[p].key \in Keys /\ pay[p].wallet \in Wallets
  /\ pay[p].pc \in UnderLock => dbLock = p
  /\ pay[p].pc # "idle" /\ Issuer[Hash(p)] # NoWallet =>
       rows[<<"in", Hash(p)>>].status # "none"
  /\ pay[p].pc = "debited" =>
       /\ rows[<<"internal", Hash(p)>>].status = "success"
       /\ rows[<<"in", Hash(p)>>].status # "none"
  /\ pay[p].pc = "verify" => rows[pay[p].key].status = "failed"
  /\ pay[p].pc = "waiting" =>
       /\ pay[p].key = <<"out", Hash(p)>>
       /\ rows[pay[p].key].status = "pending"
       /\ ~pay[p].sent => node[Hash(p)].requests = 0

CallsInv == \A p \in Payers : CallOK(p)

\* A copy read earlier is of a row that is still there; a verdict is the node's.
PendingCopy(item) ==
  /\ item[1][1] \in {"in", "out"}
  /\ item[2].status = "pending"
  /\ item[1][1] = "in" <=> item[2].amount > 0
  /\ item[1][1] = "out" <=> item[2].amount < 0
  /\ rows[item[1]].status # "none"

VerdictCopy(item) ==
  /\ item[1][1] \in {"in", "out"}
  /\ item[2].status \in {"success", "failed"}
  /\ item[1][1] = "in" <=> item[2].amount > 0
  /\ item[1][1] = "out" <=> item[2].amount < 0
  /\ item[2].status = "success" => Settled(item[1])
  /\ item[1][1] = "out" /\ item[2].status = "failed" =>
       node[item[1][2]].payment = "failed"
  /\ rows[item[1]].status # "none"

\* The producer found a row that pays its wallet, of whatever status.
ProducerOK ==
  \A item \in producer :
    /\ item[1][1] \in {"in", "service_fee"}
    /\ item[2].amount > 0
    /\ rows[item[1]].status # "none"

CopiesInv ==
  /\ \A c \in Checkers :
       /\ \A item \in check[c].todo : PendingCopy(item)
       /\ \A item \in check[c].writing : VerdictCopy(item)
  /\ \A g \in Pagers : \A item \in page[g] : PendingCopy(item)
  /\ ProducerOK

\* Every step keeps it; every property below follows from it.
IInv == TypeOK /\ RowsInv /\ NodeInv /\ CallsInv /\ CopiesInv

-----------------------------------------------------------------------------
(***************************************************************************)
(* What a payer's row says at each stage, and what a copy of it still has  *)
(* in common with it.                                                      *)
(***************************************************************************)
FinalFee(h) == node[h].fee + service_fee(Amount[h], FALSE)

DebitOK(h) ==
  /\ rows[<<"out", h>>].status = "none" => rows[<<"out", h>>] = NoRow
  /\ \A kind \in {"out", "internal"} :
       rows[<<kind, h>>].status # "none" =>
         /\ rows[<<kind, h>>].wallet \in Wallets
         /\ rows[<<kind, h>>].amount = -Amount[h]
  /\ rows[<<"out", h>>].status \in {"pending", "failed"} =>
       rows[<<"out", h>>].fee = fee_reserve_total(Amount[h], FALSE)
  /\ rows[<<"out", h>>].status = "success" =>
       rows[<<"out", h>>].fee = FinalFee(h)
  /\ node[h].payment = "settled" => node[h].fee <= fee_reserve(Amount[h], FALSE)

DebitCopy(item) ==
  item[1][1] = "out" =>
    /\ item[2].wallet = rows[item[1]].wallet
    /\ item[2].amount = -Amount[item[1][2]]
    /\ item[2].status \in {"pending", "failed"} =>
         item[2].fee = fee_reserve_total(Amount[item[1][2]], FALSE)
    /\ item[2].status = "success" => item[2].fee = FinalFee(item[1][2])

\* The fee and the payer of a payment stay tied to the node's answer, in every
\* copy a checker or a pager holds.
DebitInv ==
  /\ \A h \in Hashes : DebitOK(h)
  /\ \A c \in Checkers :
       \A item \in check[c].todo \cup check[c].writing : DebitCopy(item)
  /\ \A g \in Pagers : \A item \in page[g] : DebitCopy(item)

-----------------------------------------------------------------------------
(***************************************************************************)
(* What the sums of the ledger rest on: a credit is the amount of its      *)
(* invoice, and a service fee is the one its payer's row withholds.        *)
(***************************************************************************)
Final(h) == rows[<<"in", h>>].status \in {"success", "failed"}

CreditOK(h) ==
  LET in == rows[<<"in", h>>]
      internal == rows[<<"internal", h>>]
      fee == rows[<<"service_fee", h>>]
  IN  /\ in.status # "none" => in.wallet = Issuer[h] /\ in.amount = Amount[h]
      /\ internal.status # "none" =>
           internal.fee = fee_reserve_total(Amount[h], TRUE)
      /\ fee.status # "none" =>
           /\ fee.wallet = FeeWallet
           /\ fee.fee = 0
           /\ fee.amount = service_fee(Amount[h], internal.status # "none")
           /\ Issuer[h] # NoWallet => Final(h)

\* a call about to credit the fee has a payer's row, or an invoice that failed
CreditCall(p) ==
  pay[p].pc \in {"verify", "credit_fee"} =>
    /\ pay[p].key[1] \in {"in", "out", "internal"}
    /\ rows[pay[p].key].status # "none"
    /\ is_internal(pay[p].key) <=> rows[<<"internal", Hash(p)>>].status # "none"
    /\ Issuer[Hash(p)] # NoWallet => Final(Hash(p))

CreditCopy(item) ==
  item[1][1] = "in" =>
    item[2].wallet = Issuer[item[1][2]] /\ item[2].amount = Amount[item[1][2]]

CreditInv ==
  /\ \A h \in Hashes : CreditOK(h)
  /\ \A p \in Payers : CreditCall(p)
  /\ \A c \in Checkers :
       \A item \in check[c].todo \cup check[c].writing : CreditCopy(item)
  /\ \A g \in Pagers : \A item \in page[g] : CreditCopy(item)
  /\ \A item \in producer : CreditCopy(item)

\* What the sums of the ledger rest on, for the debits and for the credits.
LedgerInv == DebitInv /\ CreditInv

-----------------------------------------------------------------------------
(***************************************************************************)
(* Payments implements PaymentPromise: the bill of a hash is read off the  *)
(* row of its payer.                                                       *)
(***************************************************************************)
\* the row that debits the payer: internal_<h>, or the one for the node
PayersKey(h) ==
  IF rows[<<"internal", h>>].status # "none" THEN <<"internal", h>>
                                             ELSE <<"out", h>>

StateOf(status) ==
  CASE status = "none" -> "unpaid"
    [] status = "pending" -> "reserved"
    [] status = "success" -> "paid"
    [] status = "failed" -> "refunded"

Bill(r) == [state |-> StateOf(r.status), payer |-> r.wallet,
            cost |-> 0 - Contribution(r)]

bill == [h \in Hashes |-> Bill(rows[PayersKey(h)])]

MostFee == [h \in Hashes |-> fee_reserve_total(Amount[h], FALSE)]

Promise == INSTANCE PaymentPromise WITH Nobody <- NoWallet, Price <- Amount

\* Whatever tasks race, time out or are lost in a crash, a payer sees a payment
\* reserved in full, then paid for no more than that or refunded in full, once.
PromiseKept == Promise!Spec

=============================================================================
