--------------------------- MODULE PaymentPromise ---------------------------
(***************************************************************************)
(* What a wallet is promised about an invoice it pays, with no word about  *)
(* calls, copies, crashes or the node: the most it can cost is set aside   *)
(* at once, and then either it is paid for no more than that, or all of it *)
(* comes back.  Either is for good, and nobody else is charged.            *)
(***************************************************************************)
EXTENDS Integers

CONSTANTS
  Hashes,   \* the payment hashes
  Wallets,  \* who can pay
  Nobody,   \* the payer of what nobody has paid yet
  Price,    \* [Hashes -> Nat], the amounts
  MostFee   \* [Hashes -> Nat], the most a payment costs beyond its amount

VARIABLE bill  \* [Hashes -> [state, payer, cost]]

Unpaid == [state |-> "unpaid", payer |-> Nobody, cost |-> 0]

Init == bill = [h \in Hashes |-> Unpaid]

\* everything it may cost is set aside
Reserve(h, w) ==
  /\ bill[h] = Unpaid
  /\ bill' = [bill EXCEPT ![h] = [state |-> "reserved", payer |-> w,
                                  cost |-> Price[h] + MostFee[h]]]

\* a payment that needs nobody else is over at once
Transfer(h, w) ==
  /\ bill[h] = Unpaid
  /\ \E cost \in Price[h] .. (Price[h] + MostFee[h]) :
       bill' = [bill EXCEPT ![h] = [state |-> "paid", payer |-> w,
                                    cost |-> cost]]

\* the rest of the reserve comes back
Settle(h) ==
  /\ bill[h].state = "reserved"
  /\ \E cost \in Price[h] .. bill[h].cost :
       bill' = [bill EXCEPT ![h] = [state |-> "paid", payer |-> bill[h].payer,
                                    cost |-> cost]]

Refund(h) ==
  /\ bill[h].state = "reserved"
  /\ bill' = [bill EXCEPT ![h] = [state |-> "refunded", payer |-> bill[h].payer,
                                  cost |-> 0]]

Next ==
  \E h \in Hashes :
    \/ \E w \in Wallets : Reserve(h, w) \/ Transfer(h, w)
    \/ Settle(h)
    \/ Refund(h)

Spec == Init /\ [][Next]_bill

=============================================================================
