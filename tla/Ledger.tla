------------------------------- MODULE Ledger -------------------------------
(***************************************************************************)
(* The fees, the table apipayments and its queries (core/crud/payments.py). *)
(* A ledger is a function from row keys to rows.  A row key is the pair of *)
(* a kind and a payment hash: it stands for the row's checking_id.         *)
(*                                                                         *)
(*   <<"in", h>>           the invoice a local wallet issued for h         *)
(*   <<"out", h>>          a payment of h through the funding source       *)
(*   <<"internal", h>>     internal_<h>, the payer's side of a payment     *)
(*                         between two local wallets                       *)
(*   <<"service_fee", h>>  service_fee_<h>, the credit of the fee wallet   *)
(*                                                                         *)
(* A row's fee is kept as its magnitude: the code writes it as -abs(fee)   *)
(* and only ever reads abs(fee).                                           *)
(***************************************************************************)
EXTENDS Integers, FiniteSets, FiniteSetsExt

(***************************************************************************)
(* The fee rules of core/services/payments.py and settings.py: the routing *)
(* fee reserve withheld while an outgoing payment is in doubt, and the     *)
(* service fee the server's admin takes.  Amounts are in millisatoshi, the *)
(* percentages are whole numbers (the code's are floats, truncated by      *)
(* int()).                                                                 *)
(***************************************************************************)
CONSTANTS
  ReserveMin,          \* lnbits_reserve_fee_min (msat)
  ReservePercent,      \* lnbits_reserve_fee_percent
  ServiceFeePercent,   \* lnbits_service_fee
  ServiceFeeMax,       \* lnbits_service_fee_max, in msat; 0 means no maximum
  IgnoreInternal,      \* lnbits_service_fee_ignore_internal
  FeeWallet,           \* lnbits_service_fee_wallet, or NoWallet
  NoWallet             \* "no wallet configured", and "not a local wallet"

ASSUME FeeSettings ==
  /\ ReserveMin \in Nat
  /\ ReservePercent \in Nat
  /\ ServiceFeePercent \in Nat
  /\ ServiceFeeMax \in Nat
  /\ IgnoreInternal \in BOOLEAN

Abs(n) == IF n < 0 THEN -n ELSE n

fee_reserve(amount, internal) ==
  IF internal THEN 0
  ELSE LET share == (Abs(amount) * ReservePercent) \div 100
       IN  IF share > ReserveMin THEN share ELSE ReserveMin

service_fee(amount, internal) ==
  IF FeeWallet = NoWallet \/ (internal /\ IgnoreInternal) THEN 0
  ELSE LET share == (Abs(amount) * ServiceFeePercent) \div 100
       IN  IF ServiceFeeMax > 0 /\ share > ServiceFeeMax THEN ServiceFeeMax
                                                          ELSE share

\* mutant: the routing reserve is forgotten
FeeTotalWithoutReserve(amount, internal) == service_fee(amount, internal)

fee_reserve_total(amount, internal) ==
  fee_reserve(amount, internal) + service_fee(amount, internal)

(***************************************************************************)
(* The rows                                                                *)
(***************************************************************************)

CONSTANTS
  Wallets,   \* the local wallets
  Hashes,    \* the payment hashes of the invoices in play
  Opening    \* [Wallets -> Nat], what each wallet held at the start

ASSUME LedgerConstants ==
  /\ IsFiniteSet(Hashes)
  /\ NoWallet \notin Wallets
  /\ FeeWallet \in Wallets \cup {NoWallet}
  /\ Opening \in [Wallets -> Nat]

Kinds == {"in", "out", "internal", "service_fee"}
Keys == Kinds \X Hashes

Row == [status : {"none", "pending", "success", "failed"},
        wallet : Wallets \cup {NoWallet}, amount : Int, fee : Nat]

NoRow == [status |-> "none", wallet |-> NoWallet, amount |-> 0, fee |-> 0]

Stored(t) == {k \in Keys : t[k].status # "none"}

is_internal(k) == k[1] = "internal"

(***************************************************************************)
(* The view "balances": what a row counts for, and a wallet's sum.         *)
(***************************************************************************)
Counted(r) ==
  \/ r.status = "success"
  \/ r.status = "pending" /\ r.amount < 0

Contribution(r) == IF Counted(r) THEN r.amount - r.fee ELSE 0

Contributions(t) == [k \in Keys |-> Contribution(t[k])]

Total(t, S) == SumFunctionOnSet(Contributions(t), S)

balance_msat(t, w) ==
  Opening[w] + Total(t, {k \in Stored(t) : t[k].wallet = w})

(***************************************************************************)
(* Queries.  Each is the set of rows the SQL text may return: the code     *)
(* takes the first one, and SQL does not say which of equals comes first.  *)
(***************************************************************************)
OfHash(t, h) == {k \in Stored(t) : k[2] = h}

\* get_standalone_payment(h, incoming): ORDER BY amount LIMIT 1
get_standalone_payment(t, h, incoming) ==
  LET found == {k \in OfHash(t, h) : incoming => t[k].amount > 0}
  IN  {k \in found : \A j \in found : t[k].amount <= t[j].amount}

\* check_internal(h): the pending incoming row of h
check_internal(t, h) ==
  {k \in OfHash(t, h) : t[k].status = "pending" /\ t[k].amount > 0}

\* is_internal_status_success(h) looks at the status of any incoming row of h
is_internal_status_success(t, h) ==
  {t[k].status = "success" : k \in {j \in OfHash(t, h) : t[j].amount > 0}}

\* the rows of get_payments(wallet_id, outgoing=True), whatever their status
Outgoing(t, w) == {k \in Stored(t) : t[k].wallet = w /\ t[k].amount < 0}

\* mutant: the outgoing rows are left out
PendingIncoming(t) ==
  {k \in Stored(t) : t[k].status = "pending" /\ t[k].amount > 0}

\* mutant: the incoming rows are left out
PendingOutgoing(t) ==
  {k \in Stored(t) : t[k].status = "pending" /\ ~is_internal(k) /\ t[k].amount < 0}

\* the rows of get_payments(pending=True, exclude_uncheckable=True)
PendingCheckable(t) ==
  {k \in Stored(t) : t[k].status = "pending" /\ ~is_internal(k)}

(***************************************************************************)
(* Updates                                                                 *)
(***************************************************************************)
\* mutant: the sign of the fee is not normalised
RowWithSignedFee(status, wallet, amount, fee) ==
  [status |-> status, wallet |-> wallet, amount |-> amount, fee |-> -fee]

NewRow(status, wallet, amount, fee) ==
  [status |-> status, wallet |-> wallet, amount |-> amount, fee |-> Abs(fee)]

\* mutant: only the checking_id is compared, not the hash
MayCreateByKey(t, k) == k \notin Stored(t)

\* create_payment refuses a checking_id it finds as a checking_id or as a hash;
\* an invoice and an external payment have the bare hash as their checking_id
MayCreate(t, k) ==
  /\ k \notin Stored(t)
  /\ k[1] \in {"in", "out"} => OfHash(t, k[2]) = {}

create_payment(t, k, r) == [t EXCEPT ![k] = r]

\* update_payment writes every column from the caller's copy of the row
update_payment(t, k, copy) == [t EXCEPT ![k] = copy]

Failed(r) == [r EXCEPT !.status = "failed"]

\* mutant: the fee is added to the reserve instead of replacing it
SuccessAddsFee(r, node_fee) ==
  [r EXCEPT !.status = "success", !.fee = @ + Abs(node_fee)]

\* update_payment_success_status: the copy that is written
update_payment_success_status(r, node_fee) ==
  [r EXCEPT !.status = "success",
            !.fee = Abs(node_fee) + service_fee(r.amount, FALSE)]

=============================================================================
