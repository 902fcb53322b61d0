----------------------------- MODULE MCPayments -----------------------------
(***************************************************************************)
(* Small instances of Payments.  Hash "l" is the invoice of a local        *)
(* wallet, "x" the invoice of another node.  Alice can pay "l" and then    *)
(* "x" but for the fee of "x"; bob must be paid before he can pay.         *)
(***************************************************************************)
EXTENDS PaymentsInvariant

MCHashes == {"l", "x"}
MCAmount == [h \in MCHashes |-> 100]
MCIssuer == [h \in MCHashes |-> IF h = "l" THEN "bob" ELSE NoWallet]
MCOpening == [w \in Wallets |-> CASE w = "alice" -> 201
                                 [] w = "bob" -> 5
                                 [] OTHER -> 0]
\* alice alone can afford several payments
MCRich == [w \in Wallets |-> IF w = "alice" THEN 500 ELSE 0]

(* check_pending_payments is "to check for pending payments": it does not    *)
(* touch an invoice that was paid, and credited, since it read its list.     *)
PaidInvoiceStaysPaid ==
  [][\A h \in Hashes :
       rows[<<"in", h>>].status = "success"
         => rows'[<<"in", h>>].status = "success"]_vars

=============================================================================
