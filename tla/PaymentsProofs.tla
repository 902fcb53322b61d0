--------------------------- MODULE PaymentsProofs ---------------------------
(***************************************************************************)
(* The payment core.  First that IInv is inductive, one lemma for each     *)
(* action of Payments, and what follows from it; then that Payments        *)
(* implements PaymentPromise, for which every step is sorted by what it    *)
(* does to the rows that debit payers.                                     *)
(*                                                                         *)
(* Last, what its ledger adds up to: the server owes its wallets no more   *)
(* than its node holds (Solvent), and no wallet is debited for more than it *)
(* was ever owed (NoOverdraft).  A sum over rows is compared hash by hash: *)
(*   - what SumFunctionOnSet gives over a finite set, as Sums says;        *)
(*   - that the four rows of one hash cost the node what it holds for it;  *)
(*   - that CreditInv, what a credit and a service fee say of their hash, is *)
(*     kept by every step;                                                 *)
(*   - that a wallet's entitlement falls only with a debit, and by no more than *)
(*     the balance that the call of that debit has checked.                *)
(***************************************************************************)
EXTENDS PaymentsInvariant, Sums

-----------------------------------------------------------------------------
LEMMA AbsIsNatural == \A n \in Int : Abs(n) \in Nat
BY DEF Abs

LEMMA FeesAreNatural ==
  ASSUME NEW n \in Int, NEW b \in BOOLEAN
  PROVE  /\ fee_reserve(n, b) \in Nat
         /\ service_fee(n, b) \in Nat
         /\ fee_reserve_total(n, b) \in Nat
<1> USE FeeSettings
<1>1. (Abs(n) * ReservePercent) \div 100 \in Nat
  BY AbsIsNatural
<1>2. (Abs(n) * ServiceFeePercent) \div 100 \in Nat
  BY AbsIsNatural
<1> QED
  BY <1>1, <1>2 DEF fee_reserve, service_fee, fee_reserve_total

LEMMA NewRowTyped ==
  ASSUME NEW s \in {"pending", "success"}, NEW w \in Wallets \cup {NoWallet},
         NEW a \in Int, NEW f \in Int
  PROVE  /\ NewRow(s, w, a, f) \in Row
         /\ NewRow(s, w, a, f).status = s
         /\ NewRow(s, w, a, f).amount = a
<1>1. Abs(f) \in Nat
  BY AbsIsNatural
<1> QED
  BY <1>1 DEF NewRow, Row

LEMMA DebitRowTyped ==
  ASSUME NEW s \in {"pending", "success"}, NEW w \in Wallets, NEW n \in Nat,
         n > 0, NEW internal \in BOOLEAN
  PROVE  LET r == NewRow(s, w, -n, fee_reserve_total(n, internal))
         IN  r \in Row /\ r.status = s /\ r.amount < 0
<1>1. n \in Int /\ -n \in Int /\ -n < 0
  OBVIOUS
<1> DEFINE f == fee_reserve_total(n, internal)
<1>2. f \in Int
  BY <1>1, FeesAreNatural
<1> HIDE DEF f
<1>3. /\ NewRow(s, w, -n, f) \in Row
      /\ NewRow(s, w, -n, f).status = s
      /\ NewRow(s, w, -n, f).amount = -n
  BY <1>1, <1>2, NewRowTyped
<1> QED
  BY <1>1, <1>3 DEF f

LEMMA KeysOfHash ==
  ASSUME NEW h \in Hashes
  PROVE  /\ <<"in", h>> \in Keys
         /\ <<"out", h>> \in Keys
         /\ <<"internal", h>> \in Keys
         /\ <<"service_fee", h>> \in Keys
BY DEF Keys, Kinds

LEMMA KeyParts ==
  ASSUME NEW k \in Keys
  PROVE  /\ k[1] \in {"in", "out", "internal", "service_fee"}
         /\ k[2] \in Hashes
         /\ k = <<k[1], k[2]>>
BY DEF Keys, Kinds

\* Rows are never deleted, and what the node has decided it has decided.
RowsStay == \A k \in Keys : rows[k].status # "none" => rows'[k].status # "none"

NodeStays ==
  \A h \in Hashes :
    /\ node[h].invoice = "settled" => node'[h].invoice = "settled"
    /\ node[h].payment \in {"settled", "failed"} =>
         node'[h].payment = node[h].payment

LEMMA LedgerKept ==
  ASSUME IInv, UNCHANGED <<rows, node>>
  PROVE  RowsStay /\ NodeStays /\ RowsInv' /\ NodeInv'
<1>1. RowsStay /\ NodeStays
  BY DEF RowsStay, NodeStays
<1>2. RowsInv'
  BY DEF IInv, RowsInv, RowsOK, Paid
<1>3. NodeInv'
  BY DEF IInv, NodeInv, NodeOK
<1> QED
  BY <1>1, <1>2, <1>3

\* What may be written at k while the node stays as it is.
GoodRow(k, r) ==
  /\ r.status # "none"
  /\ k[1] = "in" =>
       /\ Issuer[k[2]] # NoWallet
       /\ r.amount > 0
       /\ r.status = "success" => Paid(k[2])
  /\ k[1] = "out" =>
       /\ Issuer[k[2]] = NoWallet
       /\ r.amount < 0
       /\ r.status = "failed" => node[k[2]].payment = "failed"
       /\ r.status = "success" => node[k[2]].payment = "settled"
  /\ k[1] = "internal" =>
       /\ Issuer[k[2]] # NoWallet
       /\ r.amount < 0
       /\ r.status = "success"
  /\ k[1] = "service_fee" => r.status = "success"

LEMMA LedgerWrite ==
  ASSUME IInv, NEW k \in Keys, NEW r \in Row, GoodRow(k, r),
         rows' = [rows EXCEPT ![k] = r], UNCHANGED node
  PROVE  /\ rows' \in [Keys -> Row]
         /\ rows'[k] = r
         /\ \A j \in Keys : j # k => rows'[j] = rows[j]
         /\ RowsStay
         /\ NodeStays
         /\ RowsInv'
         /\ NodeInv'
<1>1. /\ rows' \in [Keys -> Row]
      /\ rows'[k] = r
      /\ \A j \in Keys : j # k => rows'[j] = rows[j]
  BY DEF IInv, TypeOK
<1>2. \A j \in Keys : rows[j].status # "none" => rows'[j].status # "none"
  BY <1>1 DEF GoodRow
<1>3. k \in {<<"in", k[2]>>, <<"out", k[2]>>, <<"internal", k[2]>>, <<"service_fee", k[2]>>} /\ k[2] \in Hashes
  BY KeyParts
<1>4. ASSUME NEW h \in Hashes, h # k[2]
      PROVE  /\ rows'[<<"in", h>>] = rows[<<"in", h>>]
             /\ rows'[<<"out", h>>] = rows[<<"out", h>>]
             /\ rows'[<<"internal", h>>] = rows[<<"internal", h>>]
             /\ rows'[<<"service_fee", h>>] = rows[<<"service_fee", h>>]
  BY <1>1, <1>3, <1>4, KeysOfHash
<1>9. ASSUME NEW kind \in {"in", "out", "internal", "service_fee"}
      PROVE  rows'[<<kind, k[2]>>] = IF kind = k[1] THEN r ELSE rows[<<kind, k[2]>>]
  BY <1>1, <1>3, KeysOfHash
<1>5. rows[<<"internal", k[2]>>].status = "success" => rows'[<<"internal", k[2]>>].status = "success"
  BY <1>1, <1>3, KeysOfHash DEF GoodRow
<1>6. RowsInv'
  <2> SUFFICES ASSUME NEW h \in Hashes PROVE RowsOK(h)'
    BY DEF RowsInv
  <2> RowsOK(h)
    BY DEF IInv, RowsInv
  <2>1. CASE h # k[2]
    BY <1>4, <2>1 DEF RowsOK, Paid
  <2>2. CASE h = k[2]
    <3>1. /\ rows'[<<"in", h>>] = IF k[1] = "in" THEN r ELSE rows[<<"in", h>>]
          /\ rows'[<<"out", h>>] = IF k[1] = "out" THEN r ELSE rows[<<"out", h>>]
          /\ rows'[<<"internal", h>>] = IF k[1] = "internal" THEN r ELSE rows[<<"internal", h>>]
          /\ rows'[<<"service_fee", h>>] = IF k[1] = "service_fee" THEN r ELSE rows[<<"service_fee", h>>]
      BY <1>9, <2>2
    <3> QED
      BY <3>1, <1>5, <2>2 DEF RowsOK, Paid, GoodRow
  <2> QED BY <2>1, <2>2
<1>7. NodeInv'
  <2> SUFFICES ASSUME NEW h \in Hashes PROVE NodeOK(h)'
    BY DEF NodeInv
  <2> NodeOK(h)
    BY DEF IInv, NodeInv
  <2>1. CASE h # k[2]
    BY <1>4, <2>1 DEF NodeOK
  <2>2. CASE h = k[2]
    <3>1. /\ rows'[<<"in", h>>] = IF k[1] = "in" THEN r ELSE rows[<<"in", h>>]
          /\ rows'[<<"out", h>>] = IF k[1] = "out" THEN r ELSE rows[<<"out", h>>]
      BY <1>9, <2>2
    <3> QED
      BY <3>1, <1>2, <2>2, KeysOfHash DEF NodeOK, GoodRow
  <2> QED BY <2>1, <2>2
<1>8. RowsStay /\ NodeStays
  BY <1>2 DEF RowsStay, NodeStays
<1> QED BY <1>1, <1>6, <1>7, <1>8

LEMMA Moved ==
  ASSUME pay \in [Payers -> Call], NEW p \in Payers, pay[p].key \in Keys,
         NEW pc \in PayPCs, NEW kind \in Kinds, MoveTo(p, pc, kind)
  PROVE  /\ pay' \in [Payers -> Call]
         /\ pay'[p].pc = pc
         /\ pay'[p].key = <<kind, Hash(p)>>
         /\ Hash(p)' = Hash(p)
         /\ pay'[p].key \in Keys
         /\ pay'[p].wallet = pay[p].wallet
         /\ pay'[p].sent = pay[p].sent
         /\ \A q \in Payers : q # p => pay'[q] = pay[q]
<1> DEFINE key == <<kind, Hash(p)>>
<1>1. key \in Keys
  BY DEF Keys, Hash
<1>2. pay' = [pay EXCEPT ![p].pc = pc, ![p].key = key]
  BY DEF MoveTo
<1>3. key[2] = Hash(p)
  OBVIOUS
<1> HIDE DEF key
<1>4. pay' \in [Payers -> Call]
  BY <1>1, <1>2 DEF Call
<1>5. /\ pay'[p].pc = pc
      /\ pay'[p].key = key
      /\ pay'[p].wallet = pay[p].wallet
      /\ pay'[p].sent = pay[p].sent
      /\ \A q \in Payers : q # p => pay'[q] = pay[q]
  BY <1>2 DEF Call
<1>6. Hash(p)' = Hash(p)
  BY <1>3, <1>5 DEF Hash
<1> QED
  BY <1>1, <1>4, <1>5, <1>6 DEF key

LEMMA Left ==
  ASSUME pay \in [Payers -> Call], NEW p \in Payers, Leave(p)
  PROVE  /\ pay' \in [Payers -> Call]
         /\ pay'[p].pc = "idle"
         /\ dbLock' = Free
         /\ \A q \in Payers : q # p => pay'[q] = pay[q]
<1>1. IdleCall \in Call /\ IdleCall.pc = "idle"
  BY DEF IdleCall, Call, PayPCs
<1> HIDE DEF IdleCall
<1> QED
  BY <1>1 DEF Leave

-----------------------------------------------------------------------------
LEMMA CopyStays ==
  ASSUME NEW item \in Items, RowsStay, NodeStays
  PROVE  /\ PendingCopy(item) => PendingCopy(item)'
         /\ VerdictCopy(item) => VerdictCopy(item)'
<1>1. item[1] \in Keys /\ item[1][2] \in Hashes
  BY KeyParts DEF Items
<1>2. PendingCopy(item) => PendingCopy(item)'
  BY <1>1 DEF PendingCopy, RowsStay
<1>3. Settled(item[1]) => Settled(item[1])'
  BY <1>1 DEF Settled, NodeStays
<1>4. node[item[1][2]].payment = "failed" => node'[item[1][2]].payment = "failed"
  BY <1>1 DEF NodeStays
<1>5. VerdictCopy(item) => VerdictCopy(item)'
  BY <1>1, <1>3, <1>4 DEF VerdictCopy, RowsStay
<1> QED
  BY <1>2, <1>5

LEMMA CheckerKept ==
  ASSUME IInv, RowsStay, NodeStays, NEW c \in Checkers, check'[c] = check[c]
  PROVE  /\ \A item \in check'[c].todo : PendingCopy(item)'
         /\ \A item \in check'[c].writing : VerdictCopy(item)'
<1>1. check[c].todo \subseteq Items /\ check[c].writing \subseteq Items
  BY DEF IInv, TypeOK
<1> QED
  BY <1>1, CopyStays DEF IInv, CopiesInv

LEMMA PagerKept ==
  ASSUME IInv, RowsStay, NodeStays, NEW g \in Pagers, page'[g] \subseteq page[g]
  PROVE  \A item \in page'[g] : PendingCopy(item)'
<1>1. page[g] \subseteq Items
  BY DEF IInv, TypeOK
<1> QED
  BY <1>1, CopyStays DEF IInv, CopiesInv

LEMMA ProducerKept ==
  ASSUME IInv, RowsStay, producer' \subseteq producer
  PROVE  ProducerOK'
<1>1. \A item \in producer : item[1] \in Keys
  BY DEF IInv, TypeOK, Items
<1> QED
  BY <1>1 DEF IInv, CopiesInv, ProducerOK, RowsStay

LEMMA CopiesKept ==
  ASSUME IInv, RowsStay, NodeStays, UNCHANGED <<check, page, producer>>
  PROVE  CopiesInv'
BY CheckerKept, PagerKept, ProducerKept DEF CopiesInv, ProducerOK

\* A call outside the lock is disturbed by nobody.
LEMMA CallAside ==
  ASSUME IInv, RowsStay, NEW p \in Payers, dbLock # p, pay'[p] = pay[p]
  PROVE  CallOK(p)'
<1>1. CallOK(p)
  BY DEF IInv, CallsInv
<1>2. pay[p].pc \in {"idle", "checked"}
  BY <1>1 DEF CallOK, UnderLock, IInv, TypeOK, Call
<1>3. Hash(p)' = Hash(p)
  BY DEF Hash
<1>4. CASE pay[p].pc = "idle"
  BY <1>4 DEF CallOK, UnderLock
<1>5. CASE pay[p].pc = "checked"
  <2>1. pay[p].key \in Keys /\ Hash(p) \in Hashes
    BY <1>1, <1>5, KeyParts DEF CallOK, Hash
  <2>2. <<"in", Hash(p)>> \in Keys
    BY <2>1, KeysOfHash
  <2> QED
    BY <1>1, <1>3, <1>5, <2>1, <2>2 DEF CallOK, UnderLock, RowsStay
<1> QED
  BY <1>2, <1>4, <1>5

\* Nor is any call by a step that leaves the ledger, the lock and it alone.
LEMMA CallKept ==
  ASSUME IInv, NEW p \in Payers, pay'[p] = pay[p], UNCHANGED <<rows, dbLock>>,
         \A h \in Hashes : node'[h].requests = node[h].requests
  PROVE  CallOK(p)'
<1>1. CallOK(p)
  BY DEF IInv, CallsInv
<1>2. Hash(p)' = Hash(p)
  BY DEF Hash
<1>3. pay[p].pc = "waiting" => Hash(p) \in Hashes
  BY <1>1, KeyParts DEF CallOK, Hash
<1> QED
  BY <1>1, <1>2, <1>3 DEF CallOK

-----------------------------------------------------------------------------
LEMMA InitIInv == Init => IInv
<1> SUFFICES ASSUME Init PROVE IInv
  OBVIOUS
<1>1. TypeOK
  BY PaymentConstants DEF Init, TypeOK, NoRow, Row, Keys, Kinds, IdleCall, Call, PayPCs, NodeHash, Items
<1>2. RowsInv /\ NodeInv
  BY DEF Init, RowsInv, RowsOK, NodeInv, NodeOK, NoRow, Keys, Kinds, NodeHash
<1>3. CallsInv /\ CopiesInv
  BY DEF Init, CallsInv, CallOK, CopiesInv, ProducerOK, IdleCall, UnderLock, PayPCs
<1> QED
  BY <1>1, <1>2, <1>3 DEF IInv

LEMMA CreateInvoiceStep ==
  ASSUME IInv, NEW h \in Hashes, create_invoice(h)
  PROVE  IInv'
<1> DEFINE k == <<"in", h>>
           r == NewRow("pending", Issuer[h], Amount[h], 0)
<1>1. /\ r \in Row
      /\ r.status = "pending"
      /\ r.amount > 0
  <2>1. Issuer[h] \in Wallets \cup {NoWallet} /\ Amount[h] \in Int /\ Amount[h] > 0
    BY PaymentConstants
  <2> QED
    BY <2>1, NewRowTyped
<1>2. /\ Issuer[h] # NoWallet
      /\ dbLock = Free
      /\ rows[k].status = "none"
      /\ rows' = [rows EXCEPT ![k] = r]
      /\ node' = [node EXCEPT ![h].invoice = "open"]
      /\ UNCHANGED <<dbLock, pay, check, page, producer, announced, stream, expired, crashes>>
  BY KeysOfHash DEF create_invoice, create_payment, MayCreate, Stored, taskVars
<1> HIDE DEF r
<1>3. /\ rows' \in [Keys -> Row]
      /\ rows'[k] = r
      /\ \A j \in Keys : j # k => rows'[j] = rows[j]
  BY <1>1, <1>2, KeysOfHash DEF IInv, TypeOK
<1>4. /\ node' \in [Hashes -> NodeHash]
      /\ \A i \in Hashes : /\ node'[i].payment = node[i].payment
                           /\ node'[i].requests = node[i].requests
                           /\ i # h => node'[i] = node[i]
  BY <1>2 DEF IInv, TypeOK, NodeHash
<1>5. node[h].invoice = "none"
  BY <1>2 DEF IInv, NodeInv, NodeOK
<1>6. RowsStay /\ NodeStays
  BY <1>2, <1>3, <1>4, <1>5 DEF RowsStay, NodeStays
<1>7. TypeOK'
  BY <1>2, <1>3, <1>4 DEF IInv, TypeOK
<1>8. \A i \in Hashes : /\ rows'[<<"in", i>>] = IF i = h THEN r ELSE rows[<<"in", i>>]
                        /\ rows'[<<"out", i>>] = rows[<<"out", i>>]
                        /\ rows'[<<"internal", i>>] = rows[<<"internal", i>>]
                        /\ rows'[<<"service_fee", i>>] = rows[<<"service_fee", i>>]
  BY <1>3, KeysOfHash
<1>9. RowsInv'
  <2> SUFFICES ASSUME NEW i \in Hashes PROVE RowsOK(i)'
    BY DEF RowsInv
  <2>1. RowsOK(i)
    BY DEF IInv, RowsInv
  <2>2. CASE i = h
    BY <1>1, <1>2, <1>8, <2>1, <2>2 DEF RowsOK
  <2>3. CASE i # h
    BY <1>4, <1>8, <2>1, <2>3 DEF RowsOK, Paid
  <2> QED
    BY <2>2, <2>3
<1>10. NodeInv'
  <2> SUFFICES ASSUME NEW i \in Hashes PROVE NodeOK(i)'
    BY DEF NodeInv
  <2>1. NodeOK(i)
    BY DEF IInv, NodeInv
  <2>2. CASE i = h
    BY <1>1, <1>4, <1>8, <2>1, <2>2 DEF NodeOK
  <2>3. CASE i # h
    BY <1>4, <1>8, <2>1, <2>3 DEF NodeOK
  <2> QED
    BY <2>2, <2>3
<1>11. CallsInv'
  BY <1>2, <1>6, CallAside, PaymentConstants DEF CallsInv
<1>12. CopiesInv'
  BY <1>2, <1>6, CopiesKept
<1> QED
  BY <1>7, <1>9, <1>10, <1>11, <1>12 DEF IInv

-----------------------------------------------------------------------------
\* The calls of pay_invoice.  A step of p finds the lock free or its own.
LEMMA CallsMoved ==
  ASSUME IInv, RowsStay, NEW p \in Payers, dbLock \in {p, Free},
         \A q \in Payers : q # p => pay'[q] = pay[q], CallOK(p)'
  PROVE  CallsInv'
<1>1. \A q \in Payers : q # p => dbLock # q
  BY PaymentConstants
<1> QED
  BY <1>1, CallAside DEF CallsInv

LEMMA CallMoves ==
  ASSUME IInv, RowsStay, NEW p \in Payers, pay[p].pc # "idle",
         NEW pc \in UnderLock, NEW kind \in Kinds, MoveTo(p, pc, kind),
         dbLock' = p, dbLock \in {p, Free},
         pc = "debited" =>
           /\ rows'[<<"internal", Hash(p)>>].status = "success"
           /\ rows'[<<"in", Hash(p)>>].status # "none",
         pc = "verify" => rows'[<<kind, Hash(p)>>].status = "failed",
         pc = "waiting" =>
           /\ kind = "out"
           /\ rows'[<<kind, Hash(p)>>].status = "pending"
           /\ ~pay[p].sent => node'[Hash(p)].requests = 0
  PROVE  CallsInv' /\ pay' \in [Payers -> Call] /\ dbLock' \in Payers
<1>1. CallOK(p) /\ pay \in [Payers -> Call]
  BY DEF IInv, CallsInv, TypeOK
<1>2. pay[p].key \in Keys /\ Hash(p) \in Hashes /\ pay[p].wallet \in Wallets
  BY <1>1, KeyParts DEF CallOK, Hash
<1>3. pc \in PayPCs /\ pc \notin {"idle", "checked"}
  BY DEF UnderLock
<1>4. /\ pay' \in [Payers -> Call]
      /\ pay'[p].pc = pc
      /\ pay'[p].key = <<kind, Hash(p)>>
      /\ Hash(p)' = Hash(p)
      /\ pay'[p].key \in Keys
      /\ pay'[p].wallet = pay[p].wallet
      /\ pay'[p].sent = pay[p].sent
      /\ \A q \in Payers : q # p => pay'[q] = pay[q]
  BY <1>1, <1>2, <1>3, Moved
<1>5. Issuer[Hash(p)] # NoWallet => rows'[<<"in", Hash(p)>>].status # "none"
  BY <1>1, <1>2, KeysOfHash DEF CallOK, RowsStay
<1>6. CallOK(p)'
  BY <1>2, <1>4, <1>5 DEF CallOK
<1> QED
  BY <1>4, <1>6, CallsMoved

LEMMA CallLeaves ==
  ASSUME IInv, RowsStay, NEW p \in Payers, Leave(p), dbLock \in {p, Free}
  PROVE  CallsInv' /\ pay' \in [Payers -> Call] /\ dbLock' = Free
<1>1. /\ pay' \in [Payers -> Call]
      /\ pay'[p].pc = "idle"
      /\ dbLock' = Free
      /\ \A q \in Payers : q # p => pay'[q] = pay[q]
  BY Left DEF IInv, TypeOK
<1>2. CallOK(p)'
  BY <1>1 DEF CallOK, UnderLock
<1> QED
  BY <1>1, <1>2, CallsMoved

LEMMA CallFacts ==
  ASSUME IInv, NEW p \in Payers, pay[p].pc # "idle"
  PROVE  /\ CallOK(p)
         /\ pay[p] \in Call
         /\ pay[p].key \in Keys
         /\ pay[p].key = <<pay[p].key[1], Hash(p)>>
         /\ pay[p].key[1] \in Kinds
         /\ pay[p].wallet \in Wallets
         /\ Hash(p) \in Hashes
         /\ RowsOK(Hash(p))
         /\ NodeOK(Hash(p))
         /\ Amount[Hash(p)] \in Nat /\ Amount[Hash(p)] > 0
<1>1. CallOK(p) /\ pay[p] \in Call
  BY DEF IInv, CallsInv, TypeOK
<1>2. pay[p].key \in Keys /\ pay[p].wallet \in Wallets
  BY <1>1 DEF CallOK
<1>3. /\ pay[p].key = <<pay[p].key[1], Hash(p)>>
      /\ Hash(p) \in Hashes
      /\ pay[p].key[1] \in Kinds
  BY <1>2, KeyParts DEF Hash, Kinds
<1>4. Amount[Hash(p)] \in Nat /\ Amount[Hash(p)] > 0
  BY <1>3, PaymentConstants
<1> QED
  BY <1>1, <1>2, <1>3, <1>4 DEF IInv, RowsInv, NodeInv

LEMMA InternalIsLocal ==
  ASSUME IInv, NEW p \in Payers, pay[p].pc # "idle", Internal(p)
  PROVE  rows[<<"in", Hash(p)>>].status = "pending"
<1> DEFINE h == Hash(p)
<1>1. h \in Hashes /\ RowsOK(h)
  BY CallFacts
<1>2. PICK k \in Keys : k[2] = h /\ rows[k].status = "pending" /\ rows[k].amount > 0
  BY DEF Internal, check_internal, OfHash, Stored
<1>3. /\ rows[<<"out", h>>].amount > 0 => rows[<<"out", h>>].status = "none"
      /\ rows[<<"internal", h>>].status # "pending"
      /\ rows[<<"service_fee", h>>].status # "pending"
  <2>1. rows[<<"out", h>>].amount \in Int
    BY <1>1, KeysOfHash DEF IInv, TypeOK, Row
  <2> QED
    BY <1>1, <2>1 DEF RowsOK
<1> QED
  BY <1>2, <1>3, KeyParts

LEMMA PayCheckStep ==
  ASSUME IInv, NEW p \in Payers, NEW w \in Wallets, NEW h \in Hashes,
         NEW genuine \in BOOLEAN, PayCheck(p, w, h, genuine)
  PROVE  IInv'
<1> DEFINE call == [pc |-> "checked", wallet |-> w, key |-> <<"out", h>>,
                    genuine |-> genuine, sent |-> FALSE]
<1>1. /\ dbLock = Free
      /\ Issuer[h] # NoWallet => rows[<<"in", h>>].status # "none"
      /\ pay' = [pay EXCEPT ![p] = call]
      /\ UNCHANGED <<rows, dbLock, check, page, producer, announced, node, stream, expired, crashes>>
  BY DEF PayCheck, Stored, nodeVars
<1>2. <<"out", h>> \in Keys
  BY KeysOfHash
<1>3. call \in Call
  BY <1>2 DEF Call, PayPCs
<1>4. /\ pay' \in [Payers -> Call]
      /\ pay'[p] = call
      /\ \A q \in Payers : q # p => pay'[q] = pay[q]
  BY <1>1, <1>3 DEF IInv, TypeOK
<1>5. RowsStay /\ NodeStays /\ RowsInv' /\ NodeInv'
  BY <1>1, LedgerKept
<1>6. TypeOK'
  BY <1>1, <1>4 DEF IInv, TypeOK
<1>7. CallOK(p)'
  BY <1>1, <1>2, <1>4 DEF CallOK, Hash, UnderLock
<1>8. CallsInv'
  BY <1>1, <1>4, <1>5, <1>7, CallsMoved
<1> QED
  BY <1>1, <1>5, <1>6, <1>8, CopiesKept DEF IInv

LEMMA PayRejectedStep ==
  ASSUME IInv, NEW p \in Payers, PayRejected(p)
  PROVE  IInv'
<1>1. /\ dbLock = Free
      /\ Leave(p)
      /\ UNCHANGED <<rows, check, page, producer, announced, node, stream, expired, crashes>>
  BY DEF PayRejected, Enter, nodeVars
<1>2. RowsStay /\ NodeStays /\ RowsInv' /\ NodeInv'
  BY <1>1, LedgerKept
<1>3. CallsInv' /\ pay' \in [Payers -> Call] /\ dbLock' = Free
  BY <1>1, <1>2, CallLeaves
<1>4. TypeOK'
  BY <1>1, <1>3 DEF IInv, TypeOK
<1> QED
  BY <1>1, <1>2, <1>3, <1>4, CopiesKept DEF IInv

LEMMA PayInternalDebitStep ==
  ASSUME IInv, NEW p \in Payers, PayInternalDebit(p)
  PROVE  IInv'
<1> DEFINE h == Hash(p)
           k == <<"internal", h>>
           r == NewRow("success", pay[p].wallet, -Amount[h], fee_reserve_total(Amount[h], TRUE))
<1>1. /\ dbLock = Free
      /\ pay[p].pc = "checked"
      /\ Internal(p)
      /\ rows' = [rows EXCEPT ![k] = r]
      /\ MoveTo(p, "debited", "internal")
      /\ dbLock' = p
      /\ UNCHANGED <<check, page, producer, announced, node, stream, expired, crashes>>
  BY DEF PayInternalDebit, Enter, create_payment, nodeVars
<1>2. /\ h \in Hashes
      /\ pay[p].wallet \in Wallets
      /\ Amount[h] \in Nat
      /\ Amount[h] > 0
      /\ RowsOK(h)
      /\ rows[<<"in", h>>].status = "pending"
  BY <1>1, CallFacts, InternalIsLocal
<1>4. /\ r \in Row
      /\ r.status = "success"
      /\ r.amount < 0
  BY <1>2, DebitRowTyped
<1>5. k \in Keys /\ k[1] = "internal" /\ k[2] = h
  BY <1>2, KeysOfHash
<1> HIDE DEF r, k
<1>6. GoodRow(k, r)
  BY <1>2, <1>4, <1>5 DEF GoodRow, RowsOK
<1>7. /\ rows' \in [Keys -> Row]
      /\ rows'[k] = r
      /\ RowsStay
      /\ NodeStays
      /\ RowsInv'
      /\ NodeInv'
  BY <1>1, <1>4, <1>5, <1>6, LedgerWrite
<1>8. rows'[<<"in", h>>].status # "none"
  BY <1>2, <1>7, KeysOfHash DEF RowsStay
<1>9. rows'[<<"internal", h>>].status = "success"
  BY <1>4, <1>7 DEF k
<1>10. CallsInv' /\ pay' \in [Payers -> Call] /\ dbLock' \in Payers
  BY <1>1, <1>7, <1>8, <1>9, CallMoves DEF UnderLock, PayPCs, Kinds
<1>11. TypeOK'
  BY <1>1, <1>7, <1>10 DEF IInv, TypeOK
<1> QED
  BY <1>1, <1>7, <1>10, <1>11, CopiesKept DEF IInv

LEMMA StatusCopy ==
  ASSUME NEW r \in Row, NEW s \in {"pending", "success", "failed"}
  PROVE  LET c == [r EXCEPT !.status = s]
         IN  c \in Row /\ c.status = s /\ c.amount = r.amount
BY DEF Row

LEMMA FailedCopy ==
  ASSUME NEW r \in Row
  PROVE  /\ Failed(r) \in Row
         /\ Failed(r).status = "failed"
         /\ Failed(r).amount = r.amount
BY StatusCopy DEF Failed

LEMMA SuccessCopy ==
  ASSUME NEW r \in Row, NEW k \in Keys, node \in [Hashes -> NodeHash]
  PROVE  LET c == update_payment_success_status(r, node_fee(k))
         IN  c \in Row /\ c.status = "success" /\ c.amount = r.amount
<1>1. node_fee(k) \in Int
  BY KeyParts DEF node_fee, NodeHash
<1>2. Abs(node_fee(k)) \in Nat
  BY <1>1, AbsIsNatural
<1>3. r.amount \in Int
  BY DEF Row
<1>4. service_fee(r.amount, FALSE) \in Nat
  BY <1>3, FeesAreNatural
<1> DEFINE f == Abs(node_fee(k)) + service_fee(r.amount, FALSE)
<1>5. f \in Nat
  <2>1. \A a, b \in Nat : a + b \in Nat
    OBVIOUS
  <2> QED
    BY <1>2, <1>4, <2>1, Zenon
<1> HIDE DEF f
<1>6. LET c == [r EXCEPT !.status = "success", !.fee = f]
      IN  c \in Row /\ c.status = "success" /\ c.amount = r.amount
  BY <1>5 DEF Row
<1> QED
  BY <1>6 DEF update_payment_success_status, f

LEMMA PayInternalCreditStep ==
  ASSUME IInv, NEW p \in Payers, PayInternalCredit(p)
  PROVE  IInv'
<1> DEFINE h == Hash(p)
           k == <<"in", h>>
           r == [rows[k] EXCEPT !.status = "success"]
<1>1. /\ pay[p].pc = "debited"
      /\ rows' = [rows EXCEPT ![k] = r]
      /\ announced' = announced \cup {k}
      /\ MoveTo(p, "credit_fee", "internal")
      /\ UNCHANGED <<dbLock, check, page, producer, node, stream, expired, crashes>>
  BY DEF PayInternalCredit, update_payment, nodeVars
<1>2. /\ h \in Hashes
      /\ RowsOK(h)
      /\ rows[<<"internal", h>>].status = "success"
      /\ rows[<<"in", h>>].status # "none"
      /\ dbLock = p
  BY <1>1, CallFacts DEF CallOK, UnderLock, PayPCs
<1>3. k \in Keys /\ k[1] = "in" /\ k[2] = h
  BY <1>2, KeysOfHash
<1>4. rows[k] \in Row
  BY <1>3 DEF IInv, TypeOK
<1>5. r \in Row /\ r.status = "success" /\ r.amount = rows[k].amount
  BY <1>4, StatusCopy
<1>6. Issuer[h] # NoWallet /\ rows[k].amount > 0 /\ Paid(h)
  BY <1>2 DEF RowsOK, Paid
<1> HIDE DEF r, k
<1>7. GoodRow(k, r)
  BY <1>3, <1>5, <1>6 DEF GoodRow
<1>8. /\ rows' \in [Keys -> Row]
      /\ RowsStay
      /\ NodeStays
      /\ RowsInv'
      /\ NodeInv'
  BY <1>1, <1>3, <1>5, <1>7, LedgerWrite
<1>9. CallsInv' /\ pay' \in [Payers -> Call] /\ dbLock' \in Payers
  BY <1>1, <1>2, <1>8, CallMoves DEF UnderLock, PayPCs, Kinds
<1>10. TypeOK'
  BY <1>1, <1>3, <1>8, <1>9 DEF IInv, TypeOK
<1> QED
  BY <1>1, <1>8, <1>9, <1>10, CopiesKept DEF IInv

LEMMA HashIsFree ==
  ASSUME NEW h \in Hashes, NEW kind \in {"in", "out"}, MayCreate(rows, <<kind, h>>)
  PROVE  rows[<<"in", h>>].status = "none" /\ rows[<<"out", h>>].status = "none"
<1>1. OfHash(rows, h) = {}
  BY DEF MayCreate
<1>2. \A j \in Keys : j[2] = h => rows[j].status = "none"
  BY <1>1 DEF OfHash, Stored
<1> QED
  BY <1>2, KeysOfHash

LEMMA PayExternalStep ==
  ASSUME IInv, NEW p \in Payers, PayExternal(p)
  PROVE  IInv'
<1> DEFINE h == Hash(p)
           k == <<"out", h>>
           r == NewRow("pending", pay[p].wallet, -Amount[h], fee_reserve_total(Amount[h], FALSE))
<1>1. /\ dbLock = Free
      /\ pay[p].pc = "checked"
      /\ MayCreate(rows, k)
      /\ rows' = [rows EXCEPT ![k] = r]
      /\ MoveTo(p, "waiting", "out")
      /\ dbLock' = p
      /\ UNCHANGED <<check, page, producer, announced, node, stream, expired, crashes>>
  BY DEF PayExternal, Enter, create_payment, nodeVars
<1>2. /\ h \in Hashes
      /\ pay[p].wallet \in Wallets
      /\ Amount[h] \in Nat
      /\ Amount[h] > 0
      /\ CallOK(p)
      /\ NodeOK(h)
  BY <1>1, CallFacts
<1>3. k \in Keys /\ k[1] = "out" /\ k[2] = h
  BY <1>2, KeysOfHash
<1>4. rows[<<"in", h>>].status = "none" /\ rows[k].status = "none"
  BY <1>1, <1>2, <1>3, HashIsFree
<1>5. Issuer[h] = NoWallet
  BY <1>1, <1>2, <1>4 DEF CallOK
<1>6. node[h].requests = 0
  BY <1>2, <1>4 DEF NodeOK
<1>7. /\ r \in Row
      /\ r.status = "pending"
      /\ r.amount < 0
  BY <1>2, DebitRowTyped
<1> HIDE DEF r, k
<1>8. GoodRow(k, r)
  BY <1>3, <1>5, <1>7 DEF GoodRow
<1>9. /\ rows' \in [Keys -> Row]
      /\ rows'[k] = r
      /\ RowsStay
      /\ NodeStays
      /\ RowsInv'
      /\ NodeInv'
  BY <1>1, <1>3, <1>7, <1>8, LedgerWrite
<1>10. rows'[<<"out", h>>].status = "pending"
  BY <1>7, <1>9 DEF k
<1>11. CallsInv' /\ pay' \in [Payers -> Call] /\ dbLock' \in Payers
  BY <1>1, <1>6, <1>9, <1>10, CallMoves DEF UnderLock, PayPCs, Kinds
<1>12. TypeOK'
  BY <1>1, <1>9, <1>11 DEF IInv, TypeOK
<1> QED
  BY <1>1, <1>9, <1>11, <1>12, CopiesKept DEF IInv

LEMMA PayVerifyStep ==
  ASSUME IInv, NEW p \in Payers, PayVerify(p)
  PROVE  IInv'
<1>1. PICK k \in Keys :
        /\ k[2] = Hash(p)
        /\ rows[k].status = "failed"
        /\ MoveTo(p, "verify", k[1])
  BY DEF PayVerify, get_standalone_payment, OfHash, Stored
<1>2. /\ dbLock = Free
      /\ pay[p].pc = "checked"
      /\ dbLock' = p
      /\ UNCHANGED <<rows, check, page, producer, announced, node, stream, expired, crashes>>
  BY DEF PayVerify, Enter, nodeVars
<1>3. RowsStay /\ NodeStays /\ RowsInv' /\ NodeInv'
  BY <1>2, LedgerKept
<1>4. k[1] \in Kinds /\ k = <<k[1], Hash(p)>>
  BY <1>1, KeyParts DEF Kinds
<1>5. rows'[<<k[1], Hash(p)>>].status = "failed"
  BY <1>1, <1>2, <1>4
<1>6. CallsInv' /\ pay' \in [Payers -> Call] /\ dbLock' \in Payers
  BY <1>1, <1>2, <1>3, <1>4, <1>5, CallMoves DEF UnderLock, PayPCs
<1>7. TypeOK'
  BY <1>2, <1>6 DEF IInv, TypeOK
<1> QED
  BY <1>2, <1>3, <1>6, <1>7, CopiesKept DEF IInv

\* What the write of one row, or of none, leaves of the ledger.
LedgerOK ==
  /\ rows' \in [Keys -> Row]
  /\ RowsStay
  /\ NodeStays
  /\ RowsInv'
  /\ NodeInv'

OthersKept == UNCHANGED <<check, page, producer, announced, node, stream, expired, crashes>>

LEMMA CallReturns ==
  ASSUME IInv, LedgerOK, NEW p \in Payers, dbLock = p, Leave(p), OthersKept
  PROVE  IInv'
<1>1. CallsInv' /\ pay' \in [Payers -> Call] /\ dbLock' = Free
  BY CallLeaves DEF LedgerOK
<1>2. TypeOK'
  BY <1>1 DEF IInv, TypeOK, LedgerOK, OthersKept
<1> QED
  BY <1>1, <1>2, CopiesKept DEF IInv, LedgerOK, OthersKept

LEMMA CallGoesOn ==
  ASSUME IInv, LedgerOK, NEW p \in Payers, dbLock = p, dbLock' = dbLock,
         pay[p].pc # "idle", NEW kind \in Kinds, MoveTo(p, "credit_fee", kind),
         OthersKept
  PROVE  IInv'
<1>1. CallsInv' /\ pay' \in [Payers -> Call] /\ dbLock' \in Payers
  BY CallMoves DEF UnderLock, PayPCs, LedgerOK
<1>2. TypeOK'
  BY <1>1 DEF IInv, TypeOK, LedgerOK, OthersKept
<1> QED
  BY <1>1, <1>2, CopiesKept DEF IInv, LedgerOK, OthersKept

LEMMA LedgerWriteOK ==
  ASSUME IInv, NEW k \in Keys, NEW r \in Row, GoodRow(k, r),
         rows' = [rows EXCEPT ![k] = r], UNCHANGED node
  PROVE  LedgerOK
BY LedgerWrite DEF LedgerOK

LEMMA LedgerKeptOK ==
  ASSUME IInv, UNCHANGED <<rows, node>>
  PROVE  LedgerOK
BY LedgerKept DEF LedgerOK, IInv, TypeOK

\* A row k may be written as paid when the node has settled it.
LEMMA SettledRow ==
  ASSUME IInv, NEW k \in Keys, rows[k].status # "none", Settled(k),
         NEW r \in Row, r.status = "success",
         k[1] = "in" => r.amount > 0, k[1] = "out" => r.amount < 0
  PROVE  GoodRow(k, r)
<1>1. k[2] \in Hashes /\ k = <<k[1], k[2]>> /\ RowsOK(k[2])
  BY KeyParts DEF IInv, RowsInv
<1>2. CASE k[1] = "in"
  BY <1>1, <1>2 DEF GoodRow, RowsOK, Settled, Paid
<1>3. CASE k[1] = "out"
  BY <1>1, <1>3 DEF GoodRow, RowsOK, Settled
<1> QED
  BY <1>2, <1>3 DEF Settled

LEMMA SignOfRow ==
  ASSUME IInv, NEW k \in Keys, rows[k].status # "none"
  PROVE  /\ rows[k] \in Row
         /\ k[1] = "in" => Issuer[k[2]] # NoWallet /\ rows[k].amount > 0
         /\ k[1] = "out" => Issuer[k[2]] = NoWallet /\ rows[k].amount < 0
<1>1. k[2] \in Hashes /\ k = <<k[1], k[2]>> /\ RowsOK(k[2])
  BY KeyParts DEF IInv, RowsInv
<1> QED
  BY <1>1 DEF RowsOK, IInv, TypeOK

LEMMA SettleWrite ==
  ASSUME IInv, NEW k \in Keys, rows[k].status # "none", Settled(k),
         rows' = [rows EXCEPT ![k] = update_payment_success_status(rows[k], node_fee(k))],
         UNCHANGED node
  PROVE  LedgerOK
<1> DEFINE r == update_payment_success_status(rows[k], node_fee(k))
<1>1. /\ rows[k] \in Row
      /\ k[1] = "in" => rows[k].amount > 0
      /\ k[1] = "out" => rows[k].amount < 0
  BY SignOfRow
<1>2. node \in [Hashes -> NodeHash]
  BY DEF IInv, TypeOK
<1>3. r \in Row /\ r.status = "success" /\ r.amount = rows[k].amount
  BY <1>1, <1>2, SuccessCopy
<1> HIDE DEF r
<1>4. GoodRow(k, r)
  BY <1>1, <1>3, SettledRow
<1>5. rows' = [rows EXCEPT ![k] = r]
  BY DEF r
<1> QED
  BY <1>3, <1>4, <1>5, LedgerWriteOK

LEMMA AnswerIsTrue ==
  ASSUME NEW k \in Keys
  PROVE  /\ "success" \in StatusAnswers(k) => Settled(k)
         /\ "failed" \in StatusAnswers(k) =>
              /\ k[1] \in {"in", "out"}
              /\ k[1] = "out" => node[k[2]].payment = "failed"
BY DEF StatusAnswers, Settled

LEMMA VerifyAnswerStep ==
  ASSUME IInv, NEW p \in Payers, VerifyAnswer(p)
  PROVE  IInv'
<1> DEFINE k == pay[p].key
<1>1. pay[p].pc = "verify" /\ OthersKept
  BY DEF VerifyAnswer, OthersKept, nodeVars
<1>2. /\ k \in Keys
      /\ k[1] \in Kinds
      /\ rows[k].status = "failed"
      /\ dbLock = p
  BY <1>1, CallFacts DEF CallOK, UnderLock, PayPCs
<1>3. CASE Leave(p) /\ UNCHANGED rows
  BY <1>1, <1>2, <1>3, LedgerKeptOK, CallReturns DEF OthersKept
<1>4. CASE /\ "success" \in StatusAnswers(k)
           /\ rows' = update_payment(rows, k, update_payment_success_status(rows[k], node_fee(k)))
           /\ Leave(p)
  <2>1. LedgerOK
    BY <1>1, <1>2, <1>4, SettleWrite, AnswerIsTrue DEF update_payment, OthersKept
  <2> QED
    BY <1>1, <1>2, <1>4, <2>1, CallReturns
<1>5. CASE MoveTo(p, "credit_fee", k[1]) /\ UNCHANGED <<rows, dbLock>>
  BY <1>1, <1>2, <1>5, LedgerKeptOK, CallGoesOn DEF OthersKept
<1> QED
  BY <1>3, <1>4, <1>5 DEF VerifyAnswer

LEMMA PayResponseStep ==
  ASSUME IInv, NEW p \in Payers, PayResponse(p)
  PROVE  IInv'
<1> DEFINE h == Hash(p)
           k == <<"out", h>>
<1>1. pay[p].pc = "waiting" /\ OthersKept
  BY DEF PayResponse, OthersKept, nodeVars
<1>2. /\ h \in Hashes
      /\ pay[p].key = k
      /\ rows[k].status = "pending"
      /\ dbLock = p
  BY <1>1, CallFacts DEF CallOK, UnderLock, PayPCs
<1>3. k \in Keys /\ k[1] = "out" /\ k[2] = h
  BY <1>2, KeysOfHash
<1>4. CASE /\ node[h].payment = "settled"
           /\ rows' = update_payment(rows, k, update_payment_success_status(rows[k], node_fee(k)))
           /\ MoveTo(p, "credit_fee", "out")
           /\ UNCHANGED dbLock
  <2>1. Settled(k)
    BY <1>4 DEF Settled
  <2>2. LedgerOK
    BY <1>1, <1>2, <1>3, <1>4, <2>1, SettleWrite DEF update_payment, OthersKept
  <2> QED
    BY <1>1, <1>2, <1>4, <2>2, CallGoesOn DEF Kinds
<1>5. CASE /\ node[h].payment = "failed"
           /\ rows' = update_payment(rows, k, Failed(rows[k]))
           /\ Leave(p)
  <2>1. rows[k] \in Row /\ Issuer[h] = NoWallet /\ rows[k].amount < 0
    BY <1>2, <1>3, SignOfRow
  <2>2. /\ Failed(rows[k]) \in Row
        /\ Failed(rows[k]).status = "failed"
        /\ Failed(rows[k]).amount = rows[k].amount
    BY <2>1, FailedCopy
  <2>3. GoodRow(k, Failed(rows[k]))
    BY <1>3, <1>5, <2>1, <2>2 DEF GoodRow
  <2>4. LedgerOK
    BY <1>1, <1>3, <1>5, <2>2, <2>3, LedgerWriteOK DEF update_payment, OthersKept
  <2> QED
    BY <1>1, <1>2, <1>5, <2>4, CallReturns
<1>6. CASE Leave(p) /\ UNCHANGED rows
  BY <1>1, <1>2, <1>6, LedgerKeptOK, CallReturns DEF OthersKept
<1> QED
  BY <1>2, <1>4, <1>5, <1>6 DEF PayResponse

LEMMA PayTimeoutStep ==
  ASSUME IInv, NEW p \in Payers, PayTimeout(p)
  PROVE  IInv'
<1>1. /\ pay[p].pc = "waiting"
      /\ MoveTo(p, "credit_fee", "out")
      /\ UNCHANGED <<rows, dbLock>>
      /\ OthersKept
  BY DEF PayTimeout, OthersKept, nodeVars
<1>2. dbLock = p
  BY <1>1, CallFacts DEF CallOK, UnderLock, PayPCs
<1> QED
  BY <1>1, <1>2, LedgerKeptOK, CallGoesOn DEF OthersKept, Kinds

LEMMA CreditServiceFeeStep ==
  ASSUME IInv, NEW p \in Payers, CreditServiceFee(p)
  PROVE  IInv'
<1> DEFINE k == <<"service_fee", Hash(p)>>
           r == NewRow("success", FeeWallet, FeeDue(p), 0)
<1>1. /\ pay[p].pc = "credit_fee"
      /\ Leave(p)
      /\ OthersKept
      /\ rows' = [rows EXCEPT ![k] = r] \/ rows' = rows
  BY DEF CreditServiceFee, create_payment, OthersKept, nodeVars
<1>2. /\ dbLock = p
      /\ Hash(p) \in Hashes
      /\ pay[p].key \in Keys
  BY <1>1, CallFacts DEF CallOK, UnderLock, PayPCs
<1>3. k \in Keys /\ k[1] = "service_fee"
  BY <1>2, KeysOfHash
<1>4. FeeDue(p) \in Int
  <2>1. rows[pay[p].key].amount \in Int
    BY <1>2 DEF IInv, TypeOK, Row
  <2>2. is_internal(pay[p].key) \in BOOLEAN
    BY DEF is_internal
  <2> QED
    BY <2>1, <2>2, FeesAreNatural DEF FeeDue
<1>5. r \in Row /\ r.status = "success"
  BY <1>4, LedgerConstants, NewRowTyped
<1> HIDE DEF r, k
<1>6. GoodRow(k, r)
  BY <1>3, <1>5 DEF GoodRow
<1>7. LedgerOK
  BY <1>1, <1>3, <1>5, <1>6, LedgerWriteOK, LedgerKeptOK DEF OthersKept
<1> QED
  BY <1>1, <1>2, <1>7, CallReturns

LEMMA FundingSourcePayStep ==
  ASSUME IInv, NEW p \in Payers, FundingSourcePay(p)
  PROVE  IInv'
<1> DEFINE h == Hash(p)
<1>1. /\ pay[p].pc = "waiting"
      /\ ~pay[p].sent
      /\ pay' = [pay EXCEPT ![p].sent = TRUE]
      /\ node' = [node EXCEPT ![h].requests = @ + 1,
                              ![h].payment = IF @ = "none" THEN "inflight" ELSE @]
      /\ UNCHANGED <<rows, dbLock, check, page, producer, announced, stream, expired, crashes>>
  BY DEF FundingSourcePay
<1>2. /\ h \in Hashes
      /\ CallOK(p)
      /\ NodeOK(h)
      /\ dbLock = p
      /\ pay[p].key = <<"out", h>>
      /\ rows[<<"out", h>>].status = "pending"
      /\ node[h].requests = 0
      /\ node[h].payment = "none"
  BY <1>1, CallFacts DEF CallOK, NodeOK, UnderLock, PayPCs
<1>3. node \in [Hashes -> NodeHash] /\ pay \in [Payers -> Call]
  BY DEF IInv, TypeOK
<1>4. /\ node' \in [Hashes -> NodeHash]
      /\ node'[h].requests = 1
      /\ node'[h].payment = "inflight"
      /\ node'[h].invoice = node[h].invoice
      /\ \A i \in Hashes : i # h => node'[i] = node[i]
  BY <1>1, <1>2, <1>3 DEF NodeHash
<1>5. /\ pay' \in [Payers -> Call]
      /\ pay'[p].pc = "waiting"
      /\ pay'[p].sent
      /\ pay'[p].key = pay[p].key
      /\ pay'[p].wallet = pay[p].wallet
      /\ \A q \in Payers : q # p => pay'[q] = pay[q]
  BY <1>1, <1>3 DEF Call
<1>6. RowsStay /\ NodeStays
  BY <1>1, <1>2, <1>4 DEF RowsStay, NodeStays
<1>7. TypeOK'
  BY <1>1, <1>4, <1>5 DEF IInv, TypeOK
<1>8. RowsInv'
  <2> SUFFICES ASSUME NEW i \in Hashes PROVE RowsOK(i)'
    BY DEF RowsInv
  <2>1. RowsOK(i) /\ node'[i].invoice = node[i].invoice
    BY <1>4 DEF IInv, RowsInv
  <2> QED
    BY <1>1, <2>1 DEF RowsOK, Paid
<1>9. NodeInv'
  <2> SUFFICES ASSUME NEW i \in Hashes PROVE NodeOK(i)'
    BY DEF NodeInv
  <2>1. NodeOK(i)
    BY DEF IInv, NodeInv
  <2>2. CASE i = h
    BY <1>1, <1>2, <1>4, <2>1, <2>2 DEF NodeOK
  <2>3. CASE i # h
    BY <1>1, <1>4, <2>1, <2>3 DEF NodeOK
  <2> QED
    BY <2>2, <2>3
<1>10. CallOK(p)'
  <2>1. Hash(p)' = h
    BY <1>5 DEF Hash
  <2> QED
    BY <1>1, <1>2, <1>5, <2>1 DEF CallOK, UnderLock
<1>11. CallsInv'
  BY <1>2, <1>5, <1>6, <1>10, CallsMoved
<1> QED
  BY <1>1, <1>6, <1>7, <1>8, <1>9, <1>11, CopiesKept DEF IInv

-----------------------------------------------------------------------------
\* The tasks that check payments.
ChecksTyped ==
  /\ dbLock' \in Payers \cup Pagers \cup {Free}
  /\ check' \in [Checkers -> [todo : SUBSET Items, writing : SUBSET Items]]
  /\ page' \in [Pagers -> SUBSET Items]
  /\ producer' \in SUBSET Items
  /\ announced' \in SUBSET Keys

LEMMA AsideStep ==
  ASSUME IInv, LedgerOK, UNCHANGED <<pay, node, expired, crashes>>,
         stream' \subseteq stream, ChecksTyped, CopiesInv',
         dbLock \notin Payers \/ UNCHANGED <<rows, dbLock>>
  PROVE  IInv'
<1>1. TypeOK'
  BY DEF IInv, TypeOK, LedgerOK, ChecksTyped
<1>2. CallsInv'
  BY CallAside, CallKept DEF CallsInv, LedgerOK
<1> QED
  BY <1>1, <1>2 DEF IInv, LedgerOK

LEMMA PendingRowCopy ==
  ASSUME IInv, NEW k \in Keys, rows[k].status = "pending"
  PROVE  <<k, rows[k]>> \in Items /\ PendingCopy(<<k, rows[k]>>)
<1>1. rows[k] \in Row
  BY DEF IInv, TypeOK
<1>2. k[2] \in Hashes /\ k = <<k[1], k[2]>> /\ RowsOK(k[2]) /\ k[1] \in Kinds
  BY KeyParts DEF IInv, RowsInv, Kinds
<1>3. k[1] # "internal" /\ k[1] # "service_fee"
  BY <1>2 DEF RowsOK
<1>4. k[1] = "in" => rows[k].amount > 0
  BY <1>2 DEF RowsOK
<1>5. k[1] = "out" => rows[k].amount < 0
  BY <1>2 DEF RowsOK
<1>6. rows[k].amount \in Int
  BY <1>1 DEF Row
<1>7. k[1] \in {"in", "out"}
  BY <1>2, <1>3 DEF Kinds
<1> QED
  BY <1>1, <1>4, <1>5, <1>6, <1>7 DEF PendingCopy, Items

LEMMA VerdictIsTrue ==
  ASSUME IInv, NEW item \in Items, PendingCopy(item), NEW copy \in Verdicts(item)
  PROVE  <<item[1], copy>> \in Items /\ VerdictCopy(<<item[1], copy>>)
<1> DEFINE k == item[1]
           r == item[2]
<1>1. k \in Keys /\ r \in Row /\ node \in [Hashes -> NodeHash]
  BY DEF Items, IInv, TypeOK
<1>2. /\ k[1] \in {"in", "out"}
      /\ k[1] = "in" <=> r.amount > 0
      /\ k[1] = "out" <=> r.amount < 0
      /\ rows[k].status # "none"
  BY DEF PendingCopy
<1>3. CASE IsExpired(item)
  <2>1. copy = Failed(r) /\ k[1] = "in"
    BY <1>2, <1>3 DEF Verdicts, IsExpired
  <2>2. copy \in Row /\ copy.status = "failed" /\ copy.amount = r.amount
    BY <1>1, <2>1, FailedCopy
  <2> QED
    BY <1>1, <1>2, <2>1, <2>2 DEF VerdictCopy, Items
<1>4. CASE copy = Failed(r) /\ "failed" \in StatusAnswers(k)
  <2>1. k[1] = "out" => node[k[2]].payment = "failed"
    BY <1>1, <1>4, AnswerIsTrue
  <2>2. copy \in Row /\ copy.status = "failed" /\ copy.amount = r.amount
    BY <1>1, <1>4, FailedCopy
  <2> QED
    BY <1>1, <1>2, <2>1, <2>2 DEF VerdictCopy, Items
<1>5. CASE copy = update_payment_success_status(r, node_fee(k)) /\ "success" \in StatusAnswers(k)
  <2>1. Settled(k)
    BY <1>1, <1>5, AnswerIsTrue
  <2>2. copy \in Row /\ copy.status = "success" /\ copy.amount = r.amount
    BY <1>1, <1>5, SuccessCopy
  <2> QED
    BY <1>1, <1>2, <2>1, <2>2 DEF VerdictCopy, Items
<1> QED
  BY <1>3, <1>4, <1>5 DEF Verdicts

LEMMA VerdictWrite ==
  ASSUME IInv, NEW item \in Items, VerdictCopy(item), UNCHANGED node,
         rows' = update_payment(rows, item[1], item[2])
  PROVE  LedgerOK
<1> DEFINE k == item[1]
           r == item[2]
<1>1. k \in Keys /\ r \in Row
  BY DEF Items
<1>2. /\ k[1] = "in" => Issuer[k[2]] # NoWallet
      /\ k[1] = "out" => Issuer[k[2]] = NoWallet
  BY <1>1, SignOfRow DEF VerdictCopy
<1>3. GoodRow(k, r)
  <2>1. CASE r.status = "success"
    BY <1>1, <2>1, SettledRow DEF VerdictCopy
  <2>2. CASE r.status = "failed"
    BY <1>2, <2>2 DEF VerdictCopy, GoodRow
  <2> QED
    BY <2>1, <2>2 DEF VerdictCopy
<1> QED
  BY <1>1, <1>3, LedgerWriteOK DEF update_payment

LEMMA CheckerStartStep ==
  ASSUME IInv, NEW c \in Checkers, NEW S \in SUBSET PendingCheckable(rows), CheckerStart(c, S)
  PROVE  IInv'
<1>1. /\ dbLock = Free
      /\ check[c] = [todo |-> {}, writing |-> {}]
      /\ check' = [check EXCEPT ![c].todo = Copies(rows, S)]
      /\ UNCHANGED <<rows, dbLock, pay, page, producer, announced, node, stream, expired, crashes>>
  BY DEF CheckerStart, nodeVars
<1>2. LedgerOK
  BY <1>1, LedgerKeptOK
<1>3. \A item \in Copies(rows, S) : item \in Items /\ PendingCopy(item)
  BY PendingRowCopy DEF Copies, PendingCheckable, Stored
<1>4. /\ check' \in [Checkers -> [todo : SUBSET Items, writing : SUBSET Items]]
      /\ check'[c].todo = Copies(rows, S)
      /\ check'[c].writing = {}
      /\ \A d \in Checkers : d # c => check'[d] = check[d]
  <2>1. check \in [Checkers -> [todo : SUBSET Items, writing : SUBSET Items]]
    BY DEF IInv, TypeOK
  <2>2. Copies(rows, S) \in SUBSET Items
    BY <1>3
  <2> QED
    BY <1>1, <2>1, <2>2
<1>5. ChecksTyped
  BY <1>1, <1>4 DEF ChecksTyped, IInv, TypeOK
<1>6. \A item \in Copies(rows, S) : PendingCopy(item)'
  BY <1>2, <1>3, CopyStays DEF LedgerOK
<1>7. CopiesInv'
  BY <1>1, <1>2, <1>4, <1>6, CheckerKept, PagerKept, ProducerKept DEF CopiesInv, LedgerOK
<1> QED
  BY <1>1, <1>2, <1>5, <1>7, AsideStep, PaymentConstants

\* A checker c that has fewer rows to do, and perhaps a verdict to write.
CheckerTurn(c) ==
  /\ check' \in [Checkers -> [todo : SUBSET Items, writing : SUBSET Items]]
  /\ check'[c].todo \subseteq check[c].todo
  /\ \A item \in check'[c].writing : VerdictCopy(item)
  /\ \A d \in Checkers : d # c => check'[d] = check[d]

LEMMA CheckerMoves ==
  ASSUME IInv, LedgerOK, NEW c \in Checkers, CheckerTurn(c),
         UNCHANGED <<dbLock, pay, page, producer, announced, node, stream, expired, crashes>>,
         dbLock = Free \/ UNCHANGED rows
  PROVE  IInv'
<1>1. ChecksTyped
  BY DEF ChecksTyped, CheckerTurn, IInv, TypeOK
<1>2. check'[c].todo \subseteq Items /\ check'[c].writing \subseteq Items
  BY DEF CheckerTurn
<1>3. \A item \in check'[c].todo : PendingCopy(item)'
  BY <1>2, CopyStays DEF CheckerTurn, LedgerOK, IInv, CopiesInv
<1>4. \A item \in check'[c].writing : VerdictCopy(item)'
  BY <1>2, CopyStays DEF CheckerTurn, LedgerOK
<1>5. CopiesInv'
  BY <1>3, <1>4, CheckerKept, PagerKept, ProducerKept DEF CheckerTurn, CopiesInv, LedgerOK
<1> QED
  BY <1>1, <1>5, AsideStep, PaymentConstants

LEMMA CheckerSteps ==
  ASSUME IInv, NEW c \in Checkers, CheckerStep(c)
  PROVE  IInv'
<1>1. /\ check[c].todo \in SUBSET Items
      /\ check[c].writing \in SUBSET Items
      /\ check \in [Checkers -> [todo : SUBSET Items, writing : SUBSET Items]]
      /\ \A item \in check[c].todo : PendingCopy(item)
      /\ \A item \in check[c].writing : VerdictCopy(item)
  BY DEF IInv, TypeOK, CopiesInv
<1>2. CASE CheckerReadAll(c)
  BY <1>2, CheckerStartStep DEF CheckerReadAll
<1>3. CASE CheckerReadOne(c)
  BY <1>3, CheckerStartStep DEF CheckerReadOne
<1>4. CASE CheckerAsk(c)
  <2>0. PICK item \in check[c].todo : \E copy \in Verdicts(item) :
          check' = [check EXCEPT ![c].todo = @ \ {item}, ![c].writing = {<<item[1], copy>>}]
    BY <1>4 DEF CheckerAsk
  <2>1. PICK copy \in Verdicts(item) :
          check' = [check EXCEPT ![c].todo = @ \ {item}, ![c].writing = {<<item[1], copy>>}]
    BY <2>0
  <2>2. <<item[1], copy>> \in Items /\ VerdictCopy(<<item[1], copy>>)
    BY <1>1, VerdictIsTrue
  <2>3. CheckerTurn(c)
    BY <1>1, <2>1, <2>2 DEF CheckerTurn
  <2>4. UNCHANGED <<rows, dbLock, pay, page, producer, announced, node, stream, expired, crashes>>
    BY <1>4 DEF CheckerAsk, nodeVars
  <2> QED
    BY <2>3, <2>4, LedgerKeptOK, CheckerMoves
<1>5. CASE CheckerSkip(c)
  <2>1. CheckerTurn(c)
    BY <1>1, <1>5 DEF CheckerSkip, CheckerTurn
  <2>2. UNCHANGED <<rows, dbLock, pay, page, producer, announced, node, stream, expired, crashes>>
    BY <1>5 DEF CheckerSkip, nodeVars
  <2> QED
    BY <2>1, <2>2, LedgerKeptOK, CheckerMoves
<1>6. CASE CheckerRaise(c)
  <2>1. CheckerTurn(c)
    BY <1>1, <1>6 DEF CheckerRaise, CheckerTurn
  <2>2. UNCHANGED <<rows, dbLock, pay, page, producer, announced, node, stream, expired, crashes>>
    BY <1>6 DEF CheckerRaise, nodeVars
  <2> QED
    BY <2>1, <2>2, LedgerKeptOK, CheckerMoves
<1>7. CASE CheckerWrite(c)
  <2>1. /\ dbLock = Free
        /\ UNCHANGED <<dbLock, pay, page, producer, announced, node, stream, expired, crashes>>
    BY <1>7 DEF CheckerWrite, nodeVars
  <2>2. CheckerTurn(c)
    BY <1>1, <1>7 DEF CheckerWrite, CheckerTurn
  <2>3. LedgerOK
    BY <1>1, <1>7, <2>1, VerdictWrite DEF CheckerWrite
  <2> QED
    BY <2>1, <2>2, <2>3, CheckerMoves
<1> QED
  BY <1>2, <1>3, <1>4, <1>5, <1>6, <1>7 DEF CheckerStep

LEMMA PageSteps ==
  ASSUME IInv, NEW g \in Pagers, PageStep(g)
  PROVE  IInv'
<1>1. /\ page \in [Pagers -> SUBSET Items]
      /\ \A item \in page[g] : item \in Items /\ PendingCopy(item)
  BY DEF IInv, TypeOK, CopiesInv
<1>2. CASE \E w \in Wallets : PageBegin(g, w)
  <2>1. PICK w \in Wallets : PageBegin(g, w)
    BY <1>2
  <2> DEFINE S == {k \in Stored(rows) : rows[k].wallet = w /\ rows[k].status = "pending"}
  <2>2. /\ dbLock = Free
        /\ dbLock' = g
        /\ page' = [page EXCEPT ![g] = Copies(rows, S)]
        /\ UNCHANGED <<rows, pay, check, producer, announced, node, stream, expired, crashes>>
    BY <2>1 DEF PageBegin, nodeVars
  <2>3. \A item \in Copies(rows, S) : item \in Items /\ PendingCopy(item)
    BY PendingRowCopy DEF Copies, Stored
  <2> HIDE DEF S
  <2>4. LedgerOK
    BY <2>2, LedgerKeptOK
  <2>5. ChecksTyped
    BY <1>1, <2>2, <2>3 DEF ChecksTyped, IInv, TypeOK
  <2>6. \A item \in Copies(rows, S) : PendingCopy(item)'
    BY <2>3, <2>4, CopyStays DEF LedgerOK
  <2>7. CopiesInv'
    BY <1>1, <2>2, <2>4, <2>6, CheckerKept, PagerKept, ProducerKept DEF CopiesInv, LedgerOK
  <2> QED
    BY <2>2, <2>4, <2>5, <2>7, AsideStep, PaymentConstants
<1>3. CASE PageCheck(g) \/ PageEnd(g)
  <2>1. /\ dbLock = g
        /\ dbLock' \in {g, Free}
        /\ page' \in [Pagers -> SUBSET Items]
        /\ \A f \in Pagers : page'[f] \subseteq page[f]
        /\ UNCHANGED <<pay, check, producer, announced, node, stream, expired, crashes>>
    BY <1>1, <1>3 DEF PageCheck, PageEnd, nodeVars
  <2>2. LedgerOK
    <3>1. CASE UNCHANGED rows
      BY <2>1, <3>1, LedgerKeptOK
    <3>2. CASE PageCheck(g) /\ rows' # rows
      <4>1. PICK item \in page[g] : \E copy \in Verdicts(item) : rows' = update_payment(rows, item[1], copy)
        BY <3>2 DEF PageCheck
      <4>2. PICK copy \in Verdicts(item) : rows' = update_payment(rows, item[1], copy)
        BY <4>1
      <4>3. <<item[1], copy>> \in Items /\ VerdictCopy(<<item[1], copy>>)
        BY <1>1, VerdictIsTrue
      <4>4. rows' = update_payment(rows, <<item[1], copy>>[1], <<item[1], copy>>[2])
        BY <4>2
      <4> QED
        BY <2>1, <4>3, <4>4, VerdictWrite
    <3> QED
      BY <1>3, <3>1, <3>2 DEF PageEnd
  <2>3. ChecksTyped
    BY <2>1 DEF ChecksTyped, IInv, TypeOK
  <2>4. CopiesInv'
    BY <2>1, <2>2, CheckerKept, PagerKept, ProducerKept DEF CopiesInv, LedgerOK
  <2> QED
    BY <2>1, <2>2, <2>3, <2>4, AsideStep, PaymentConstants
<1> QED
  BY <1>2, <1>3 DEF PageStep

LEMMA ProducerSteps ==
  ASSUME IInv, ProducerStep
  PROVE  IInv'
<1>1. CASE \E h \in Hashes : ProducerRead(h)
  <2>1. PICK h \in Hashes : ProducerRead(h)
    BY <1>1
  <2>2. PICK k \in get_standalone_payment(rows, h, TRUE) : producer' = Copies(rows, {k})
    BY <2>1 DEF ProducerRead
  <2>3. k \in Keys /\ rows[k].status # "none" /\ rows[k].amount > 0
    BY <2>2 DEF get_standalone_payment, OfHash, Stored
  <2>4. /\ UNCHANGED <<rows, dbLock, pay, check, page, announced, node, expired, crashes>>
        /\ dbLock = Free
        /\ stream' \subseteq stream
    BY <2>1 DEF ProducerRead
  <2>5. producer' = {<<k, rows[k]>>} /\ <<k, rows[k]>> \in Items
    BY <2>2, <2>3, SignOfRow DEF Copies, Items
  <2>6. k[1] \in {"in", "service_fee"}
    <3>1. k[2] \in Hashes /\ k = <<k[1], k[2]>> /\ RowsOK(k[2]) /\ rows[k].amount \in Int
      BY <2>3, KeyParts DEF IInv, RowsInv, TypeOK, Row
    <3>2. k[1] # "out"
      BY <2>3, <3>1 DEF RowsOK
    <3>3. k[1] # "internal"
      BY <2>3, <3>1 DEF RowsOK
    <3> QED
      BY <2>3, <3>2, <3>3, KeyParts
  <2>7. LedgerOK
    BY <2>4, LedgerKeptOK
  <2>8. ChecksTyped
    BY <2>4, <2>5 DEF ChecksTyped, IInv, TypeOK
  <2>9. ProducerOK'
    BY <2>3, <2>4, <2>5, <2>6 DEF ProducerOK
  <2>10. CopiesInv'
    BY <2>4, <2>7, <2>9, CheckerKept, PagerKept DEF CopiesInv, LedgerOK
  <2> QED
    BY <2>4, <2>7, <2>8, <2>10, AsideStep
<1>2. CASE ProducerSkip \/ ProducerWrite
  <2>1. /\ producer' = {}
        /\ dbLock = Free \/ UNCHANGED rows
        /\ announced' \in SUBSET Keys
        /\ UNCHANGED <<dbLock, pay, check, page, node, stream, expired, crashes>>
    BY <1>2 DEF ProducerSkip, ProducerWrite, nodeVars, IInv, TypeOK, Items
  <2>2. LedgerOK
    <3>1. CASE UNCHANGED rows
      BY <2>1, <3>1, LedgerKeptOK
    <3>2. CASE ProducerWrite
      <4>1. PICK item \in producer :
              /\ "success" \in StatusAnswers(item[1])
              /\ rows' = update_payment(rows, item[1], [item[2] EXCEPT !.status = "success"])
        BY <3>2 DEF ProducerWrite
      <4> DEFINE r == [item[2] EXCEPT !.status = "success"]
      <4>2. /\ item[1] \in Keys
            /\ item[2] \in Row
            /\ item[1][1] \in {"in", "service_fee"}
            /\ item[2].amount > 0
            /\ rows[item[1]].status # "none"
        BY <4>1 DEF IInv, TypeOK, Items, CopiesInv, ProducerOK
      <4>3. r \in Row /\ r.status = "success" /\ r.amount = item[2].amount
        BY <4>2, StatusCopy
      <4>4. Settled(item[1])
        BY <4>1, <4>2, AnswerIsTrue
      <4> HIDE DEF r
      <4>5. GoodRow(item[1], r)
        BY <4>2, <4>3, <4>4, SettledRow
      <4>6. rows' = [rows EXCEPT ![item[1]] = r]
        BY <4>1 DEF r, update_payment
      <4> QED
        BY <2>1, <4>2, <4>3, <4>5, <4>6, LedgerWriteOK
    <3> QED
      BY <1>2, <3>1, <3>2 DEF ProducerSkip
  <2>3. ChecksTyped
    BY <2>1 DEF ChecksTyped, IInv, TypeOK
  <2>4. CopiesInv'
    BY <2>1, <2>2, CheckerKept, PagerKept, ProducerKept DEF CopiesInv, LedgerOK
  <2> QED
    BY <2>1, <2>2, <2>3, <2>4, AsideStep, PaymentConstants
<1> QED
  BY <1>1, <1>2 DEF ProducerStep

-----------------------------------------------------------------------------
\* The node decides, and decides once.
LEMMA NodeMoves ==
  ASSUME IInv, NEW h \in Hashes,
         node' \in [Hashes -> NodeHash],
         \A i \in Hashes : i # h => node'[i] = node[i],
         node'[h].requests = node[h].requests,
         node'[h].invoice # "none" => node[h].invoice # "none",
         node[h].invoice = "settled" => node'[h].invoice = "settled",
         node'[h].payment = "none" <=> node[h].payment = "none",
         node[h].payment \in {"settled", "failed"} => node'[h].payment = node[h].payment,
         stream' \subseteq Hashes,
         UNCHANGED <<rows, dbLock, pay, check, page, producer, announced, expired, crashes>>
  PROVE  IInv'
<1>1. RowsStay /\ NodeStays
  BY DEF RowsStay, NodeStays
<1>2. TypeOK'
  BY DEF IInv, TypeOK
<1>3. RowsInv'
  <2> SUFFICES ASSUME NEW i \in Hashes PROVE RowsOK(i)'
    BY DEF RowsInv
  <2>1. RowsOK(i) /\ (node[i].invoice = "settled" => node'[i].invoice = "settled")
    BY DEF IInv, RowsInv
  <2> QED
    BY <2>1 DEF RowsOK, Paid
<1>4. NodeInv'
  <2> SUFFICES ASSUME NEW i \in Hashes PROVE NodeOK(i)'
    BY DEF NodeInv
  <2>1. NodeOK(i)
    BY DEF IInv, NodeInv
  <2>2. CASE i = h
    BY <2>1, <2>2 DEF NodeOK
  <2>3. CASE i # h
    BY <2>1, <2>3 DEF NodeOK
  <2> QED
    BY <2>2, <2>3
<1>5. CallsInv'
  <2>1. \A i \in Hashes : node'[i].requests = node[i].requests
    OBVIOUS
  <2> QED
    BY <2>1, CallKept DEF CallsInv
<1> QED
  BY <1>1, <1>2, <1>3, <1>4, <1>5, CopiesKept DEF IInv

LEMMA NodeSteps ==
  ASSUME IInv, NodeStep
  PROVE  IInv'
<1>1. PICK h \in Hashes : NodeReceives(h) \/ NodePays(h) \/ NodeFails(h) \/ Expire(h)
  BY DEF NodeStep
<1>2. node \in [Hashes -> NodeHash] /\ stream \subseteq Hashes
  BY DEF IInv, TypeOK
<1>3. CASE NodeReceives(h)
  <2>1. /\ node' = [node EXCEPT ![h].invoice = "settled"]
        /\ node[h].invoice = "open"
        /\ stream' = stream \cup {h}
        /\ UNCHANGED <<rows, dbLock, pay, check, page, producer, announced, expired, crashes>>
    BY <1>3 DEF NodeReceives, taskVars
  <2>2. /\ node' \in [Hashes -> NodeHash]
        /\ \A i \in Hashes : i # h => node'[i] = node[i]
        /\ node'[h].requests = node[h].requests
        /\ node'[h].invoice = "settled"
        /\ node'[h].payment = node[h].payment
    BY <1>2, <2>1 DEF NodeHash
  <2> QED
    BY <1>2, <2>1, <2>2, NodeMoves
<1>4. CASE NodePays(h)
  <2>1. PICK f \in NodeFees : node' = [node EXCEPT ![h].payment = "settled", ![h].fee = f]
    BY <1>4 DEF NodePays
  <2>2. /\ node[h].payment = "inflight"
        /\ UNCHANGED <<rows, dbLock, pay, check, page, producer, announced, stream, expired, crashes>>
    BY <1>4 DEF NodePays, taskVars
  <2>3. f \in Nat
    BY PaymentConstants
  <2>4. /\ node' \in [Hashes -> NodeHash]
        /\ \A i \in Hashes : i # h => node'[i] = node[i]
        /\ node'[h].requests = node[h].requests
        /\ node'[h].invoice = node[h].invoice
        /\ node'[h].payment = "settled"
    BY <1>2, <2>1, <2>3 DEF NodeHash
  <2> QED
    BY <1>2, <2>2, <2>4, NodeMoves
<1>5. CASE NodeFails(h)
  <2>1. /\ node' = [node EXCEPT ![h].payment = "failed"]
        /\ node[h].payment = "inflight"
        /\ UNCHANGED <<rows, dbLock, pay, check, page, producer, announced, stream, expired, crashes>>
    BY <1>5 DEF NodeFails, taskVars
  <2>2. /\ node' \in [Hashes -> NodeHash]
        /\ \A i \in Hashes : i # h => node'[i] = node[i]
        /\ node'[h].requests = node[h].requests
        /\ node'[h].invoice = node[h].invoice
        /\ node'[h].payment = "failed"
    BY <1>2, <2>1 DEF NodeHash
  <2> QED
    BY <1>2, <2>1, <2>2, NodeMoves
<1>6. CASE Expire(h)
  <2>1. /\ expired' = expired \cup {h}
        /\ UNCHANGED <<rows, dbLock, pay, check, page, producer, announced, node, stream, crashes>>
    BY <1>6 DEF Expire, taskVars
  <2>2. LedgerOK
    BY <2>1, LedgerKeptOK
  <2>3. TypeOK'
    BY <2>1 DEF IInv, TypeOK
  <2>4. CallsInv'
    BY <2>1, CallKept DEF CallsInv
  <2> QED
    BY <2>1, <2>2, <2>3, <2>4, CopiesKept DEF IInv, LedgerOK
<1> QED
  BY <1>1, <1>3, <1>4, <1>5, <1>6

\* A restart forgets every call and every copy, and no row.
LEMMA CrashStep ==
  ASSUME IInv, Crash
  PROVE  IInv'
<1>1. /\ crashes < MaxCrashes
      /\ crashes' = crashes + 1
      /\ dbLock' = Free
      /\ pay' = [p \in Payers |-> IdleCall]
      /\ check' = [c \in Checkers |-> [todo |-> {}, writing |-> {}]]
      /\ page' = [g \in Pagers |-> {}]
      /\ producer' = {}
      /\ stream' \in SUBSET stream
      /\ UNCHANGED <<rows, announced, node, expired>>
  BY DEF Crash
<1>2. LedgerOK
  BY <1>1, LedgerKeptOK
<1>3. IdleCall \in Call /\ IdleCall.pc = "idle"
  BY DEF IdleCall, Call, PayPCs
<1>4. crashes' \in 0 .. MaxCrashes
  BY <1>1, PaymentConstants DEF IInv, TypeOK
<1> HIDE DEF IdleCall
<1>5. TypeOK'
  BY <1>1, <1>2, <1>3, <1>4 DEF IInv, TypeOK, LedgerOK
<1>6. CallsInv'
  BY <1>1, <1>3 DEF CallsInv, CallOK, UnderLock
<1>7. CopiesInv'
  BY <1>1 DEF CopiesInv, ProducerOK
<1> QED
  BY <1>2, <1>5, <1>6, <1>7 DEF IInv, LedgerOK

LEMMA PaySteps ==
  ASSUME IInv, NEW p \in Payers, PayStep(p)
  PROVE  IInv'
BY PayCheckStep, PayRejectedStep, PayInternalDebitStep, PayInternalCreditStep,
   PayExternalStep, PayVerifyStep, VerifyAnswerStep, FundingSourcePayStep,
   PayResponseStep, PayTimeoutStep, CreditServiceFeeStep DEF PayStep

LEMMA StutterStep ==
  ASSUME IInv, UNCHANGED vars
  PROVE  IInv'
<1>1. UNCHANGED <<rows, dbLock, pay, check, page, producer, announced, node, stream, expired, crashes>>
  BY DEF vars
<1>2. LedgerOK
  BY <1>1, LedgerKeptOK
<1>3. CallsInv'
  BY <1>1, CallKept DEF CallsInv
<1>4. TypeOK'
  BY <1>1 DEF IInv, TypeOK
<1> QED
  BY <1>1, <1>2, <1>3, <1>4, CopiesKept DEF IInv, LedgerOK

LEMMA IInvIsInductive == IInv /\ [Next]_vars => IInv'
<1> SUFFICES ASSUME IInv, [Next]_vars PROVE IInv'
  OBVIOUS
<1>1. CASE \E h \in Hashes : create_invoice(h)
  BY <1>1, CreateInvoiceStep
<1>2. CASE \E p \in Payers : PayStep(p)
  BY <1>2, PaySteps
<1>3. CASE \E c \in Checkers : CheckerStep(c)
  BY <1>3, CheckerSteps
<1>4. CASE \E g \in Pagers : PageStep(g)
  BY <1>4, PageSteps
<1>5. CASE ProducerStep
  BY <1>5, ProducerSteps
<1>6. CASE NodeStep
  BY <1>6, NodeSteps
<1>7. CASE Crash
  BY <1>7, CrashStep
<1>8. CASE UNCHANGED vars
  BY <1>8, StutterStep
<1> QED
  BY <1>1, <1>2, <1>3, <1>4, <1>5, <1>6, <1>7, <1>8 DEF Next

-----------------------------------------------------------------------------
\* The invariant holds in every state of every instance.
THEOREM InvariantHolds == Spec => []IInv
BY InitIInv, IInvIsInductive, PTL DEF Spec

\* The model is well typed.
THEOREM TypesHold == Spec => []TypeOK
<1>1. IInv => TypeOK
  BY DEF IInv
<1> QED
  BY <1>1, InvariantHolds, PTL

\* A payment is refunded only if the node has given it up, and final only if the
\* node has paid it.
THEOREM OutcomesMatch == Spec => []OutcomeMatchesNode
<1>1. IInv => OutcomeMatchesNode
  BY DEF IInv, NodeInv, NodeOK, OutcomeMatchesNode
<1> QED
  BY <1>1, InvariantHolds, PTL

\* The node is asked to pay a hash at most once, and only for a debited wallet.
THEOREM NeverSentTwice == Spec => []SentOnce
<1>1. IInv => SentOnce
  <2> SUFFICES ASSUME IInv, NEW h \in Hashes
               PROVE  /\ node[h].requests <= 1
                      /\ node[h].requests = 1 => <<"out", h>> \in Stored(rows)
    BY DEF SentOnce
  <2>1. NodeOK(h)
    BY DEF IInv, NodeInv
  <2>2. node[h].requests = 0 \/ node[h].requests = 1
    BY <2>1 DEF NodeOK
  <2>3. node[h].requests = 1 => <<"out", h>> \in Stored(rows)
    BY <2>1, KeysOfHash DEF NodeOK, Stored
  <2>4. CASE node[h].requests = 0
    BY <2>4
  <2>5. CASE node[h].requests = 1
    BY <2>3, <2>5
  <2> QED
    BY <2>2, <2>4, <2>5
<1> QED
  BY <1>1, InvariantHolds, PTL

\* A credited invoice was paid, by the network or by a debit already committed.
THEOREM CreditsAreBacked == Spec => []CreditIsBacked
<1>1. IInv => CreditIsBacked
  BY DEF IInv, RowsInv, RowsOK, CreditIsBacked
<1> QED
  BY <1>1, InvariantHolds, PTL

\* A hash debits one wallet once, and the node never pays a local wallet's invoice.
THEOREM HashesDebitOnce == Spec => []DebitedOnce
<1>1. IInv => DebitedOnce
  <2> SUFFICES ASSUME IInv, NEW h \in Hashes
               PROVE  /\ ~(Counted(rows[<<"out", h>>]) /\ Counted(rows[<<"internal", h>>]))
                      /\ Issuer[h] # NoWallet => node[h].requests = 0
    BY DEF DebitedOnce
  <2>1. RowsOK(h) /\ NodeOK(h)
    BY DEF IInv, RowsInv, NodeInv
  <2> QED
    BY <2>1 DEF RowsOK, NodeOK, Counted
<1> QED
  BY <1>1, InvariantHolds, PTL

-----------------------------------------------------------------------------
(***************************************************************************)
(* Every step of Payments either leaves the payers' rows alone, or starts  *)
(* or ends one debit.                                                      *)
(***************************************************************************)
PayersRowsKept ==
  \A h \in Hashes : /\ rows'[<<"out", h>>] = rows[<<"out", h>>]
                    /\ rows'[<<"internal", h>>] = rows[<<"internal", h>>]

\* the row with which pay_invoice debits its wallet
DebitStart(k, r) ==
  /\ k[1] \in {"out", "internal"}
  /\ rows[<<"out", k[2]>>].status = "none"
  /\ rows[<<"internal", k[2]>>].status = "none"
  /\ r.status = IF k[1] = "out" THEN "pending" ELSE "success"
  /\ r.wallet \in Wallets
  /\ r.amount = -Amount[k[2]]
  /\ r.fee = fee_reserve_total(Amount[k[2]], k[1] = "internal")

\* the copy with the node's answer, whoever writes it
DebitEnd(k, r) ==
  /\ k[1] = "out"
  /\ rows[k].status # "none"
  /\ r.wallet = rows[k].wallet
  /\ r.amount = -Amount[k[2]]
  /\ \/ /\ r.status = "success"
        /\ node[k[2]].payment = "settled"
        /\ r.fee = FinalFee(k[2])
     \/ /\ r.status = "failed"
        /\ node[k[2]].payment = "failed"
        /\ r.fee = fee_reserve_total(Amount[k[2]], FALSE)

LedgerStep ==
  \/ PayersRowsKept
  \/ /\ UNCHANGED node
     /\ \E k \in Keys, r \in Row :
          /\ rows' = [rows EXCEPT ![k] = r]
          /\ DebitStart(k, r) \/ DebitEnd(k, r)

\* the node decides once what a payment costs, within the limit it was given
FeesKept ==
  \A h \in Hashes :
    IF node[h].payment = "settled"
    THEN node'[h].payment = "settled" /\ node'[h].fee = node[h].fee
    ELSE node'[h].payment = "settled" =>
           node'[h].fee <= fee_reserve(Amount[h], FALSE)

PayersStay ==
  \A h \in Hashes : rows[<<"out", h>>].status # "none" =>
                      rows'[<<"out", h>>].wallet = rows[<<"out", h>>].wallet

DebitsOK == \A h \in Hashes : DebitOK(h)

-----------------------------------------------------------------------------
LEMMA FeesOfAmounts ==
  ASSUME NEW h \in Hashes
  PROVE  /\ Amount[h] \in Nat /\ Amount[h] > 0
         /\ fee_reserve(Amount[h], FALSE) \in Nat
         /\ service_fee(Amount[h], FALSE) \in Nat
         /\ service_fee(-Amount[h], FALSE) = service_fee(Amount[h], FALSE)
         /\ fee_reserve_total(Amount[h], FALSE) =
              fee_reserve(Amount[h], FALSE) + service_fee(Amount[h], FALSE)
         /\ fee_reserve_total(Amount[h], FALSE) \in Nat
         /\ fee_reserve_total(Amount[h], TRUE) \in Nat
         /\ fee_reserve_total(Amount[h], TRUE) <= fee_reserve_total(Amount[h], FALSE)
<1>1. Amount[h] \in Nat /\ Amount[h] > 0 /\ Amount[h] \in Int
  BY PaymentConstants
<1>2. /\ fee_reserve(Amount[h], FALSE) \in Nat
      /\ service_fee(Amount[h], FALSE) \in Nat
      /\ service_fee(Amount[h], TRUE) \in Nat
      /\ fee_reserve_total(Amount[h], FALSE) \in Nat
      /\ fee_reserve_total(Amount[h], TRUE) \in Nat
  BY <1>1, FeesAreNatural
<1>3. Abs(-Amount[h]) = Abs(Amount[h])
  BY <1>1 DEF Abs
<1>4. service_fee(-Amount[h], FALSE) = service_fee(Amount[h], FALSE)
  BY <1>3 DEF service_fee
<1>5. fee_reserve(Amount[h], TRUE) = 0
  BY DEF fee_reserve
<1>6. service_fee(Amount[h], TRUE) \in {0, service_fee(Amount[h], FALSE)}
  BY DEF service_fee
<1>7. /\ fee_reserve_total(Amount[h], FALSE) =
           fee_reserve(Amount[h], FALSE) + service_fee(Amount[h], FALSE)
      /\ fee_reserve_total(Amount[h], TRUE) =
           fee_reserve(Amount[h], TRUE) + service_fee(Amount[h], TRUE)
  BY DEF fee_reserve_total
<1> DEFINE reserve == fee_reserve(Amount[h], FALSE)
           noReserve == fee_reserve(Amount[h], TRUE)
           fee == service_fee(Amount[h], FALSE)
           internalFee == service_fee(Amount[h], TRUE)
           total == fee_reserve_total(Amount[h], FALSE)
           internalTotal == fee_reserve_total(Amount[h], TRUE)
<1>8. /\ reserve \in Nat /\ fee \in Nat /\ internalFee \in {0, fee}
      /\ noReserve = 0
      /\ total = reserve + fee
      /\ internalTotal = noReserve + internalFee
  BY <1>2, <1>5, <1>6, <1>7
<1>9. internalTotal <= total
  <2> HIDE DEF reserve, noReserve, fee, internalFee, total, internalTotal
  <2> QED BY <1>8
<1> QED
  BY <1>1, <1>2, <1>4, <1>7, <1>9, Zenon

\* One hash's bill changes only with its payer's row.
LEMMA BillKept ==
  ASSUME NEW h \in Hashes,
         rows'[<<"out", h>>] = rows[<<"out", h>>],
         rows'[<<"internal", h>>] = rows[<<"internal", h>>]
  PROVE  bill'[h] = bill[h]
BY DEF bill, PayersKey, Bill, Contribution, Counted

LEMMA BillOfOut ==
  ASSUME NEW h \in Hashes, rows[<<"internal", h>>].status = "none"
  PROVE  bill[h] = Bill(rows[<<"out", h>>])
BY DEF bill, PayersKey

LEMMA BillOfOutNext ==
  ASSUME NEW h \in Hashes, rows'[<<"internal", h>>].status = "none"
  PROVE  bill'[h] = Bill(rows'[<<"out", h>>])
BY DEF bill, PayersKey, Bill, Contribution, Counted

LEMMA BillOfInternalNext ==
  ASSUME NEW h \in Hashes, rows'[<<"internal", h>>].status # "none"
  PROVE  bill'[h] = Bill(rows'[<<"internal", h>>])
BY DEF bill, PayersKey, Bill, Contribution, Counted

\* What each status makes of a row.
LEMMA BillOfRow ==
  ASSUME NEW r \in Row, r.amount < 0
  PROVE  /\ r.status = "pending" =>
              Bill(r) = [state |-> "reserved", payer |-> r.wallet, cost |-> r.fee - r.amount]
         /\ r.status = "success" =>
              Bill(r) = [state |-> "paid", payer |-> r.wallet, cost |-> r.fee - r.amount]
         /\ r.status = "failed" =>
              Bill(r) = [state |-> "refunded", payer |-> r.wallet, cost |-> 0]
<1>1. r.amount \in Int /\ r.fee \in Nat
  BY DEF Row
<1>2. CASE r.status = "pending"
  <2>1. 0 - Contribution(r) = r.fee - r.amount
    BY <1>1, <1>2 DEF Contribution, Counted
  <2> QED BY <1>2, <2>1 DEF Bill, StateOf
<1>3. CASE r.status = "success"
  <2>1. 0 - Contribution(r) = r.fee - r.amount
    BY <1>1, <1>3 DEF Contribution, Counted
  <2> QED BY <1>3, <2>1 DEF Bill, StateOf
<1>4. CASE r.status = "failed"
  <2>1. Contribution(r) = 0
    BY <1>4 DEF Contribution, Counted
  <2> QED BY <1>4, <2>1 DEF Bill, StateOf
<1> QED
  BY <1>2, <1>3, <1>4

\* A write of one row changes one bill.
LEMMA OneBill ==
  ASSUME IInv, NEW k \in Keys, NEW r \in Row, rows' = [rows EXCEPT ![k] = r]
  PROVE  /\ k[2] \in Hashes
         /\ rows'[k] = r
         /\ \A j \in Keys : j # k => rows'[j] = rows[j]
         /\ bill' = [bill EXCEPT ![k[2]] = bill'[k[2]]]
<1>1. /\ rows'[k] = r
      /\ \A j \in Keys : j # k => rows'[j] = rows[j]
  BY DEF IInv, TypeOK
<1>2. k[2] \in Hashes
  BY KeyParts
<1>3. ASSUME NEW h \in Hashes, h # k[2]
      PROVE  bill'[h] = bill[h]
  <2>1. <<"out", h>> # k /\ <<"internal", h>> # k
    BY <1>3
  <2>2. <<"out", h>> \in Keys /\ <<"internal", h>> \in Keys
    BY KeysOfHash
  <2> QED
    BY <1>1, <2>1, <2>2, BillKept
<1>4. bill' = [h \in Hashes |-> bill'[h]] /\ bill = [h \in Hashes |-> bill[h]]
  BY DEF bill
<1>5. bill' = [bill EXCEPT ![k[2]] = bill'[k[2]]]
  <2> DEFINE before == bill
             after == bill'
  <2> SUFFICES after = [before EXCEPT ![k[2]] = after[k[2]]]
    OBVIOUS
  <2>1. /\ after = [h \in Hashes |-> after[h]]
        /\ before = [h \in Hashes |-> before[h]]
        /\ \A h \in Hashes : h # k[2] => after[h] = before[h]
    BY <1>3, <1>4
  <2> HIDE DEF before, after
  <2> QED
    BY <1>2, <2>1
<1> QED
  BY <1>1, <1>2, <1>5

\* A new debit reserves or transfers.
LEMMA StartIsPromised ==
  ASSUME IInv, DebitsOK, NEW k \in Keys, NEW r \in Row, DebitStart(k, r),
         rows' = [rows EXCEPT ![k] = r]
  PROVE  Promise!Next
<1> DEFINE h == k[2]
<1>1. /\ h \in Hashes
      /\ rows'[k] = r
      /\ \A j \in Keys : j # k => rows'[j] = rows[j]
      /\ bill' = [bill EXCEPT ![h] = bill'[h]]
  BY OneBill
<1>2. k = <<k[1], h>> /\ <<"out", h>> \in Keys /\ <<"internal", h>> \in Keys
  BY KeyParts, KeysOfHash
<1>3. bill[h] = Promise!Unpaid
  <2>1. bill[h] = Bill(rows[<<"out", h>>])
    BY <1>1, BillOfOut DEF DebitStart
  <2>2. rows[<<"out", h>>] = NoRow
    BY <1>1 DEF DebitsOK, DebitOK, DebitStart
  <2>3. Bill(NoRow) = [state |-> "unpaid", payer |-> NoWallet, cost |-> 0]
    <3>1. NoRow.status = "none" /\ NoRow.wallet = NoWallet
      BY DEF NoRow
    <3>2. Contribution(NoRow) = 0
      BY <3>1 DEF Contribution, Counted
    <3>3. 0 - Contribution(NoRow) = 0
      BY <3>2
    <3> QED BY <3>1, <3>3 DEF Bill, StateOf
  <2> QED
    BY <2>1, <2>2, <2>3 DEF Promise!Unpaid
<1>4. /\ Amount[h] \in Nat /\ Amount[h] > 0
      /\ fee_reserve_total(Amount[h], TRUE) \in Nat
      /\ MostFee[h] = fee_reserve_total(Amount[h], FALSE)
      /\ fee_reserve_total(Amount[h], TRUE) <= MostFee[h]
      /\ MostFee[h] \in Nat
  <2>1. MostFee[h] = fee_reserve_total(Amount[h], FALSE)
    BY <1>1 DEF MostFee
  <2> QED
    BY <1>1, <2>1, FeesOfAmounts, Zenon
<1>5. r.amount = -Amount[h] /\ r.amount < 0 /\ r.fee - r.amount = Amount[h] + r.fee
  BY <1>4 DEF DebitStart, Row
<1>6. CASE k[1] = "out"
  <2>1. k = <<"out", h>>
    BY <1>2, <1>6
  <2>2. rows'[<<"internal", h>>].status = "none" /\ rows'[<<"out", h>>] = r
    BY <1>1, <1>2, <2>1 DEF DebitStart
  <2>3. bill'[h] = Bill(r)
    BY <1>1, <2>2, BillOfOutNext
  <2>4. /\ r.status = "pending" /\ r.wallet \in Wallets
        /\ r.fee = MostFee[h]
    BY <1>4, <1>6 DEF DebitStart
  <2>5. bill'[h] = [state |-> "reserved", payer |-> r.wallet, cost |-> Amount[h] + MostFee[h]]
    BY <1>5, <2>3, <2>4, BillOfRow
  <2>6. Promise!Reserve(h, r.wallet)
    BY <1>1, <1>3, <2>5 DEF Promise!Reserve
  <2> QED
    BY <1>1, <2>4, <2>6 DEF Promise!Next
<1>7. CASE k[1] = "internal"
  <2>1. k = <<"internal", h>>
    BY <1>2, <1>7
  <2>2. rows'[<<"internal", h>>] = r /\ r.status = "success"
    BY <1>1, <1>2, <1>7, <2>1 DEF DebitStart
  <2>3. bill'[h] = Bill(r)
    BY <1>1, <2>2, BillOfInternalNext
  <2>4. r.wallet \in Wallets /\ r.fee = fee_reserve_total(Amount[h], TRUE)
    BY <1>7 DEF DebitStart
  <2> DEFINE cost == Amount[h] + r.fee
  <2>5. cost \in Amount[h] .. (Amount[h] + MostFee[h])
    <3>1. r.fee \in Nat /\ r.fee <= MostFee[h] /\ MostFee[h] \in Nat
      BY <1>4, <2>4, Zenon
    <3> QED
      BY <1>1, <3>1, PaymentConstants
  <2>6. bill'[h] = [state |-> "paid", payer |-> r.wallet, cost |-> cost]
    BY <1>5, <2>2, <2>3, BillOfRow
  <2> HIDE DEF cost
  <2>7. Promise!Transfer(h, r.wallet)
    BY <1>1, <1>3, <2>5, <2>6 DEF Promise!Transfer
  <2> QED
    BY <1>1, <2>4, <2>7 DEF Promise!Next
<1> QED
  BY <1>6, <1>7 DEF DebitStart

LEMMA FinalFeeFits ==
  ASSUME IInv, DebitsOK, NEW h \in Hashes, node[h].payment = "settled"
  PROVE  /\ FinalFee(h) \in Nat
         /\ FinalFee(h) <= fee_reserve_total(Amount[h], FALSE)
<1> DEFINE paid == node[h].fee
           reserve == fee_reserve(Amount[h], FALSE)
           fee == service_fee(Amount[h], FALSE)
           total == fee_reserve_total(Amount[h], FALSE)
<1>1. paid \in Nat
  BY DEF IInv, TypeOK, NodeHash
<1>2. paid <= reserve
  BY DEF DebitsOK, DebitOK
<1>3. reserve \in Nat /\ fee \in Nat /\ total = reserve + fee
  BY FeesOfAmounts
<1>4. paid + fee \in Nat /\ paid + fee <= total
  <2> HIDE DEF paid, reserve, fee, total
  <2> QED BY <1>1, <1>2, <1>3
<1> QED
  BY <1>4 DEF FinalFee

\* The node's answer settles or refunds, or says again what is known.
LEMMA EndIsPromised ==
  ASSUME IInv, DebitsOK, NEW k \in Keys, NEW r \in Row, DebitEnd(k, r),
         rows' = [rows EXCEPT ![k] = r]
  PROVE  [Promise!Next]_bill
<1> DEFINE h == k[2]
<1>1. /\ h \in Hashes
      /\ rows'[k] = r
      /\ \A j \in Keys : j # k => rows'[j] = rows[j]
      /\ bill' = [bill EXCEPT ![h] = bill'[h]]
  BY OneBill
<1>2. k = <<"out", h>> /\ <<"internal", h>> \in Keys /\ k # <<"internal", h>>
  BY KeyParts, KeysOfHash DEF DebitEnd
<1>3. RowsOK(h) /\ NodeOK(h) /\ DebitOK(h)
  BY <1>1 DEF IInv, RowsInv, NodeInv, DebitsOK
<1>4. rows[<<"internal", h>>].status = "none"
  BY <1>2, <1>3 DEF RowsOK, DebitEnd
<1>5. bill[h] = Bill(rows[k]) /\ bill'[h] = Bill(r)
  BY <1>1, <1>2, <1>4, BillOfOut, BillOfOutNext
<1>6. /\ rows[k] \in Row
      /\ rows[k].status \in {"pending", "success", "failed"}
      /\ rows[k].amount = -Amount[h] /\ r.amount = -Amount[h]
      /\ rows[k].amount < 0 /\ r.amount < 0
      /\ rows[k].wallet = r.wallet
  BY <1>2, <1>3 DEF DebitOK, DebitEnd, RowsOK, IInv, TypeOK, Row
<1>7. Amount[h] \in Nat /\ fee_reserve_total(Amount[h], FALSE) \in Nat
  BY <1>1, FeesOfAmounts, Zenon
<1>8. bill \in [Hashes -> {bill[j] : j \in Hashes}] /\ bill[h] \in {bill[j] : j \in Hashes}
  BY <1>1 DEF bill
<1>9. ASSUME bill'[h] = bill[h] PROVE UNCHANGED bill
  <2> DEFINE before == bill
             after == bill'
  <2>1. /\ after = [before EXCEPT ![h] = after[h]]
        /\ after[h] = before[h]
        /\ before = [j \in Hashes |-> before[j]]
    BY <1>1, <1>9 DEF bill
  <2>2. after = before
    <3> HIDE DEF before, after
    <3> QED BY <1>1, <2>1
  <2> QED BY <2>2
<1>10. CASE r.status = "success"
  <2>1. r.fee = FinalFee(h) /\ node[h].payment = "settled"
    BY <1>10 DEF DebitEnd
  <2>2. FinalFee(h) \in Nat /\ FinalFee(h) <= fee_reserve_total(Amount[h], FALSE)
    BY <1>1, <2>1, FinalFeeFits
  <2>3. bill'[h] = [state |-> "paid", payer |-> r.wallet, cost |-> r.fee - r.amount]
    BY <1>5, <1>6, <1>10, BillOfRow
  <2>4. rows[k].status # "failed"
    BY <1>2, <1>3, <2>1 DEF NodeOK
  <2>5. CASE rows[k].status = "success"
    <3>1. rows[k].fee = r.fee
      BY <1>2, <1>3, <2>1, <2>5 DEF DebitOK
    <3>2. bill[h] = [state |-> "paid", payer |-> rows[k].wallet, cost |-> rows[k].fee - rows[k].amount]
      BY <1>5, <1>6, <2>5, BillOfRow
    <3> QED
      BY <1>6, <1>9, <2>3, <3>1, <3>2
  <2>6. CASE rows[k].status = "pending"
    <3> DEFINE total == fee_reserve_total(Amount[h], FALSE)
    <3>1. rows[k].fee = total
      BY <1>2, <1>3, <2>6 DEF DebitOK
    <3>2. bill[h] = [state |-> "reserved", payer |-> r.wallet, cost |-> rows[k].fee - rows[k].amount]
      BY <1>5, <1>6, <2>6, BillOfRow
    <3>3. total \in Nat /\ r.fee \in Nat /\ r.fee <= total
      BY <1>7, <2>1, <2>2, Zenon
    <3> HIDE DEF total
    <3>4. (r.fee - r.amount) \in Amount[h] .. (rows[k].fee - rows[k].amount)
      BY <1>6, <1>7, <3>1, <3>3
    <3> DEFINE cost == r.fee - r.amount
    <3>5. bill'[h] = [state |-> "paid", payer |-> bill[h].payer, cost |-> cost]
      BY <2>3, <3>2
    <3>6. Promise!Settle(h)
      <4>1. bill[h].state = "reserved" /\ bill[h].cost = rows[k].fee - rows[k].amount
        BY <3>2
      <4>2. /\ cost \in Amount[h] .. bill[h].cost
            /\ bill' = [bill EXCEPT ![h] = [state |-> "paid", payer |-> bill[h].payer, cost |-> cost]]
        BY <1>1, <3>4, <3>5, <4>1
      <4> HIDE DEF cost
      <4> QED
        BY <4>1, <4>2 DEF Promise!Settle
    <3> QED
      BY <1>1, <3>6 DEF Promise!Next
  <2> QED
    BY <1>6, <2>4, <2>5, <2>6
<1>11. CASE r.status = "failed"
  <2>1. node[h].payment = "failed"
    BY <1>11 DEF DebitEnd
  <2>2. bill'[h] = [state |-> "refunded", payer |-> r.wallet, cost |-> 0]
    BY <1>5, <1>6, <1>11, BillOfRow
  <2>3. rows[k].status # "success"
    BY <1>2, <1>3, <2>1 DEF NodeOK
  <2>4. CASE rows[k].status = "failed"
    BY <1>5, <1>6, <1>9, <2>2, <2>4, BillOfRow
  <2>5. CASE rows[k].status = "pending"
    <3>1. bill[h] = [state |-> "reserved", payer |-> r.wallet, cost |-> rows[k].fee - rows[k].amount]
      BY <1>5, <1>6, <2>5, BillOfRow
    <3>2. Promise!Refund(h)
      <4>1. bill'[h] = [state |-> "refunded", payer |-> bill[h].payer, cost |-> 0]
        BY <2>2, <3>1
      <4> QED
        BY <1>1, <3>1, <4>1 DEF Promise!Refund
    <3> QED
      BY <1>1, <3>2 DEF Promise!Next
  <2> QED
    BY <1>6, <2>3, <2>4, <2>5
<1> QED
  BY <1>10, <1>11 DEF DebitEnd

-----------------------------------------------------------------------------
LEMMA DebitsKept ==
  ASSUME IInv, DebitsOK, FeesKept, NEW h \in Hashes,
         rows'[<<"out", h>>] = rows[<<"out", h>>],
         rows'[<<"internal", h>>] = rows[<<"internal", h>>]
  PROVE  DebitOK(h)'
<1>1. DebitOK(h) /\ NodeOK(h)
  BY DEF DebitsOK, IInv, NodeInv
<1>2. node[h].payment = "settled" => node'[h].fee = node[h].fee /\ node'[h].payment = "settled"
  BY DEF FeesKept
<1>3. node'[h].payment = "settled" => node'[h].fee <= fee_reserve(Amount[h], FALSE)
  BY <1>1, <1>2 DEF FeesKept, DebitOK
<1>4. rows[<<"out", h>>].status = "success" => FinalFee(h)' = FinalFee(h)
  BY <1>1, <1>2 DEF FinalFee, NodeOK
<1>5. \A kind \in {"out", "internal"} : rows'[<<kind, h>>] = rows[<<kind, h>>]
  OBVIOUS
<1> QED
  BY <1>1, <1>3, <1>4, <1>5 DEF DebitOK

\* A row as DebitStart and DebitEnd write it is as DebitOK wants it.
LEMMA WrittenDebitOK ==
  ASSUME IInv, DebitsOK, NEW k \in Keys, NEW r \in Row, UNCHANGED node,
         DebitStart(k, r) \/ DebitEnd(k, r), rows' = [rows EXCEPT ![k] = r]
  PROVE  DebitOK(k[2])'
<1> DEFINE h == k[2]
<1>1. /\ h \in Hashes
      /\ rows'[k] = r
      /\ \A j \in Keys : j # k => rows'[j] = rows[j]
  BY OneBill
<1>2. k = <<k[1], h>> /\ <<"out", h>> \in Keys /\ <<"internal", h>> \in Keys
  BY KeyParts, KeysOfHash
<1>3. DebitOK(h)
  BY <1>1 DEF DebitsOK
<1>4. r.wallet \in Wallets /\ r.amount = -Amount[h] /\ r.status # "none"
  BY <1>1, <1>2, <1>3 DEF DebitStart, DebitEnd, DebitOK
<1>5. node' = node /\ FinalFee(h)' = FinalFee(h)
  BY DEF FinalFee
<1>6. CASE k[1] = "out"
  <2>1. rows'[<<"out", h>>] = r /\ rows'[<<"internal", h>>] = rows[<<"internal", h>>]
    BY <1>1, <1>2, <1>6
  <2>2. r.status \in {"pending", "failed"} => r.fee = fee_reserve_total(Amount[h], FALSE)
    <3>1. DebitStart(k, r) => r.fee = fee_reserve_total(Amount[h], FALSE)
      BY <1>6 DEF DebitStart
    <3> QED BY <3>1 DEF DebitEnd
  <2>3. r.status = "success" => r.fee = FinalFee(h)
    BY <1>6 DEF DebitStart, DebitEnd
  <2>4. \A kind \in {"out", "internal"} :
          rows'[<<kind, h>>].status # "none" =>
            rows'[<<kind, h>>].wallet \in Wallets /\ rows'[<<kind, h>>].amount = -Amount[h]
    BY <1>3, <1>4, <2>1 DEF DebitOK
  <2> QED
    BY <1>3, <1>4, <1>5, <2>1, <2>2, <2>3, <2>4 DEF DebitOK
<1>7. CASE k[1] = "internal"
  <2>1. rows'[<<"internal", h>>] = r /\ rows'[<<"out", h>>] = rows[<<"out", h>>]
    BY <1>1, <1>2, <1>7
  <2>2. \A kind \in {"out", "internal"} :
          rows'[<<kind, h>>].status # "none" =>
            rows'[<<kind, h>>].wallet \in Wallets /\ rows'[<<kind, h>>].amount = -Amount[h]
    BY <1>3, <1>4, <2>1 DEF DebitOK
  <2> QED
    BY <1>3, <1>5, <2>1, <2>2 DEF DebitOK
<1> QED
  BY <1>6, <1>7 DEF DebitStart, DebitEnd

LEMMA LedgerStepKeeps ==
  ASSUME IInv, DebitsOK, FeesKept, LedgerStep
  PROVE  DebitsOK' /\ PayersStay /\ [Promise!Next]_bill
<1>1. CASE PayersRowsKept
  <2>1. DebitsOK'
    BY <1>1, DebitsKept DEF DebitsOK, PayersRowsKept
  <2>2. PayersStay
    BY <1>1 DEF PayersRowsKept, PayersStay
  <2>3. UNCHANGED bill
    BY <1>1 DEF PayersRowsKept, bill, PayersKey, Bill, Contribution, Counted
  <2> QED BY <2>1, <2>2, <2>3
<1>2. ASSUME NEW k \in Keys, NEW r \in Row, UNCHANGED node,
             rows' = [rows EXCEPT ![k] = r],
             DebitStart(k, r) \/ DebitEnd(k, r)
      PROVE  DebitsOK' /\ PayersStay /\ [Promise!Next]_bill
  <2>1. /\ k[2] \in Hashes
        /\ rows'[k] = r
        /\ \A j \in Keys : j # k => rows'[j] = rows[j]
    BY <1>2, OneBill
  <2>2. DebitOK(k[2])'
    BY <1>2, WrittenDebitOK
  <2>3. ASSUME NEW h \in Hashes, h # k[2] PROVE DebitOK(h)'
    <3>1. <<"out", h>> # k /\ <<"internal", h>> # k
      BY <2>3
    <3>2. <<"out", h>> \in Keys /\ <<"internal", h>> \in Keys
      BY KeysOfHash
    <3> QED BY <2>1, <3>1, <3>2, DebitsKept
  <2>4. DebitsOK'
    BY <2>1, <2>2, <2>3 DEF DebitsOK
  <2>5. PayersStay
    <3> SUFFICES ASSUME NEW h \in Hashes, rows[<<"out", h>>].status # "none"
                 PROVE  rows'[<<"out", h>>].wallet = rows[<<"out", h>>].wallet
      BY DEF PayersStay
    <3>1. <<"out", h>> \in Keys
      BY KeysOfHash
    <3>2. CASE k # <<"out", h>>
      BY <2>1, <3>1, <3>2
    <3>3. CASE k = <<"out", h>>
      <4>1. ~DebitStart(k, r)
        BY <3>3 DEF DebitStart
      <4> QED BY <1>2, <2>1, <3>3, <4>1 DEF DebitEnd
    <3> QED BY <3>2, <3>3
  <2>6. [Promise!Next]_bill
    BY <1>2, StartIsPromised, EndIsPromised
  <2> QED BY <2>4, <2>5, <2>6
<1> QED
  BY <1>1, <1>2 DEF LedgerStep

-----------------------------------------------------------------------------
(***************************************************************************)
(* Copies of payers' rows.                                                 *)
(***************************************************************************)
\* a copy that may be held: of a pending row, or with the node's answer
Holdable(item) ==
  /\ item \in Items
  /\ PendingCopy(item) \/ VerdictCopy(item)
  /\ DebitCopy(item)

\* whatever is held after the step could be held before it
CopiesFresh ==
  /\ \A c \in Checkers :
       \A item \in check'[c].todo \cup check'[c].writing : Holdable(item)
  /\ \A g \in Pagers : \A item \in page'[g] : Holdable(item)

LEMMA HoldableStays ==
  ASSUME IInv, PayersStay, FeesKept, NEW item, Holdable(item)
  PROVE  DebitCopy(item)'
<1> DEFINE k == item[1]
           r == item[2]
<1>1. k \in Keys /\ k[2] \in Hashes /\ k = <<k[1], k[2]>>
  BY KeyParts DEF Holdable, Items
<1>2. SUFFICES ASSUME k[1] = "out"
               PROVE  /\ r.wallet = rows'[k].wallet
                      /\ r.amount = -Amount[k[2]]
                      /\ r.status \in {"pending", "failed"} => r.fee = fee_reserve_total(Amount[k[2]], FALSE)
                      /\ r.status = "success" => r.fee = FinalFee(k[2])'
  BY DEF DebitCopy
<1>3. /\ r.wallet = rows[k].wallet
      /\ r.amount = -Amount[k[2]]
      /\ r.status \in {"pending", "failed"} => r.fee = fee_reserve_total(Amount[k[2]], FALSE)
      /\ r.status = "success" => r.fee = FinalFee(k[2])
  BY <1>2 DEF Holdable, DebitCopy
<1>4. rows[k].status # "none"
  BY DEF Holdable, PendingCopy, VerdictCopy
<1>5. rows'[k].wallet = rows[k].wallet
  BY <1>1, <1>2, <1>4 DEF PayersStay
<1>6. r.status = "success" => node[k[2]].payment = "settled"
  BY <1>2 DEF Holdable, PendingCopy, VerdictCopy, Settled
<1>7. r.status = "success" => FinalFee(k[2])' = FinalFee(k[2])
  BY <1>1, <1>6 DEF FeesKept, FinalFee
<1> QED
  BY <1>3, <1>5, <1>7

LEMMA HeldIsHoldable ==
  ASSUME IInv, DebitInv
  PROVE  /\ \A c \in Checkers :
              \A item \in check[c].todo \cup check[c].writing : Holdable(item)
         /\ \A g \in Pagers : \A item \in page[g] : Holdable(item)
<1>1. ASSUME NEW c \in Checkers, NEW item \in check[c].todo \cup check[c].writing
      PROVE  Holdable(item)
  BY <1>1 DEF Holdable, DebitInv, IInv, TypeOK, CopiesInv
<1>2. ASSUME NEW g \in Pagers, NEW item \in page[g]
      PROVE  Holdable(item)
  BY <1>2 DEF Holdable, DebitInv, IInv, TypeOK, CopiesInv
<1> QED
  BY <1>1, <1>2

LEMMA PendingRowIsHoldable ==
  ASSUME IInv, DebitInv, NEW k \in Keys, rows[k].status = "pending"
  PROVE  Holdable(<<k, rows[k]>>)
<1>1. <<k, rows[k]>> \in Items /\ PendingCopy(<<k, rows[k]>>)
  BY PendingRowCopy
<1>2. k[2] \in Hashes /\ k = <<k[1], k[2]>>
  BY KeyParts
<1>3. DebitOK(k[2])
  BY <1>2 DEF DebitInv
<1>4. DebitCopy(<<k, rows[k]>>)
  BY <1>2, <1>3 DEF DebitCopy, DebitOK
<1> QED
  BY <1>1, <1>4 DEF Holdable

\* What update_payment_success_status makes of a payment.
LEMMA SuccessOfDebit ==
  ASSUME IInv, NEW h \in Hashes, NEW r \in Row, r.amount = -Amount[h]
  PROVE  LET c == update_payment_success_status(r, node_fee(<<"out", h>>))
         IN  c.fee = FinalFee(h) /\ c.wallet = r.wallet /\ c.amount = r.amount
             /\ c.status = "success" /\ c \in Row
<1>1. node_fee(<<"out", h>>) = node[h].fee /\ node[h].fee \in Nat
  BY DEF node_fee, IInv, TypeOK, NodeHash
<1>2. Abs(node_fee(<<"out", h>>)) = node[h].fee
  BY <1>1 DEF Abs
<1>3. service_fee(r.amount, FALSE) = service_fee(Amount[h], FALSE)
  BY FeesOfAmounts
<1>4. Abs(node_fee(<<"out", h>>)) + service_fee(r.amount, FALSE) = FinalFee(h)
  BY <1>2, <1>3 DEF FinalFee
<1>5. <<"out", h>> \in Keys /\ node \in [Hashes -> NodeHash]
  BY KeysOfHash DEF IInv, TypeOK
<1>6. update_payment_success_status(r, node_fee(<<"out", h>>)) \in Row
  BY <1>5, SuccessCopy
<1> QED
  BY <1>4, <1>6 DEF update_payment_success_status, Row

LEMMA VerdictIsHoldable ==
  ASSUME IInv, DebitInv, NEW item, Holdable(item), PendingCopy(item),
         NEW copy \in Verdicts(item)
  PROVE  Holdable(<<item[1], copy>>) /\ VerdictCopy(<<item[1], copy>>)
<1> DEFINE k == item[1]
           r == item[2]
<1>1. k \in Keys /\ r \in Row /\ item \in Items /\ k[2] \in Hashes /\ k = <<k[1], k[2]>>
  BY KeyParts DEF Holdable, Items
<1>2. <<k, copy>> \in Items /\ VerdictCopy(<<k, copy>>)
  BY <1>1, VerdictIsTrue
<1>3. DebitCopy(<<k, copy>>)
  <2> SUFFICES ASSUME k[1] = "out"
               PROVE  /\ copy.wallet = rows[k].wallet
                      /\ copy.amount = -Amount[k[2]]
                      /\ copy.status # "pending"
                      /\ copy.status = "failed" => copy.fee = fee_reserve_total(Amount[k[2]], FALSE)
                      /\ copy.status = "success" => copy.fee = FinalFee(k[2])
    BY DEF DebitCopy
  <2>1. /\ r.wallet = rows[k].wallet /\ r.amount = -Amount[k[2]]
        /\ r.fee = fee_reserve_total(Amount[k[2]], FALSE)
    BY DEF Holdable, DebitCopy, PendingCopy
  <2>2. CASE copy = Failed(r)
    BY <1>1, <2>1, <2>2 DEF Failed, Row
  <2>3. CASE copy = update_payment_success_status(r, node_fee(k))
    <3>1. k = <<"out", k[2]>>
      BY <1>1
    <3>2. /\ copy.fee = FinalFee(k[2]) /\ copy.wallet = r.wallet
          /\ copy.amount = r.amount /\ copy.status = "success"
      BY <1>1, <2>1, <2>3, <3>1, SuccessOfDebit
    <3> QED
      BY <2>1, <3>2
  <2> QED
    BY <2>2, <2>3 DEF Verdicts
<1> QED
  BY <1>2, <1>3 DEF Holdable

-----------------------------------------------------------------------------
(***************************************************************************)
(* Every step is one of these.                                             *)
(***************************************************************************)
DebitStep == LedgerStep /\ FeesKept /\ CopiesFresh

LEMMA NodeKept ==
  ASSUME UNCHANGED node
  PROVE  FeesKept
BY DEF FeesKept

LEMMA CopiesHeld ==
  ASSUME IInv, DebitInv,
         \A c \in Checkers : /\ check'[c].todo \subseteq check[c].todo
                             /\ check'[c].writing \subseteq check[c].writing,
         \A g \in Pagers : page'[g] \subseteq page[g]
  PROVE  CopiesFresh
BY HeldIsHoldable DEF CopiesFresh

LEMMA QuietWrite ==
  ASSUME IInv, NEW k \in Keys, k[1] \in {"in", "service_fee"}, NEW r,
         rows' = [rows EXCEPT ![k] = r]
  PROVE  LedgerStep
<1>1. \A h \in Hashes : <<"out", h>> # k /\ <<"internal", h>> # k
  OBVIOUS
<1>2. \A j \in Keys : j # k => rows'[j] = rows[j]
  BY DEF IInv, TypeOK
<1>3. PayersRowsKept
  BY <1>1, <1>2, KeysOfHash DEF PayersRowsKept
<1> QED
  BY <1>3 DEF LedgerStep

LEMMA NoWrite ==
  ASSUME IInv, DebitInv, UNCHANGED <<rows, check, page, node>>
  PROVE  DebitStep
<1>1. LedgerStep
  BY DEF LedgerStep, PayersRowsKept
<1>2. CopiesFresh
  BY CopiesHeld
<1> QED
  BY <1>1, <1>2, NodeKept DEF DebitStep

LEMMA CreateInvoiceDebits ==
  ASSUME IInv, DebitInv, NEW h \in Hashes, create_invoice(h)
  PROVE  DebitStep
<1>1. <<"in", h>> \in Keys
  BY KeysOfHash
<1>2. LedgerStep
  BY <1>1, QuietWrite DEF create_invoice, create_payment
<1>3. FeesKept
  <2>1. node \in [Hashes -> NodeHash]
    BY DEF IInv, TypeOK
  <2>2. \A j \in Hashes : node'[j].payment = node[j].payment /\ node'[j].fee = node[j].fee
    BY <2>1 DEF create_invoice, NodeHash
  <2> QED BY <2>2 DEF FeesKept
<1>4. CopiesFresh
  BY CopiesHeld DEF create_invoice, taskVars
<1> QED
  BY <1>2, <1>3, <1>4 DEF DebitStep

LEMMA InternalDebits ==
  ASSUME IInv, DebitInv, NEW p \in Payers, PayInternalDebit(p)
  PROVE  DebitStep
<1> DEFINE h == Hash(p)
           k == <<"internal", h>>
           r == NewRow("success", pay[p].wallet, -Amount[h], fee_reserve_total(Amount[h], TRUE))
<1>1. /\ pay[p].pc = "checked" /\ Internal(p)
      /\ MayCreate(rows, k)
      /\ rows' = [rows EXCEPT ![k] = r]
      /\ UNCHANGED <<check, page, node>>
  BY DEF PayInternalDebit, Enter, create_payment, nodeVars
<1>2. h \in Hashes /\ pay[p].wallet \in Wallets /\ k \in Keys /\ RowsOK(h)
  BY <1>1, CallFacts, KeysOfHash
<1>3. Amount[h] \in Nat /\ Amount[h] > 0 /\ fee_reserve_total(Amount[h], TRUE) \in Nat
  BY <1>2, FeesOfAmounts, Zenon
<1>4. r \in Row
  BY <1>2, <1>3, DebitRowTyped
<1>5. Abs(fee_reserve_total(Amount[h], TRUE)) = fee_reserve_total(Amount[h], TRUE)
  <2> DEFINE f == fee_reserve_total(Amount[h], TRUE)
  <2>1. f \in Nat
    BY <1>3
  <2> HIDE DEF f
  <2>2. Abs(f) = f
    BY <2>1 DEF Abs
  <2> QED BY <2>2 DEF f
<1>6. r.fee = fee_reserve_total(Amount[h], TRUE) /\ r.status = "success"
      /\ r.wallet = pay[p].wallet /\ r.amount = -Amount[h]
  BY <1>5 DEF NewRow
<1>7. rows[<<"internal", h>>].status = "none"
  BY <1>1, <1>2 DEF MayCreate, Stored
<1>8. rows[<<"out", h>>].status = "none"
  <2>1. rows[<<"in", h>>].status = "pending"
    BY <1>1, InternalIsLocal
  <2> QED BY <1>2, <2>1 DEF RowsOK
<1> HIDE DEF r
<1>9. DebitStart(k, r)
  BY <1>2, <1>6, <1>7, <1>8, Zenon DEF DebitStart
<1>10. LedgerStep
  BY <1>1, <1>2, <1>4, <1>9 DEF LedgerStep
<1>11. CopiesFresh
  BY <1>1, CopiesHeld
<1> QED
  BY <1>1, <1>10, <1>11, NodeKept DEF DebitStep

LEMMA ExternalDebits ==
  ASSUME IInv, DebitInv, NEW p \in Payers, PayExternal(p)
  PROVE  DebitStep
<1> DEFINE h == Hash(p)
           k == <<"out", h>>
           r == NewRow("pending", pay[p].wallet, -Amount[h], fee_reserve_total(Amount[h], FALSE))
<1>1. /\ pay[p].pc = "checked"
      /\ MayCreate(rows, k)
      /\ rows' = [rows EXCEPT ![k] = r]
      /\ UNCHANGED <<check, page, node>>
  BY DEF PayExternal, Enter, create_payment, nodeVars
<1>2. h \in Hashes /\ pay[p].wallet \in Wallets /\ k \in Keys
      /\ <<"internal", h>> \in Keys
  BY <1>1, CallFacts, KeysOfHash
<1>3. Amount[h] \in Nat /\ Amount[h] > 0 /\ fee_reserve_total(Amount[h], FALSE) \in Nat
  BY <1>2, FeesOfAmounts, Zenon
<1>4. r \in Row
  BY <1>2, <1>3, DebitRowTyped
<1>5. Abs(fee_reserve_total(Amount[h], FALSE)) = fee_reserve_total(Amount[h], FALSE)
  <2> DEFINE f == fee_reserve_total(Amount[h], FALSE)
  <2>1. f \in Nat
    BY <1>3
  <2> HIDE DEF f
  <2>2. Abs(f) = f
    BY <2>1 DEF Abs
  <2> QED BY <2>2 DEF f
<1>6. r.fee = fee_reserve_total(Amount[h], FALSE) /\ r.status = "pending"
      /\ r.wallet = pay[p].wallet /\ r.amount = -Amount[h]
  BY <1>5 DEF NewRow
<1>7. rows[<<"out", h>>].status = "none" /\ rows[<<"internal", h>>].status = "none"
  <2>1. OfHash(rows, h) = {}
    BY <1>1 DEF MayCreate
  <2> QED BY <1>2, <2>1 DEF OfHash, Stored
<1> HIDE DEF r
<1>8. (k[1] = "internal") = FALSE /\ k[1] = "out" /\ k[2] = h
  OBVIOUS
<1>9. DebitStart(k, r)
  BY <1>2, <1>6, <1>7, <1>8, Zenon DEF DebitStart
<1>10. LedgerStep
  BY <1>1, <1>2, <1>4, <1>9 DEF LedgerStep
<1>11. CopiesFresh
  BY <1>1, CopiesHeld
<1> QED
  BY <1>1, <1>10, <1>11, NodeKept DEF DebitStep

\* The node's answer written at a row that is there, by a call or from a copy.
LEMMA AnswerWrite ==
  ASSUME IInv, NEW item, Holdable(item), VerdictCopy(item), UNCHANGED node,
         rows' = [rows EXCEPT ![item[1]] = item[2]]
  PROVE  LedgerStep
<1> DEFINE k == item[1]
           r == item[2]
<1>1. k \in Keys /\ r \in Row
  BY DEF Holdable, Items
<1>2. CASE k[1] = "in"
  BY <1>1, <1>2, QuietWrite
<1>3. CASE k[1] = "out"
  <2>1. DebitEnd(k, r)
    BY <1>3 DEF DebitEnd, VerdictCopy, Holdable, DebitCopy, Settled
  <2> QED BY <1>1, <2>1 DEF LedgerStep
<1> QED
  BY <1>2, <1>3 DEF VerdictCopy

LEMMA CopyOfStored ==
  ASSUME IInv, DebitInv, NEW h \in Hashes, rows[<<"out", h>>].status # "none",
         NEW r \in Row, r.wallet = rows[<<"out", h>>].wallet,
         r.amount = rows[<<"out", h>>].amount,
         \/ r.status = "success" /\ node[h].payment = "settled" /\ r.fee = FinalFee(h)
         \/ /\ r.status = "failed" /\ node[h].payment = "failed"
            /\ r.fee = fee_reserve_total(Amount[h], FALSE),
         rows' = [rows EXCEPT ![<<"out", h>>] = r], UNCHANGED node
  PROVE  LedgerStep
<1> DEFINE k == <<"out", h>>
<1>1. k \in Keys /\ k[1] = "out" /\ k[2] = h
  BY KeysOfHash
<1>2. DebitOK(h)
  BY DEF DebitInv
<1>3. r.amount = -Amount[h]
  BY <1>2 DEF DebitOK
<1>4. DebitEnd(k, r)
  BY <1>1, <1>3 DEF DebitEnd
<1> QED
  BY <1>1, <1>4 DEF LedgerStep

LEMMA InternalCreditDebits ==
  ASSUME IInv, DebitInv, NEW p \in Payers, PayInternalCredit(p)
  PROVE  DebitStep
<1>1. Hash(p) \in Hashes
  BY CallFacts DEF PayInternalCredit
<1>2. <<"in", Hash(p)>> \in Keys
  BY <1>1, KeysOfHash
<1>3. LedgerStep
  BY <1>2, QuietWrite DEF PayInternalCredit, update_payment
<1>4. UNCHANGED <<check, page, node>>
  BY DEF PayInternalCredit, nodeVars
<1> QED
  BY <1>3, <1>4, CopiesHeld, NodeKept DEF DebitStep

LEMMA ServiceFeeDebits ==
  ASSUME IInv, DebitInv, NEW p \in Payers, CreditServiceFee(p)
  PROVE  DebitStep
<1> DEFINE k == <<"service_fee", Hash(p)>>
           r == NewRow("success", FeeWallet, FeeDue(p), 0)
<1>1. /\ pay[p].pc = "credit_fee"
      /\ rows' = [rows EXCEPT ![k] = r] \/ rows' = rows
      /\ UNCHANGED <<check, page, node>>
  BY DEF CreditServiceFee, create_payment, nodeVars
<1>2. Hash(p) \in Hashes
  BY <1>1, CallFacts
<1>3. k \in Keys /\ k[1] = "service_fee"
  BY <1>2, KeysOfHash
<1> HIDE DEF k, r
<1>4. CASE rows' = rows
  BY <1>1, <1>4, NoWrite
<1>5. CASE rows' = [rows EXCEPT ![k] = r]
  <2>1. LedgerStep
    BY <1>3, <1>5, QuietWrite
  <2> QED BY <1>1, <2>1, CopiesHeld, NodeKept DEF DebitStep
<1> QED
  BY <1>1, <1>4, <1>5

LEMMA VerifyDebits ==
  ASSUME IInv, DebitInv, NEW p \in Payers, VerifyAnswer(p)
  PROVE  DebitStep
<1> DEFINE k == pay[p].key
           r == update_payment_success_status(rows[k], node_fee(k))
<1>1. /\ pay[p].pc = "verify"
      /\ UNCHANGED <<check, page, node>>
      /\ \/ UNCHANGED rows
         \/ "success" \in StatusAnswers(k) /\ rows' = [rows EXCEPT ![k] = r]
  BY DEF VerifyAnswer, update_payment, nodeVars
<1>2. /\ k \in Keys /\ k[2] \in Hashes /\ k = <<k[1], k[2]>>
      /\ rows[k].status = "failed"
  BY <1>1, CallFacts, KeyParts DEF CallOK
<1>3. CASE UNCHANGED rows
  BY <1>1, <1>3, NoWrite
<1>4. CASE "success" \in StatusAnswers(k) /\ rows' = [rows EXCEPT ![k] = r]
  <2>1. Settled(k)
    BY <1>2, <1>4, AnswerIsTrue
  <2>2. k[1] = "in"
    <3>1. NodeOK(k[2])
      BY <1>2 DEF IInv, NodeInv
    <3> QED BY <1>2, <2>1, <3>1 DEF Settled, NodeOK
  <2> HIDE DEF k, r
  <2>3. LedgerStep
    BY <1>2, <1>4, <2>2, QuietWrite
  <2> QED BY <1>1, <2>3, CopiesHeld, NodeKept DEF DebitStep
<1> QED
  BY <1>1, <1>3, <1>4

LEMMA ResponseDebits ==
  ASSUME IInv, DebitInv, NEW p \in Payers, PayResponse(p)
  PROVE  DebitStep
<1> DEFINE h == Hash(p)
           k == <<"out", h>>
           r == update_payment_success_status(rows[k], node_fee(k))
<1>1. pay[p].pc = "waiting" /\ UNCHANGED <<check, page, node>>
  BY DEF PayResponse, nodeVars
<1>2. h \in Hashes /\ pay[p].key = k /\ rows[k].status = "pending"
  BY <1>1, CallFacts DEF CallOK
<1>3. k \in Keys /\ rows[k] \in Row
  BY <1>2, KeysOfHash DEF IInv, TypeOK
<1>4. rows[k].amount = -Amount[h] /\ rows[k].fee = fee_reserve_total(Amount[h], FALSE)
  <2>1. DebitOK(h)
    BY <1>2 DEF DebitInv
  <2> QED BY <1>2, <2>1 DEF DebitOK
<1>5. CASE UNCHANGED rows
  BY <1>1, <1>5, NoWrite
<1>6. CASE node[h].payment = "settled" /\ rows' = [rows EXCEPT ![k] = r]
  <2>1. /\ r.fee = FinalFee(h) /\ r.wallet = rows[k].wallet
        /\ r.amount = -Amount[h] /\ r.status = "success" /\ r \in Row
    BY <1>2, <1>3, <1>4, SuccessOfDebit
  <2> HIDE DEF r
  <2>2. LedgerStep
    BY <1>1, <1>2, <1>4, <1>6, <2>1, CopyOfStored
  <2> QED BY <1>1, <2>2, CopiesHeld, NodeKept DEF DebitStep
<1>7. CASE node[h].payment = "failed" /\ rows' = [rows EXCEPT ![k] = Failed(rows[k])]
  <2> DEFINE f == Failed(rows[k])
  <2>1. /\ f.wallet = rows[k].wallet /\ f.amount = rows[k].amount
        /\ f.status = "failed" /\ f \in Row
        /\ f.fee = fee_reserve_total(Amount[h], FALSE)
    BY <1>3, <1>4, FailedCopy DEF Failed, Row
  <2>2. rows' = [rows EXCEPT ![k] = f]
    BY <1>7
  <2> HIDE DEF f
  <2>3. LedgerStep
    BY <1>1, <1>2, <1>7, <2>1, <2>2, CopyOfStored
  <2> QED BY <1>1, <2>3, CopiesHeld, NodeKept DEF DebitStep
<1> QED
  BY <1>2, <1>5, <1>6, <1>7 DEF PayResponse, update_payment

LEMMA SendDebits ==
  ASSUME IInv, DebitInv, NEW p \in Payers, FundingSourcePay(p)
  PROVE  DebitStep
<1>1. LedgerStep
  BY DEF FundingSourcePay, LedgerStep, PayersRowsKept
<1>2. FeesKept
  <2>1. node \in [Hashes -> NodeHash] /\ Hash(p) \in Hashes
    BY CallFacts DEF IInv, TypeOK, FundingSourcePay
  <2>2. \A j \in Hashes :
          /\ node'[j].fee = node[j].fee
          /\ node[j].payment = "settled" => node'[j].payment = "settled"
          /\ node'[j].payment = "settled" => node[j].payment = "settled"
    BY <2>1 DEF FundingSourcePay, NodeHash
  <2> QED BY <2>2 DEF FeesKept
<1>3. CopiesFresh
  BY CopiesHeld DEF FundingSourcePay
<1> QED
  BY <1>1, <1>2, <1>3 DEF DebitStep

LEMMA PayDebits ==
  ASSUME IInv, DebitInv, NEW p \in Payers, PayStep(p)
  PROVE  DebitStep
<1>1. CASE \E w \in Wallets, h \in Hashes, genuine \in BOOLEAN : PayCheck(p, w, h, genuine)
  BY <1>1, NoWrite DEF PayCheck, nodeVars
<1>2. CASE PayRejected(p)
  BY <1>2, NoWrite DEF PayRejected, nodeVars
<1>3. CASE PayVerify(p)
  BY <1>3, NoWrite DEF PayVerify, nodeVars
<1>4. CASE PayTimeout(p)
  BY <1>4, NoWrite DEF PayTimeout, nodeVars
<1> QED
  BY <1>1, <1>2, <1>3, <1>4, InternalDebits, InternalCreditDebits, ExternalDebits,
     VerifyDebits, SendDebits, ResponseDebits, ServiceFeeDebits DEF PayStep

LEMMA CheckerStartDebits ==
  ASSUME IInv, DebitInv, NEW c \in Checkers,
         NEW S \in SUBSET PendingCheckable(rows), CheckerStart(c, S)
  PROVE  DebitStep
<1>1. /\ check[c].writing = {}
      /\ check' = [check EXCEPT ![c].todo = Copies(rows, S)]
      /\ UNCHANGED <<rows, page, node>>
  BY DEF CheckerStart, nodeVars
<1>2. \A item \in Copies(rows, S) : Holdable(item)
  BY PendingRowIsHoldable DEF Copies, PendingCheckable, Stored
<1>3. /\ check'[c].todo = Copies(rows, S)
      /\ check'[c].writing = {}
      /\ \A d \in Checkers : d # c => check'[d] = check[d]
  BY <1>1 DEF IInv, TypeOK
<1>4. CopiesFresh
  BY <1>1, <1>2, <1>3, HeldIsHoldable DEF CopiesFresh
<1>5. LedgerStep
  BY <1>1 DEF LedgerStep, PayersRowsKept
<1> QED
  BY <1>1, <1>4, <1>5, NodeKept DEF DebitStep

LEMMA CheckerDebits ==
  ASSUME IInv, DebitInv, NEW c \in Checkers, CheckerStep(c)
  PROVE  DebitStep
<1>1. /\ check \in [Checkers -> [todo : SUBSET Items, writing : SUBSET Items]]
      /\ \A item \in check[c].todo : PendingCopy(item) /\ Holdable(item)
      /\ \A item \in check[c].writing : VerdictCopy(item) /\ Holdable(item)
  BY HeldIsHoldable DEF IInv, TypeOK, CopiesInv
<1>2. CASE CheckerReadAll(c)
  BY <1>2, CheckerStartDebits DEF CheckerReadAll
<1>3. CASE CheckerReadOne(c)
  BY <1>3, CheckerStartDebits DEF CheckerReadOne
<1>4. CASE CheckerAsk(c)
  <2>1. PICK item \in check[c].todo : \E copy \in Verdicts(item) :
          check' = [check EXCEPT ![c].todo = @ \ {item}, ![c].writing = {<<item[1], copy>>}]
    BY <1>4 DEF CheckerAsk
  <2>2. PICK copy \in Verdicts(item) :
          check' = [check EXCEPT ![c].todo = @ \ {item}, ![c].writing = {<<item[1], copy>>}]
    BY <2>1
  <2>3. Holdable(<<item[1], copy>>)
    BY <1>1, VerdictIsHoldable
  <2>4. UNCHANGED <<rows, page, node>>
    BY <1>4 DEF CheckerAsk, nodeVars
  <2>5. /\ check'[c].todo \subseteq check[c].todo
        /\ check'[c].writing = {<<item[1], copy>>}
        /\ \A d \in Checkers : d # c => check'[d] = check[d]
    BY <1>1, <2>2
  <2>6. CopiesFresh
    BY <2>3, <2>4, <2>5, HeldIsHoldable DEF CopiesFresh
  <2>7. LedgerStep
    BY <2>4 DEF LedgerStep, PayersRowsKept
  <2> QED
    BY <2>4, <2>6, <2>7, NodeKept DEF DebitStep
<1>5. CASE CheckerSkip(c) \/ CheckerRaise(c) \/ CheckerWrite(c)
  <2>1. UNCHANGED <<page, node>>
    BY <1>5 DEF CheckerSkip, CheckerRaise, CheckerWrite, nodeVars
  <2>2. \A d \in Checkers : /\ check'[d].todo \subseteq check[d].todo
                            /\ check'[d].writing \subseteq check[d].writing
    BY <1>1, <1>5 DEF CheckerSkip, CheckerRaise, CheckerWrite
  <2>3. LedgerStep
    <3>1. CASE UNCHANGED rows
      BY <3>1 DEF LedgerStep, PayersRowsKept
    <3>2. CASE CheckerWrite(c)
      <4>1. PICK item \in check[c].writing : rows' = [rows EXCEPT ![item[1]] = item[2]]
        BY <3>2 DEF CheckerWrite, update_payment
      <4> QED BY <1>1, <2>1, <4>1, AnswerWrite
    <3> QED BY <1>5, <3>1, <3>2 DEF CheckerSkip, CheckerRaise
  <2> QED
    BY <2>1, <2>2, <2>3, CopiesHeld, NodeKept DEF DebitStep
<1> QED
  BY <1>2, <1>3, <1>4, <1>5 DEF CheckerStep

LEMMA PageDebits ==
  ASSUME IInv, DebitInv, NEW g \in Pagers, PageStep(g)
  PROVE  DebitStep
<1>1. /\ page \in [Pagers -> SUBSET Items]
      /\ \A item \in page[g] : PendingCopy(item) /\ Holdable(item)
  BY HeldIsHoldable DEF IInv, TypeOK, CopiesInv
<1>2. CASE \E w \in Wallets : PageBegin(g, w)
  <2>1. PICK w \in Wallets : PageBegin(g, w)
    BY <1>2
  <2> DEFINE S == {k \in Stored(rows) : rows[k].wallet = w /\ rows[k].status = "pending"}
  <2>2. page' = [page EXCEPT ![g] = Copies(rows, S)] /\ UNCHANGED <<rows, check, node>>
    BY <2>1 DEF PageBegin, nodeVars
  <2>3. \A item \in Copies(rows, S) : Holdable(item)
    BY PendingRowIsHoldable DEF Copies, Stored
  <2> HIDE DEF S
  <2>4. CopiesFresh
    BY <1>1, <2>2, <2>3, HeldIsHoldable DEF CopiesFresh
  <2>5. LedgerStep
    BY <2>2 DEF LedgerStep, PayersRowsKept
  <2> QED
    BY <2>2, <2>4, <2>5, NodeKept DEF DebitStep
<1>3. CASE PageCheck(g) \/ PageEnd(g)
  <2>1. /\ \A f \in Pagers : page'[f] \subseteq page[f]
        /\ UNCHANGED <<check, node>>
    BY <1>1, <1>3 DEF PageCheck, PageEnd, nodeVars
  <2>2. LedgerStep
    <3>1. CASE UNCHANGED rows
      BY <3>1 DEF LedgerStep, PayersRowsKept
    <3>2. CASE PageCheck(g) /\ rows' # rows
      <4>1. PICK item \in page[g] : \E copy \in Verdicts(item) : rows' = [rows EXCEPT ![item[1]] = copy]
        BY <3>2 DEF PageCheck, update_payment
      <4>2. PICK copy \in Verdicts(item) : rows' = [rows EXCEPT ![item[1]] = copy]
        BY <4>1
      <4> DEFINE verdict == <<item[1], copy>>
      <4>3. Holdable(verdict) /\ VerdictCopy(verdict)
        BY <1>1, VerdictIsHoldable
      <4>4. rows' = [rows EXCEPT ![verdict[1]] = verdict[2]]
        BY <4>2
      <4> HIDE DEF verdict
      <4> QED BY <2>1, <4>3, <4>4, AnswerWrite
    <3> QED BY <1>3, <3>1, <3>2 DEF PageEnd
  <2> QED
    BY <2>1, <2>2, CopiesHeld, NodeKept DEF DebitStep
<1> QED
  BY <1>2, <1>3 DEF PageStep

LEMMA ProducerDebits ==
  ASSUME IInv, DebitInv, ProducerStep
  PROVE  DebitStep
<1>1. CASE \E h \in Hashes : ProducerRead(h)
  BY <1>1, NoWrite DEF ProducerRead
<1>2. CASE ProducerSkip
  BY <1>2, NoWrite DEF ProducerSkip, nodeVars
<1>3. CASE ProducerWrite
  <2>1. PICK item \in producer : rows' = [rows EXCEPT ![item[1]] = [item[2] EXCEPT !.status = "success"]]
    BY <1>3 DEF ProducerWrite, update_payment
  <2>2. item[1] \in Keys /\ item[1][1] \in {"in", "service_fee"}
    BY DEF IInv, TypeOK, Items, CopiesInv, ProducerOK
  <2>3. LedgerStep
    BY <2>1, <2>2, QuietWrite
  <2>4. UNCHANGED <<check, page, node>>
    BY <1>3 DEF ProducerWrite, nodeVars
  <2> QED BY <2>3, <2>4, CopiesHeld, NodeKept DEF DebitStep
<1> QED
  BY <1>1, <1>2, <1>3 DEF ProducerStep

LEMMA NodeDebits ==
  ASSUME IInv, DebitInv, NodeStep
  PROVE  DebitStep
<1>1. PICK h \in Hashes : NodeReceives(h) \/ NodePays(h) \/ NodeFails(h) \/ Expire(h)
  BY DEF NodeStep
<1>2. UNCHANGED <<rows, check, page>>
  BY <1>1 DEF NodeReceives, NodePays, NodeFails, Expire, taskVars
<1>3. node \in [Hashes -> NodeHash]
  BY DEF IInv, TypeOK
<1>4. FeesKept
  <2>1. CASE NodePays(h)
    <3>1. PICK f \in NodeFees :
            /\ f <= fee_reserve(Amount[h], FALSE)
            /\ node' = [node EXCEPT ![h].payment = "settled", ![h].fee = f]
      BY <2>1 DEF NodePays
    <3>2. node'[h].fee = f /\ node'[h].payment = "settled"
      BY <1>3, <3>1 DEF NodeHash
    <3>3. \A j \in Hashes : j # h => node'[j] = node[j]
      BY <1>3, <3>1
    <3>4. node[h].payment # "settled"
      BY <2>1 DEF NodePays
    <3>5. node'[h].fee <= fee_reserve(Amount[h], FALSE)
      BY <3>1, <3>2
    <3> QED
      BY <3>2, <3>3, <3>4, <3>5 DEF FeesKept
  <2>2. CASE NodeReceives(h) \/ NodeFails(h) \/ Expire(h)
    <3>1. \A j \in Hashes :
            /\ node'[j].fee = node[j].fee
            /\ node'[j].payment = "settled" <=> node[j].payment = "settled"
      BY <1>3, <2>2 DEF NodeReceives, NodeFails, Expire, NodeHash
    <3> QED
      BY <3>1 DEF FeesKept
  <2> QED
    BY <1>1, <2>1, <2>2
<1>5. LedgerStep
  BY <1>2 DEF LedgerStep, PayersRowsKept
<1> QED
  BY <1>2, <1>4, <1>5, CopiesHeld DEF DebitStep

LEMMA CrashDebits ==
  ASSUME IInv, DebitInv, Crash
  PROVE  DebitStep
<1>1. /\ check' = [c \in Checkers |-> [todo |-> {}, writing |-> {}]]
      /\ page' = [g \in Pagers |-> {}]
      /\ UNCHANGED <<rows, node>>
  BY DEF Crash
<1>2. CopiesFresh
  BY <1>1 DEF CopiesFresh
<1>3. LedgerStep
  BY <1>1 DEF LedgerStep, PayersRowsKept
<1> QED
  BY <1>1, <1>2, <1>3, NodeKept DEF DebitStep

LEMMA EveryStepDebits ==
  ASSUME IInv, DebitInv, [Next]_vars
  PROVE  DebitStep
<1>1. CASE \E h \in Hashes : create_invoice(h)
  BY <1>1, CreateInvoiceDebits
<1>2. CASE \E p \in Payers : PayStep(p)
  BY <1>2, PayDebits
<1>3. CASE \E c \in Checkers : CheckerStep(c)
  BY <1>3, CheckerDebits
<1>4. CASE \E g \in Pagers : PageStep(g)
  BY <1>4, PageDebits
<1>5. CASE ProducerStep
  BY <1>5, ProducerDebits
<1>6. CASE NodeStep
  BY <1>6, NodeDebits
<1>7. CASE Crash
  BY <1>7, CrashDebits
<1>8. CASE UNCHANGED vars
  BY <1>8, NoWrite DEF vars
<1> QED
  BY <1>1, <1>2, <1>3, <1>4, <1>5, <1>6, <1>7, <1>8 DEF Next

-----------------------------------------------------------------------------
LEMMA InitDebits == Init => DebitInv /\ Promise!Init
<1> SUFFICES ASSUME Init PROVE DebitInv /\ Promise!Init
  OBVIOUS
<1>1. /\ rows = [k \in Keys |-> NoRow]
      /\ check = [c \in Checkers |-> [todo |-> {}, writing |-> {}]]
      /\ page = [g \in Pagers |-> {}]
      /\ \A h \in Hashes : node[h].payment = "none"
  BY DEF Init
<1>2. \A h \in Hashes : rows[<<"out", h>>] = NoRow /\ rows[<<"internal", h>>] = NoRow
  BY <1>1, KeysOfHash
<1>3. NoRow.status = "none" /\ NoRow.wallet = NoWallet
  BY DEF NoRow
<1>4. DebitInv
  <2>1. \A h \in Hashes : DebitOK(h)
    BY <1>1, <1>2, <1>3 DEF DebitOK
  <2> QED BY <1>1, <2>1 DEF DebitInv
<1>5. Bill(NoRow) = Promise!Unpaid
  <2>1. Contribution(NoRow) = 0
    BY <1>3 DEF Contribution, Counted
  <2>2. 0 - Contribution(NoRow) = 0
    BY <2>1
  <2> QED BY <1>3, <2>2 DEF Bill, StateOf, Promise!Unpaid
<1>6. \A h \in Hashes : Bill(rows[PayersKey(h)]) = Promise!Unpaid
  BY <1>2, <1>3, <1>5 DEF PayersKey
<1>7. Promise!Init
  BY <1>6 DEF Promise!Init, bill
<1> QED
  BY <1>4, <1>7

LEMMA DebitInvIsInductive ==
  ASSUME IInv, DebitInv, [Next]_vars
  PROVE  DebitInv' /\ [Promise!Next]_bill
<1>1. LedgerStep /\ FeesKept /\ CopiesFresh
  BY EveryStepDebits DEF DebitStep
<1>2. DebitsOK
  BY DEF DebitInv, DebitsOK
<1>3. DebitsOK' /\ PayersStay /\ [Promise!Next]_bill
  BY <1>1, <1>2, LedgerStepKeeps
<1>4. \A c \in Checkers : \A item \in check'[c].todo \cup check'[c].writing : DebitCopy(item)'
  BY <1>1, <1>3, HoldableStays DEF CopiesFresh
<1>5. \A g \in Pagers : \A item \in page'[g] : DebitCopy(item)'
  BY <1>1, <1>3, HoldableStays DEF CopiesFresh
<1> QED
  BY <1>3, <1>4, <1>5 DEF DebitInv, DebitsOK

LEMMA FinalRowsStay ==
  ASSUME IInv, DebitInv, [Next]_vars, NEW k \in Keys,
         k[1] \in {"out", "internal"}, rows[k].status \in {"success", "failed"}
  PROVE  rows'[k] = rows[k]
<1> DEFINE h == k[2]
<1>1. h \in Hashes /\ k = <<k[1], h>>
  BY KeyParts
<1>2. DebitOK(h) /\ NodeOK(h) /\ RowsOK(h)
  BY <1>1 DEF DebitInv, IInv, NodeInv, RowsInv
<1>3. CASE PayersRowsKept
  BY <1>1, <1>3 DEF PayersRowsKept
<1>4. ASSUME NEW j \in Keys, NEW r \in Row, rows' = [rows EXCEPT ![j] = r],
             DebitStart(j, r) \/ DebitEnd(j, r)
      PROVE  rows'[k] = rows[k]
  <2>1. rows'[j] = r /\ (j # k => rows'[k] = rows[k])
    BY <1>4 DEF IInv, TypeOK
  <2>2. CASE j # k
    BY <2>1, <2>2
  <2>3. CASE j = k
    <3>1. DebitEnd(k, r)
      BY <1>1, <1>4, <2>3 DEF DebitStart
    <3>2. k = <<"out", h>>
      BY <1>1, <3>1 DEF DebitEnd
    <3>3. r.status = rows[k].status
      BY <1>2, <3>1, <3>2 DEF DebitEnd, NodeOK
    <3>4. r.wallet = rows[k].wallet /\ r.amount = rows[k].amount
      BY <1>2, <3>1, <3>2 DEF DebitEnd, DebitOK
    <3>5. r.fee = rows[k].fee
      BY <1>2, <3>1, <3>2, <3>3 DEF DebitEnd, DebitOK
    <3>6. rows[k] \in Row
      BY DEF IInv, TypeOK
    <3> QED
      BY <2>1, <2>3, <3>3, <3>4, <3>5, <3>6 DEF Row
  <2> QED BY <2>2, <2>3
<1> QED
  BY <1>3, <1>4, EveryStepDebits DEF DebitStep, LedgerStep

\* The fee and the payer of a payment stay tied to the node's answer, in the
\* ledger and in every copy of it a task holds.
THEOREM DebitsHold == Spec => []DebitInv
<1>1. Init => DebitInv
  BY InitDebits
<1>2. IInv /\ DebitInv /\ [Next]_vars => DebitInv'
  BY DebitInvIsInductive
<1> QED
  BY <1>1, <1>2, InvariantHolds, PTL DEF Spec

\* The payer's row never changes again once it is final, although whole rows
\* are written from copies read long before.
THEOREM FinalRowsAreFinal == Spec => FinalIsFinal
<1> DEFINE Kept == \A k \in Keys :
             k[1] \in {"out", "internal"} /\ rows[k].status \in {"success", "failed"}
               => rows'[k] = rows[k]
<1>1. IInv /\ DebitInv /\ [Next]_vars => [Kept]_vars
  BY FinalRowsStay
<1> QED
  BY <1>1, InvariantHolds, DebitsHold, PTL DEF Spec, FinalIsFinal

\* Payments implements PaymentPromise: pay_invoice, the checks and restarts
\* reserve, settle or refund a payment once, and never charge more than was
\* reserved.
THEOREM PaymentsImplementPromise == Spec => PromiseKept
<1>1. Init => Promise!Init
  BY InitDebits
<1>2. IInv /\ DebitInv /\ [Next]_vars => [Promise!Next]_bill
  BY DebitInvIsInductive
<1> QED
  BY <1>1, <1>2, InvariantHolds, DebitsHold, PTL DEF Spec, PromiseKept, Promise!Spec

-----------------------------------------------------------------------------
(* The rows of a hash together.                                              *)
OfKinds(F, h) ==
  F[<<"in", h>>] + F[<<"out", h>>] + F[<<"internal", h>>] + F[<<"service_fee", h>>]

LEMMA KeysAreFinite == IsFiniteSet(Kinds) /\ IsFiniteSet(Hashes) /\ IsFiniteSet(Keys)
<1>1. Kinds = {"in"} \cup {"out"} \cup {"internal"} \cup {"service_fee"}
  BY DEF Kinds
<1>2. IsFiniteSet({"in"}) /\ IsFiniteSet({"out"}) /\ IsFiniteSet({"internal"})
      /\ IsFiniteSet({"service_fee"})
  BY FS_Singleton
<1>3. IsFiniteSet({"in"} \cup {"out"})
  BY <1>2, FS_Union
<1>4. IsFiniteSet({"in"} \cup {"out"} \cup {"internal"})
  BY <1>2, <1>3, FS_Union
<1>5. IsFiniteSet(Kinds)
  BY <1>1, <1>2, <1>4, FS_Union
<1>6. IsFiniteSet(Hashes)
  BY LedgerConstants
<1>7. IsFiniteSet(Keys)
  BY <1>5, <1>6, FS_Product DEF Keys
<1> QED BY <1>5, <1>6, <1>7

LEMMA SumByHash ==
  ASSUME NEW F, \A k \in Keys : F[k] \in Int
  PROVE  SumFunctionOnSet(F, Keys) = SumFunctionOnSet([h \in Hashes |-> OfKinds(F, h)], Hashes)
<1> DEFINE G == [h \in Hashes |-> OfKinds(F, h)]
           Good == {s \in SUBSET Hashes : SumFunctionOnSet(F, Kinds \X s) = SumFunctionOnSet(G, s)}
<1>0. IsFiniteSet(Hashes) /\ IsFiniteSet(Kinds)
  BY KeysAreFinite
<1>1. ASSUME NEW s \in SUBSET Hashes, \A h \in s : s \ {h} \in Good PROVE s \in Good
  <2>1. CASE s = {}
    <3>1. Kinds \X s = {}
      BY <2>1
    <3> QED BY <2>1, <3>1, SumNone
  <2>2. ASSUME NEW h \in s PROVE s \in Good
    <3> DEFINE in == <<"in", h>>  out == <<"out", h>>
               internal == <<"internal", h>>  fee == <<"service_fee", h>>
               A == Kinds \X s  B == A \ {in}  C == B \ {out}  D == C \ {internal}
               E == Kinds \X (s \ {h})
    <3>1. IsFiniteSet(A) /\ IsFiniteSet(s) /\ A \subseteq Keys
      <4>1. IsFiniteSet(s)
        BY <1>0, FS_Subset
      <4>2. IsFiniteSet(A)
        BY <1>0, <4>1, FS_Product
      <4> QED BY <4>1, <4>2 DEF Keys
    <3>2. /\ in \in A /\ out \in B /\ internal \in C /\ fee \in D
          /\ B \subseteq A /\ C \subseteq A /\ D \subseteq A
      BY DEF Kinds
    <3>3. D \ {fee} = E
      BY DEF Kinds
    <3>4. IsFiniteSet(B) /\ IsFiniteSet(C) /\ IsFiniteSet(D) /\ IsFiniteSet(E)
      <4>1. IsFiniteSet(B)
        BY <3>1, <3>2, FS_Subset
      <4>2. IsFiniteSet(C)
        BY <3>1, <3>2, FS_Subset
      <4>3. IsFiniteSet(D)
        BY <3>1, <3>2, FS_Subset
      <4>4. IsFiniteSet(E)
        BY <3>3, <4>3, FS_Subset
      <4> QED BY <4>1, <4>2, <4>3, <4>4
    <3> HIDE DEF A, E
    <3>5. SumFunctionOnSet(F, A) = F[in] + SumFunctionOnSet(F, B)
      BY <3>1, <3>2, SumStep
    <3> HIDE DEF B
    <3>6. SumFunctionOnSet(F, B) = F[out] + SumFunctionOnSet(F, C)
      BY <3>1, <3>2, <3>4, SumStep
    <3> HIDE DEF C
    <3>7. SumFunctionOnSet(F, C) = F[internal] + SumFunctionOnSet(F, D)
      BY <3>1, <3>2, <3>4, SumStep
    <3> HIDE DEF D
    <3>8. SumFunctionOnSet(F, D) = F[fee] + SumFunctionOnSet(F, E)
      BY <3>1, <3>2, <3>3, <3>4, SumStep
    <3>9. \A x \in E : F[x] \in Int
      BY <3>1, <3>2, <3>3
    <3>10. SumFunctionOnSet(F, E) \in Int
      BY <3>4, <3>9, SumTyped
    <3>11. F[in] \in Int /\ F[out] \in Int /\ F[internal] \in Int /\ F[fee] \in Int
      BY <3>1, <3>2
    <3>12. \A x \in s : G[x] \in Int
      BY DEF OfKinds, Keys, Kinds
    <3>13. SumFunctionOnSet(G, s) = G[h] + SumFunctionOnSet(G, s \ {h})
      BY <3>1, <3>12, SumStep
    <3>14. G[h] = F[in] + F[out] + F[internal] + F[fee]
      BY DEF OfKinds
    <3>15. SumFunctionOnSet(F, E) = SumFunctionOnSet(G, s \ {h})
      BY <1>1 DEF E
    <3> DEFINE a == F[in]  b == F[out]  c == F[internal]  d == F[fee]
               f == SumFunctionOnSet(F, E)
    <3>16. SumFunctionOnSet(F, A) = SumFunctionOnSet(G, s)
      <4>1. SumFunctionOnSet(F, A) = a + (b + (c + (d + f)))
        BY <3>5, <3>6, <3>7, <3>8
      <4>2. SumFunctionOnSet(G, s) = (a + b + c + d) + f
        BY <3>13, <3>14, <3>15
      <4>3. a \in Int /\ b \in Int /\ c \in Int /\ d \in Int /\ f \in Int
        BY <3>10, <3>11
      <4>4. a + (b + (c + (d + f))) = (a + b + c + d) + f
        <5> HIDE DEF a, b, c, d, f
        <5> QED BY <4>3
      <4> QED BY <4>1, <4>2, <4>4
    <3> QED BY <3>16 DEF A
  <2> QED BY <2>1, <2>2
<1> HIDE DEF Good, G
<1>2. SUBSET Hashes \subseteq Good
  BY <1>0, <1>1, SubsetInduction
<1>3. Keys = Kinds \X Hashes
  BY DEF Keys
<1> QED BY <1>2, <1>3 DEF Good, G

-----------------------------------------------------------------------------
(***************************************************************************)
(* Solvency, one hash at a time                                            *)
(***************************************************************************)
(* What the rows of S, and only those, count for.                            *)
Part(t, S) == [k \in Keys |-> IF k \in S THEN Contribution(t[k]) ELSE 0]

LEMMA RowCounts ==
  ASSUME NEW r \in Row
  PROVE  /\ Contribution(r) \in Int
         /\ r.status = "none" => Contribution(r) = 0
         /\ r.status = "failed" => Contribution(r) = 0
         /\ r.status = "success" => Contribution(r) = r.amount - r.fee
         /\ r.status = "pending" /\ r.amount < 0 => Contribution(r) = r.amount - r.fee
         /\ r.status = "pending" /\ r.amount > 0 => Contribution(r) = 0
<1>1. r.amount \in Int /\ r.fee \in Nat
  BY DEF Row
<1>2. r.amount > 0 => ~(r.amount < 0)
  BY <1>1
<1> QED BY <1>1, <1>2 DEF Contribution, Counted

LEMMA KindsTyped ==
  ASSUME NEW F, \A k \in Keys : F[k] \in Int, NEW h \in Hashes
  PROVE  OfKinds(F, h) \in Int
<1> DEFINE a == F[<<"in", h>>]  b == F[<<"out", h>>]
           c == F[<<"internal", h>>]  d == F[<<"service_fee", h>>]
<1>1. a \in Int /\ b \in Int /\ c \in Int /\ d \in Int
  BY KeysOfHash
<1>2. OfKinds(F, h) = a + b + c + d
  BY DEF OfKinds
<1>3. a + b + c + d \in Int
  <2> HIDE DEF a, b, c, d
  <2> QED BY <1>1
<1> QED BY <1>2, <1>3

LEMMA TotalByHash ==
  ASSUME NEW t \in [Keys -> Row], NEW S \in SUBSET Keys
  PROVE  /\ Total(t, S) = SumFunctionOnSet([h \in Hashes |-> OfKinds(Part(t, S), h)], Hashes)
         /\ \A h \in Hashes : OfKinds(Part(t, S), h) \in Int
<1> DEFINE F == Contributions(t)
           G == Part(t, S)
<1>1. \A k \in Keys : F[k] \in Int /\ G[k] = IF k \in S THEN F[k] ELSE 0
  BY RowCounts DEF Contributions, Part
<1>2. \A k \in Keys : G[k] \in Int
  BY <1>1
<1> HIDE DEF F, G
<1>3. SumFunctionOnSet(F, S) = SumFunctionOnSet(G, Keys)
  BY <1>1, KeysAreFinite, SumOfPart
<1>4. SumFunctionOnSet(G, Keys) = SumFunctionOnSet([h \in Hashes |-> OfKinds(G, h)], Hashes)
  BY <1>2, SumByHash
<1>5. \A h \in Hashes : OfKinds(G, h) \in Int
  BY <1>2, KindsTyped
<1> QED BY <1>3, <1>4, <1>5 DEF F, G, Total

LEMMA InternalFee ==
  ASSUME NEW h \in Hashes
  PROVE  /\ service_fee(Amount[h], TRUE) \in Nat
         /\ service_fee(Amount[h], FALSE) \in Nat
         /\ fee_reserve_total(Amount[h], TRUE) = service_fee(Amount[h], TRUE)
<1>1. Amount[h] \in Int
  BY PaymentConstants
<1>2. service_fee(Amount[h], TRUE) \in Nat /\ service_fee(Amount[h], FALSE) \in Nat
  BY <1>1, FeesAreNatural
<1>3. fee_reserve(Amount[h], TRUE) = 0
  BY DEF fee_reserve
<1> DEFINE f == service_fee(Amount[h], TRUE)  z == fee_reserve(Amount[h], TRUE)
<1>4. z + f = f
  <2>1. z = 0 /\ f \in Nat
    BY <1>2, <1>3
  <2> HIDE DEF z, f
  <2> QED BY <2>1
<1> QED BY <1>2, <1>4 DEF fee_reserve_total

-----------------------------------------------------------------------------
(* What a hash whose invoice is another node's adds up to.                   *)
LEMMA HashOutSolvent ==
  ASSUME IInv, DebitInv, CreditInv, NEW h \in Hashes, Issuer[h] = NoWallet
  PROVE  OfKinds(Contributions(rows), h)
           <= Received(h) - Committed(h)
                + (IF Debited(h) THEN 0 ELSE Contribution(rows[<<"service_fee", h>>]))
<1> DEFINE a == Amount[h]
           reserve == fee_reserve(Amount[h], FALSE)
           fee == service_fee(Amount[h], FALSE)
           in == rows[<<"in", h>>]
           out == rows[<<"out", h>>]
           internal == rows[<<"internal", h>>]
           credit == rows[<<"service_fee", h>>]
           paid == node[h].fee
<1>1. RowsOK(h) /\ NodeOK(h) /\ DebitOK(h) /\ CreditOK(h)
  BY DEF IInv, RowsInv, NodeInv, DebitInv, CreditInv
<1>2. in \in Row /\ out \in Row /\ internal \in Row /\ credit \in Row
  BY KeysOfHash DEF IInv, TypeOK
<1>3. in.status = "none" /\ internal.status = "none" /\ node[h].invoice = "none"
  <2>1. node[h].invoice \in {"none", "open", "settled"}
    BY DEF IInv, TypeOK, NodeHash
  <2> QED BY <1>1, <1>2, <2>1 DEF RowsOK, NodeOK, Row
<1>4. Contribution(in) = 0 /\ Contribution(internal) = 0 /\ Received(h) = 0
  BY <1>2, <1>3, RowCounts DEF Received
<1>5. /\ a \in Nat /\ reserve \in Nat /\ fee \in Nat
      /\ fee_reserve_total(Amount[h], FALSE) = reserve + fee
  BY FeesOfAmounts
<1>6. Contribution(credit) \in {0, fee}
  <2>1. credit.status \in {"none", "success"}
    BY <1>1, <1>2 DEF RowsOK
  <2>2. CASE credit.status = "none"
    BY <1>2, <2>2, RowCounts
  <2>3. CASE credit.status = "success"
    <3>1. credit.amount = service_fee(Amount[h], FALSE) /\ credit.fee = 0
      BY <1>1, <1>3, <2>3 DEF CreditOK
    <3>2. Contribution(credit) = credit.amount - credit.fee
      BY <1>2, <2>3, RowCounts
    <3> HIDE DEF fee
    <3>3. credit.amount = fee
      BY <3>1 DEF fee
    <3>4. Contribution(credit) = fee
      <4> DEFINE c == Contribution(credit)  x == credit.amount  y == credit.fee
      <4>1. c = x - y /\ x = fee /\ y = 0 /\ fee \in Nat
        BY <1>5, <3>1, <3>2, <3>3 DEF fee
      <4>2. c = fee
        <5> HIDE DEF c, x, y
        <5> QED BY <4>1
      <4> QED BY <4>2
    <3> QED BY <3>4
  <2> QED BY <2>1, <2>2, <2>3
<1>7. OfKinds(Contributions(rows), h) = 0 + Contribution(out) + 0 + Contribution(credit)
  BY <1>4, KeysOfHash DEF OfKinds, Contributions
<1>8. /\ node[h].payment \in {"none", "inflight", "settled", "failed"}
      /\ paid \in Nat
  BY DEF IInv, TypeOK, NodeHash
<1>9. /\ out.amount = -a \/ out.status = "none"
      /\ Debited(h) <=> out.status \in {"pending", "success"}
  <2>1. out.status # "none" => out.amount = -Amount[h] /\ out.amount < 0
    BY <1>1 DEF DebitOK, RowsOK
  <2>2. ~Counted(internal)
    BY <1>3 DEF Counted
  <2> QED BY <1>2, <2>1, <2>2 DEF Debited, Counted, Row
<1> DEFINE c == Contribution(credit)
           o == Contribution(out)
           spent == Committed(h)
<1>10. c \in {0, fee} /\ o \in Int /\ c \in Int
  BY <1>2, <1>6, RowCounts
<1>11. CASE out.status = "none"
  <2>1. node[h].payment = "none"
    BY <1>1, <1>11 DEF NodeOK
  <2>2. spent = 0 /\ o = 0
    BY <1>2, <1>11, <2>1, RowCounts DEF Committed
  <2>3. 0 + o + 0 + c <= 0 - spent + c
    <3> HIDE DEF c, o, spent
    <3> QED BY <1>10, <2>2
  <2> QED BY <1>4, <1>7, <1>9, <1>11, <2>3
<1>12. CASE out.status = "failed"
  <2>1. node[h].payment = "failed"
    BY <1>1, <1>12 DEF NodeOK
  <2>2. spent = 0 /\ o = 0
    BY <1>2, <1>12, <2>1, RowCounts DEF Committed
  <2>3. 0 + o + 0 + c <= 0 - spent + c
    <3> HIDE DEF c, o, spent
    <3> QED BY <1>10, <2>2
  <2> QED BY <1>4, <1>7, <1>9, <1>12, <2>3
<1>13. CASE out.status = "pending"
  <2>1. out.amount = -a /\ out.fee = reserve + fee /\ out.amount < 0
    BY <1>1, <1>5, <1>13 DEF DebitOK, RowsOK
  <2>2. o = out.amount - out.fee
    BY <1>2, <1>13, <2>1, RowCounts
  <2>3. node[h].payment = "settled" => paid <= reserve
    BY <1>1 DEF DebitOK
  <2>4. spent \in Int /\ spent <= a + reserve
    <3>1. CASE node[h].payment = "settled"
      <4>1. spent = a + paid
        BY <3>1 DEF Committed
      <4> HIDE DEF a, reserve, paid, spent
      <4> QED BY <1>5, <1>8, <2>3, <3>1, <4>1
    <3>2. CASE node[h].payment = "inflight"
      <4>1. spent = a + reserve
        BY <3>2 DEF Committed
      <4> HIDE DEF a, reserve, spent
      <4> QED BY <1>5, <4>1
    <3>3. CASE node[h].payment \in {"none", "failed"}
      <4>1. spent = 0
        BY <3>3 DEF Committed
      <4> HIDE DEF a, reserve, spent
      <4> QED BY <1>5, <4>1
    <3> QED BY <1>8, <3>1, <3>2, <3>3
  <2>5. 0 + o + 0 + c <= 0 - spent + 0
    <3> DEFINE x == out.amount  y == out.fee
    <3>1. x = -a /\ y = reserve + fee /\ o = x - y
      BY <2>1, <2>2
    <3> HIDE DEF a, reserve, fee, c, o, spent, x, y
    <3> QED BY <1>5, <1>10, <2>4, <3>1
  <2> QED BY <1>4, <1>7, <1>9, <1>13, <2>5
<1>14. CASE out.status = "success"
  <2>1. node[h].payment = "settled"
    BY <1>1, <1>14 DEF NodeOK
  <2>2. out.amount = -a /\ out.fee = paid + fee
    BY <1>1, <1>14 DEF DebitOK, FinalFee
  <2>3. o = out.amount - out.fee
    BY <1>2, <1>14, RowCounts
  <2>4. spent = a + paid
    BY <2>1 DEF Committed
  <2>5. 0 + o + 0 + c <= 0 - spent + 0
    <3> DEFINE x == out.amount  y == out.fee
    <3>1. x = -a /\ y = paid + fee /\ o = x - y
      BY <2>2, <2>3
    <3> HIDE DEF a, paid, fee, c, o, spent, x, y
    <3> QED BY <1>5, <1>8, <1>10, <2>4, <3>1
  <2> QED BY <1>4, <1>7, <1>9, <1>14, <2>5
<1>15. out.status \in {"none", "pending", "success", "failed"}
  BY <1>2 DEF Row
<1> QED BY <1>11, <1>12, <1>13, <1>14, <1>15

(* And one whose invoice is a local wallet's.                                *)
LEMMA HashInSolvent ==
  ASSUME IInv, DebitInv, CreditInv, NEW h \in Hashes, Issuer[h] # NoWallet
  PROVE  OfKinds(Contributions(rows), h)
           <= Received(h) - Committed(h)
                + (IF Debited(h) THEN 0 ELSE Contribution(rows[<<"service_fee", h>>]))
<1> DEFINE a == Amount[h]
           fee == service_fee(Amount[h], TRUE)
           in == rows[<<"in", h>>]
           out == rows[<<"out", h>>]
           internal == rows[<<"internal", h>>]
           credit == rows[<<"service_fee", h>>]
           i == Contribution(in)
           d == Contribution(internal)
           c == Contribution(credit)
           got == Received(h)
<1>1. RowsOK(h) /\ NodeOK(h) /\ DebitOK(h) /\ CreditOK(h)
  BY DEF IInv, RowsInv, NodeInv, DebitInv, CreditInv
<1>2. in \in Row /\ out \in Row /\ internal \in Row /\ credit \in Row
  BY KeysOfHash DEF IInv, TypeOK
<1>3. out.status = "none" /\ node[h].payment = "none"
  <2>1. out.status = "none"
    BY <1>1 DEF RowsOK
  <2>2. node[h].requests = 0
    BY <1>1, <2>1 DEF NodeOK
  <2> QED BY <1>1, <2>1, <2>2 DEF NodeOK
<1>4. Contribution(out) = 0 /\ Committed(h) = 0
  BY <1>2, <1>3, RowCounts DEF Committed
<1>5. a \in Nat /\ a > 0 /\ fee \in Nat /\ fee_reserve_total(Amount[h], TRUE) = fee
  BY InternalFee, FeesOfAmounts
<1>6. i \in Int /\ d \in Int /\ c \in Int
  BY <1>2, RowCounts
<1>7. i <= a /\ (in.status # "success" => i = 0)
  <2>1. in.status # "none" => in.amount = a /\ in.amount > 0
    BY <1>1 DEF CreditOK, RowsOK
  <2>2. CASE in.status = "success"
    <3> DEFINE x == in.amount  y == in.fee
    <3>1. i = x - y /\ x = a /\ y \in Nat
      BY <1>2, <2>1, <2>2, RowCounts DEF Row
    <3>2. i <= a
      <4> HIDE DEF i, a, x, y
      <4> QED BY <1>5, <3>1
    <3> QED BY <2>2, <3>2
  <2>3. CASE in.status # "success"
    <3>1. i = 0
      BY <1>2, <2>1, <2>3, RowCounts DEF Row
    <3>2. i <= a
      <4> HIDE DEF i, a
      <4> QED BY <1>5, <3>1
    <3> QED BY <3>1, <3>2
  <2> QED BY <2>2, <2>3
<1>8. OfKinds(Contributions(rows), h) = i + 0 + d + c
  BY <1>4, KeysOfHash DEF OfKinds, Contributions
<1>9. Debited(h) <=> Counted(internal)
  BY <1>3 DEF Debited, Counted
<1>10. got \in {0, a}
  BY DEF Received
<1>11. CASE internal.status = "success"
  <2>1. internal.amount = -a /\ internal.fee = fee
    BY <1>1, <1>5, <1>11 DEF DebitOK, CreditOK
  <2>2. c \in {0, fee}
    <3>1. CASE credit.status = "none"
      BY <1>2, <3>1, RowCounts
    <3>2. CASE credit.status = "success"
      <4> DEFINE x == credit.amount  y == credit.fee
      <4>1. c = x - y
        BY <1>2, <3>2, RowCounts
      <4>2. credit.amount = service_fee(Amount[h], TRUE) /\ credit.fee = 0
        BY <1>1, <1>11, <3>2 DEF CreditOK
      <4>3. x = fee /\ y = 0
        BY <4>2
      <4>4. c = fee
        <5> HIDE DEF c, x, y, fee
        <5> QED BY <1>5, <4>1, <4>3
      <4> QED BY <4>4
    <3> QED BY <1>1, <1>2, <3>1, <3>2 DEF RowsOK
  <2>3. d = -a - fee
    <3> DEFINE x == internal.amount  y == internal.fee
    <3>1. d = x - y
      BY <1>2, <1>11, RowCounts
    <3> QED BY <2>1, <3>1
  <2>4. i + 0 + d + c <= got - 0 + 0
    <3> HIDE DEF a, fee, i, d, c, got
    <3> QED BY <1>5, <1>6, <1>7, <1>10, <2>2, <2>3
  <2>5. Debited(h)
    BY <1>9, <1>11 DEF Counted
  <2> QED BY <1>4, <1>8, <2>4, <2>5
<1>12. CASE internal.status = "none"
  <2>1. d = 0 /\ ~Debited(h)
    BY <1>2, <1>9, <1>12, RowCounts DEF Counted
  <2>2. i <= got
    <3>1. CASE in.status = "success"
      <4>1. Paid(h)
        BY <1>1, <3>1 DEF RowsOK
      <4>2. got = a
        BY <1>12, <4>1 DEF Paid, Received
      <4> QED BY <1>7, <4>2
    <3>2. CASE in.status # "success"
      <4>1. i = 0
        BY <1>7, <3>2
      <4>2. i <= got
        <5> HIDE DEF i, got, a
        <5> QED BY <1>5, <1>10, <4>1
      <4> QED BY <4>2
    <3> QED BY <3>1, <3>2
  <2>3. i + 0 + d + c <= got - 0 + c
    <3> HIDE DEF a, i, d, c, got
    <3> QED BY <1>5, <1>6, <1>10, <2>1, <2>2
  <2> QED BY <1>4, <1>8, <2>1, <2>3
<1> QED BY <1>1, <1>11, <1>12 DEF RowsOK

LEMMA SolventFollows == IInv /\ DebitInv /\ CreditInv => Solvent
<1> SUFFICES ASSUME IInv, DebitInv, CreditInv PROVE Solvent
  OBVIOUS
<1> DEFINE U == {<<"service_fee", h>> : h \in {j \in Hashes : ~Debited(j)}}
           A == [h \in Hashes |-> OfKinds(Contributions(rows), h)]
           R == [h \in Hashes |-> Received(h) - Committed(h)]
           B == [h \in Hashes |-> OfKinds(Part(rows, U), h)]
           RB == [h \in Hashes |-> R[h] + B[h]]
<1>1. rows \in [Keys -> Row] /\ IsFiniteSet(Hashes)
  BY KeysAreFinite DEF IInv, TypeOK
<1>2. U \in SUBSET Keys
  BY KeysOfHash
<1>3. \A k \in Keys : Contributions(rows)[k] \in Int
  BY <1>1, RowCounts DEF Contributions
<1>4. Total(rows, Keys) = SumFunctionOnSet(A, Hashes)
  BY <1>3, SumByHash DEF Total
<1>5. UnbackedFees = SumFunctionOnSet(B, Hashes) /\ \A h \in Hashes : B[h] \in Int
  BY <1>1, <1>2, TotalByHash DEF UnbackedFees
<1>6. ASSUME NEW h \in Hashes
      PROVE  A[h] \in Int /\ R[h] \in Int /\ A[h] <= R[h] + B[h]
  <2>1. A[h] \in Int
    BY <1>3, KindsTyped
  <2>2. R[h] \in Int
    <3>1. Amount[h] \in Nat /\ fee_reserve(Amount[h], FALSE) \in Nat
      BY FeesOfAmounts
    <3>2. node[h].fee \in Nat
      BY DEF IInv, TypeOK, NodeHash
    <3>3. Received(h) \in Int
      BY <3>1 DEF Received
    <3>4. Committed(h) \in Int
      <4>1. CASE node[h].payment = "settled"
        <5>1. Committed(h) = Amount[h] + node[h].fee
          BY <4>1 DEF Committed
        <5> QED BY <3>1, <3>2, <5>1
      <4>2. CASE node[h].payment = "inflight"
        <5>1. Committed(h) = Amount[h] + fee_reserve(Amount[h], FALSE)
          BY <4>2 DEF Committed
        <5> DEFINE x == Amount[h]  y == fee_reserve(Amount[h], FALSE)
        <5>2. x + y \in Int
          <6>1. x \in Nat /\ y \in Nat
            BY <3>1
          <6> HIDE DEF x, y
          <6> QED BY <6>1
        <5> QED BY <5>1, <5>2
      <4>3. CASE node[h].payment \notin {"settled", "inflight"}
        <5>1. Committed(h) = 0
          BY <4>3 DEF Committed
        <5> QED BY <5>1
      <4> QED BY <4>1, <4>2, <4>3
    <3> QED BY <3>3, <3>4
  <2> DEFINE c == Contribution(rows[<<"service_fee", h>>])
             rest == IF Debited(h) THEN 0 ELSE c
  <2>3. A[h] <= Received(h) - Committed(h) + rest
    BY HashOutSolvent, HashInSolvent
  <2>4. B[h] = rest
    <3>1. /\ <<"in", h>> \notin U /\ <<"out", h>> \notin U /\ <<"internal", h>> \notin U
          /\ <<"service_fee", h>> \in U <=> ~Debited(h)
      OBVIOUS
    <3> HIDE DEF U
    <3>2. c \in Int
      BY <1>1, KeysOfHash, RowCounts
    <3> DEFINE P == Part(rows, U)
    <3>3. /\ P[<<"in", h>>] = 0 /\ P[<<"out", h>>] = 0 /\ P[<<"internal", h>>] = 0
          /\ P[<<"service_fee", h>>] = rest
      BY <3>1, KeysOfHash DEF Part
    <3> HIDE DEF P, c
    <3>4. OfKinds(P, h) = rest
      BY <3>2, <3>3 DEF OfKinds
    <3> QED BY <3>4 DEF P
  <2> QED BY <2>1, <2>2, <2>3, <2>4
<1> HIDE DEF U, A, B, R
<1>7. \A h \in Hashes : A[h] \in Int /\ RB[h] \in Int /\ A[h] <= RB[h]
  BY <1>5, <1>6
<1>8. SumFunctionOnSet(RB, Hashes) = SumFunctionOnSet(R, Hashes) + SumFunctionOnSet(B, Hashes)
  BY <1>1, <1>5, <1>6, SumPlus
<1>9. SumFunctionOnSet(A, Hashes) <= SumFunctionOnSet(RB, Hashes)
  BY <1>1, <1>7, SumMono
<1> QED BY <1>4, <1>5, <1>8, <1>9 DEF Solvent, R

-----------------------------------------------------------------------------
(* What a step may write, and who is charged for it.                         *)
Affords(r, h) == balance_msat(rows, r.wallet) >= Amount[h] + r.fee

CreditWritten(k, r) ==
  /\ k[1] = "in"
  /\ r.wallet = Issuer[k[2]]
  /\ r.amount = Amount[k[2]]
  /\ rows[k].status # "none" => r.status \in {"success", "failed"}

OutWritten(k, r) ==
  /\ k[1] = "out"
  /\ rows[k].status = "none" => Affords(r, k[2])

InternalWritten(k, r) ==
  /\ k[1] = "internal"
  /\ r.fee = fee_reserve_total(Amount[k[2]], TRUE)
  /\ rows[<<"in", k[2]>>].status = "pending"
  /\ Affords(r, k[2])

FeeWritten(k, r) ==
  /\ k[1] = "service_fee"
  /\ rows[k].status = "none"
  /\ r.wallet = FeeWallet
  /\ r.fee = 0
  /\ r.amount = service_fee(Amount[k[2]], rows[<<"internal", k[2]>>].status # "none")
  /\ r.status = "success"
  /\ Issuer[k[2]] # NoWallet => Final(k[2])

RowWritten(k, r) ==
  \/ CreditWritten(k, r)
  \/ OutWritten(k, r)
  \/ InternalWritten(k, r)
  \/ FeeWritten(k, r)

LedgerMoves ==
  \/ UNCHANGED rows
  \/ \E k \in Keys, r \in Row : rows' = [rows EXCEPT ![k] = r] /\ RowWritten(k, r)

FinalNext(h) == rows'[<<"in", h>>].status \in {"success", "failed"}

Charging(c) == c.pc \in {"verify", "credit_fee"}

\* a call that goes on to credit the fee has what it needs, or has it now
Fresh(p) ==
  Charging(pay'[p]) =>
    LET k == pay'[p].key IN
    /\ k \in Keys
    /\ k[1] \in {"in", "out", "internal"}
    /\ rows[k].status # "none"
    /\ is_internal(k) <=> rows[<<"internal", k[2]>>].status # "none"
    /\ Issuer[k[2]] # NoWallet => FinalNext(k[2])

CopiesCredit ==
  /\ \A c \in Checkers :
       \A item \in check[c].todo \cup check[c].writing : CreditCopy(item)
  /\ \A g \in Pagers : \A item \in page[g] : CreditCopy(item)
  /\ \A item \in producer : CreditCopy(item)

CreditStep == LedgerMoves /\ (\A p \in Payers : Fresh(p)) /\ CopiesCredit'

-----------------------------------------------------------------------------
LEMMA OneRow ==
  ASSUME IInv, NEW k \in Keys, NEW r \in Row, rows' = [rows EXCEPT ![k] = r]
  PROVE  /\ rows'[k] = r
         /\ \A j \in Keys : j # k => rows'[j] = rows[j]
         /\ k[2] \in Hashes
         /\ k = <<k[1], k[2]>>
         /\ k[1] \in {"in", "out", "internal", "service_fee"}
BY KeyParts DEF IInv, TypeOK

LEMMA FinalStays ==
  ASSUME IInv, LedgerMoves, NEW h \in Hashes, Final(h)
  PROVE  FinalNext(h)
<1>1. CASE UNCHANGED rows
  BY <1>1 DEF FinalNext, Final
<1>2. ASSUME NEW k \in Keys, NEW r \in Row,
             rows' = [rows EXCEPT ![k] = r], RowWritten(k, r)
      PROVE  FinalNext(h)
  <2>1. rows'[k] = r /\ \A j \in Keys : j # k => rows'[j] = rows[j]
    BY <1>2, OneRow
  <2>2. CASE k # <<"in", h>>
    BY <2>1, <2>2, KeysOfHash DEF FinalNext, Final
  <2>3. CASE k = <<"in", h>>
    BY <1>2, <2>1, <2>3 DEF FinalNext, Final, RowWritten, CreditWritten, OutWritten,
                            InternalWritten, FeeWritten
  <2> QED BY <2>2, <2>3
<1> QED BY <1>1, <1>2 DEF LedgerMoves

LEMMA FreshKept ==
  ASSUME IInv, CreditInv, LedgerMoves, NEW p \in Payers, pay'[p] = pay[p]
  PROVE  Fresh(p)
<1> SUFFICES ASSUME Charging(pay[p]) PROVE Fresh(p)
  BY DEF Fresh
<1> DEFINE k == pay[p].key
<1>1. CreditCall(p) /\ k \in Keys /\ k = <<k[1], Hash(p)>> /\ Hash(p) \in Hashes /\ k[2] = Hash(p)
  BY CallFacts DEF CreditInv, Charging, Hash
<1>2. /\ k[1] \in {"in", "out", "internal"}
      /\ rows[k].status # "none"
      /\ is_internal(k) <=> rows[<<"internal", Hash(p)>>].status # "none"
      /\ Issuer[Hash(p)] # NoWallet => Final(Hash(p))
  BY <1>1 DEF CreditCall, Charging
<1>3. Issuer[Hash(p)] # NoWallet => FinalNext(Hash(p))
  BY <1>1, <1>2, FinalStays
<1> HIDE DEF k
<1>4. pay'[p].key = k
  BY DEF k
<1> QED BY <1>1, <1>2, <1>3, <1>4 DEF Fresh

LEMMA FreshIdle ==
  ASSUME NEW p \in Payers, ~Charging(pay'[p])
  PROVE  Fresh(p)
BY DEF Fresh

LEMMA CallsFresh ==
  ASSUME IInv, CreditInv, LedgerMoves, NEW p \in Payers, Fresh(p),
         \A q \in Payers : q # p => pay'[q] = pay[q]
  PROVE  \A q \in Payers : Fresh(q)
BY FreshKept

LEMMA CopiesCreditKept ==
  ASSUME CreditInv,
         \A c \in Checkers : /\ check'[c].todo \subseteq check[c].todo
                             /\ check'[c].writing \subseteq check[c].writing,
         \A g \in Pagers : page'[g] \subseteq page[g],
         producer' \subseteq producer
  PROVE  CopiesCredit'
BY DEF CreditInv, CopiesCredit, CreditCopy

LEMMA NoCharge ==
  ASSUME IInv, CreditInv, LedgerMoves, UNCHANGED pay
  PROVE  \A p \in Payers : Fresh(p)
BY FreshKept

-----------------------------------------------------------------------------
(* One lemma per action.                                                     *)
LEMMA CreateInvoiceCredits ==
  ASSUME IInv, CreditInv, NEW h \in Hashes, create_invoice(h)
  PROVE  CreditStep
<1> DEFINE k == <<"in", h>>
           r == NewRow("pending", Issuer[h], Amount[h], 0)
<1>1. /\ MayCreate(rows, k)
      /\ rows' = [rows EXCEPT ![k] = r]
      /\ UNCHANGED <<pay, check, page, producer>>
  BY DEF create_invoice, create_payment, taskVars
<1>2. Amount[h] \in Int /\ Issuer[h] \in Wallets \cup {NoWallet} /\ k \in Keys
  <2>1. Amount[h] \in Int /\ Issuer[h] \in Wallets \cup {NoWallet}
    BY PaymentConstants
  <2> QED BY <2>1, KeysOfHash
<1>3. r \in Row
  BY <1>2, NewRowTyped
<1>4. r.wallet = Issuer[h] /\ r.amount = Amount[h]
  BY DEF NewRow
<1>5. rows[k].status = "none"
  BY <1>1, <1>2 DEF MayCreate, Stored
<1> HIDE DEF r
<1>6. CreditWritten(k, r)
  BY <1>4, <1>5 DEF CreditWritten
<1>7. LedgerMoves
  BY <1>1, <1>2, <1>3, <1>6 DEF LedgerMoves, RowWritten
<1> QED BY <1>1, <1>7, NoCharge, CopiesCreditKept DEF CreditStep

LEMMA InternalDebitCredits ==
  ASSUME IInv, CreditInv, NEW p \in Payers, PayInternalDebit(p)
  PROVE  CreditStep
<1> DEFINE h == Hash(p)
           k == <<"internal", h>>
           f == fee_reserve_total(Amount[h], TRUE)
           r == NewRow("success", pay[p].wallet, -Amount[h], f)
<1>1. /\ pay[p].pc = "checked" /\ Internal(p) /\ CanAfford(p, TRUE)
      /\ MayCreate(rows, k)
      /\ rows' = [rows EXCEPT ![k] = r]
      /\ MoveTo(p, "debited", "internal")
      /\ UNCHANGED <<check, page, producer>>
  BY DEF PayInternalDebit, Enter, create_payment
<1>2. h \in Hashes /\ pay[p].wallet \in Wallets /\ k \in Keys /\ pay[p].key \in Keys
  BY <1>1, CallFacts, KeysOfHash
<1>3. Amount[h] \in Nat /\ Amount[h] > 0 /\ f \in Nat
  BY <1>2, FeesOfAmounts, Zenon
<1>4. r \in Row
  BY <1>2, <1>3, DebitRowTyped
<1>5. r.fee = f /\ r.wallet = pay[p].wallet
  <2>1. Abs(f) = f
    <3>1. f \in Nat
      BY <1>3
    <3> HIDE DEF f
    <3> QED BY <3>1 DEF Abs
  <2> QED BY <2>1 DEF NewRow
<1>6. Affords(r, h)
  <2>1. balance_msat(rows, pay[p].wallet) >= Amount[h] + f
    BY <1>1 DEF CanAfford
  <2> HIDE DEF r, f, h
  <2> QED BY <1>5, <2>1 DEF Affords
<1>7. rows[<<"in", h>>].status = "pending"
  BY <1>1, InternalIsLocal
<1> HIDE DEF r
<1>8. InternalWritten(k, r)
  BY <1>5, <1>6, <1>7 DEF InternalWritten
<1>9. LedgerMoves
  BY <1>1, <1>2, <1>4, <1>8 DEF LedgerMoves, RowWritten
<1>10. pay'[p].pc = "debited" /\ \A q \in Payers : q # p => pay'[q] = pay[q]
  BY <1>1, <1>2, Moved DEF PayPCs, Kinds, IInv, TypeOK
<1>11. Fresh(p)
  BY <1>10, FreshIdle DEF Charging
<1> QED BY <1>1, <1>9, <1>10, <1>11, CallsFresh, CopiesCreditKept DEF CreditStep

LEMMA ExternalCredits ==
  ASSUME IInv, CreditInv, NEW p \in Payers, PayExternal(p)
  PROVE  CreditStep
<1> DEFINE h == Hash(p)
           k == <<"out", h>>
           f == fee_reserve_total(Amount[h], FALSE)
           r == NewRow("pending", pay[p].wallet, -Amount[h], f)
<1>1. /\ pay[p].pc = "checked" /\ CanAfford(p, FALSE)
      /\ rows' = [rows EXCEPT ![k] = r]
      /\ MoveTo(p, "waiting", "out")
      /\ UNCHANGED <<check, page, producer>>
  BY DEF PayExternal, Enter, create_payment
<1>2. h \in Hashes /\ pay[p].wallet \in Wallets /\ k \in Keys /\ pay[p].key \in Keys
  BY <1>1, CallFacts, KeysOfHash
<1>3. Amount[h] \in Nat /\ Amount[h] > 0 /\ f \in Nat
  BY <1>2, FeesOfAmounts, Zenon
<1>4. r \in Row
  BY <1>2, <1>3, DebitRowTyped
<1>5. r.fee = f /\ r.wallet = pay[p].wallet
  <2>1. Abs(f) = f
    <3>1. f \in Nat
      BY <1>3
    <3> HIDE DEF f
    <3> QED BY <3>1 DEF Abs
  <2> QED BY <2>1 DEF NewRow
<1>6. Affords(r, h)
  <2>1. balance_msat(rows, pay[p].wallet) >= Amount[h] + f
    BY <1>1 DEF CanAfford
  <2> HIDE DEF r, f, h
  <2> QED BY <1>5, <2>1 DEF Affords
<1> HIDE DEF r
<1>8. OutWritten(k, r)
  BY <1>6 DEF OutWritten
<1>9. LedgerMoves
  BY <1>1, <1>2, <1>4, <1>8 DEF LedgerMoves, RowWritten
<1>10. pay'[p].pc = "waiting" /\ \A q \in Payers : q # p => pay'[q] = pay[q]
  BY <1>1, <1>2, Moved DEF PayPCs, Kinds, IInv, TypeOK
<1>11. Fresh(p)
  BY <1>10, FreshIdle DEF Charging
<1> QED BY <1>1, <1>9, <1>10, <1>11, CallsFresh, CopiesCreditKept DEF CreditStep

\* An invoice's row rewritten with a status the node or the payer decided.
LEMMA InvoiceRewritten ==
  ASSUME IInv, CreditInv, NEW h \in Hashes, rows[<<"in", h>>].status # "none",
         NEW r \in Row, r.wallet = Issuer[h], r.amount = Amount[h],
         r.status \in {"success", "failed"},
         rows' = [rows EXCEPT ![<<"in", h>>] = r]
  PROVE  LedgerMoves
<1> DEFINE k == <<"in", h>>
<1>1. k \in Keys
  BY KeysOfHash
<1>2. CreditWritten(k, r)
  BY DEF CreditWritten
<1> QED BY <1>1, <1>2 DEF LedgerMoves, RowWritten

\* A payer's row rewritten.
LEMMA OutRewritten ==
  ASSUME IInv, CreditInv, NEW h \in Hashes, rows[<<"out", h>>].status # "none",
         NEW r \in Row, rows' = [rows EXCEPT ![<<"out", h>>] = r]
  PROVE  LedgerMoves
<1> DEFINE k == <<"out", h>>
<1>1. k \in Keys
  BY KeysOfHash
<1>2. OutWritten(k, r)
  BY DEF OutWritten
<1> QED BY <1>1, <1>2 DEF LedgerMoves, RowWritten

LEMMA InternalCreditCredits ==
  ASSUME IInv, CreditInv, NEW p \in Payers, PayInternalCredit(p)
  PROVE  CreditStep
<1> DEFINE h == Hash(p)
           k == <<"in", h>>
           r == [rows[k] EXCEPT !.status = "success"]
<1>1. /\ pay[p].pc = "debited"
      /\ rows' = [rows EXCEPT ![k] = r]
      /\ MoveTo(p, "credit_fee", "internal")
      /\ UNCHANGED <<check, page, producer>>
  BY DEF PayInternalCredit, update_payment, nodeVars
<1>2. /\ h \in Hashes /\ pay[p].key \in Keys /\ CallOK(p)
      /\ k \in Keys /\ <<"internal", h>> \in Keys
  BY <1>1, CallFacts, KeysOfHash
<1>3. rows[<<"internal", h>>].status = "success" /\ rows[k].status # "none"
  BY <1>1, <1>2 DEF CallOK
<1>4. rows[k] \in Row /\ CreditOK(h)
  BY <1>2 DEF IInv, TypeOK, CreditInv
<1>5. r \in Row /\ r.status = "success" /\ r.wallet = Issuer[h] /\ r.amount = Amount[h]
  <2>1. rows[k].wallet = Issuer[h] /\ rows[k].amount = Amount[h]
    BY <1>3, <1>4 DEF CreditOK
  <2> QED BY <1>4, <2>1 DEF Row
<1> HIDE DEF r
<1>6. LedgerMoves
  BY <1>1, <1>2, <1>3, <1>5, InvoiceRewritten
<1>7. /\ pay'[p].key = <<"internal", h>>
      /\ \A q \in Payers : q # p => pay'[q] = pay[q]
  BY <1>1, <1>2, Moved DEF PayPCs, Kinds, IInv, TypeOK
<1>8. FinalNext(h)
  <2>1. rows'[k] = r
    BY <1>1, <1>2, <1>5, OneRow
  <2> QED BY <1>5, <2>1 DEF FinalNext, Final
<1>9. Fresh(p)
  BY <1>2, <1>3, <1>7, <1>8 DEF Fresh, is_internal
<1> QED BY <1>1, <1>6, <1>7, <1>9, CallsFresh, CopiesCreditKept DEF CreditStep

LEMMA VerifyCallCredits ==
  ASSUME IInv, CreditInv, NEW p \in Payers, PayVerify(p)
  PROVE  CreditStep
<1>1. PICK k \in get_standalone_payment(rows, Hash(p), FALSE) :
        rows[k].status = "failed" /\ MoveTo(p, "verify", k[1])
  BY DEF PayVerify
<1>2. pay[p].pc = "checked" /\ UNCHANGED <<rows, check, page, producer>>
  BY DEF PayVerify, Enter
<1> DEFINE h == Hash(p)
<1>3. h \in Hashes /\ pay[p].key \in Keys /\ RowsOK(h)
  BY <1>2, CallFacts
<1>4. k \in Keys /\ k[2] = h /\ k = <<k[1], h>> /\ k[1] \in {"in", "out", "internal", "service_fee"}
  BY <1>1, KeyParts DEF get_standalone_payment, OfHash, Stored
<1>5. k[1] \in {"in", "out"}
  BY <1>1, <1>3, <1>4 DEF RowsOK
<1>6. rows[<<"internal", h>>].status = "none"
  <2> SUFFICES ASSUME rows[<<"internal", h>>].status # "none" PROVE FALSE
    OBVIOUS
  <2> DEFINE i == <<"internal", h>>
  <2>1. i \in Keys /\ i[2] = h
    BY <1>3, KeysOfHash
  <2>2. rows[k].amount <= rows[i].amount
    BY <1>1, <2>1 DEF get_standalone_payment, OfHash, Stored
  <2>3. rows[i].amount < 0 /\ Issuer[h] # NoWallet
    BY <1>3 DEF RowsOK
  <2>4. rows[k].amount > 0
    BY <1>1, <1>3, <1>4, <1>5, <2>3 DEF RowsOK
  <2>5. rows[k].amount \in Int /\ rows[i].amount \in Int
    BY <1>4, <2>1 DEF IInv, TypeOK, Row
  <2> DEFINE a == rows[k].amount  b == rows[i].amount
  <2>6. a <= b /\ b < 0 /\ a > 0 /\ a \in Int /\ b \in Int
    BY <2>2, <2>3, <2>4, <2>5
  <2> HIDE DEF a, b
  <2> QED BY <2>6
<1>7. Issuer[h] # NoWallet => FinalNext(h)
  <2>1. Issuer[h] # NoWallet => k = <<"in", h>>
    BY <1>1, <1>3, <1>4, <1>5 DEF RowsOK
  <2> QED BY <1>1, <1>2, <2>1 DEF FinalNext, Final
<1>8. /\ pay'[p].key = <<k[1], h>>
      /\ \A q \in Payers : q # p => pay'[q] = pay[q]
  BY <1>1, <1>3, <1>5, Moved DEF PayPCs, Kinds, IInv, TypeOK
<1>9. LedgerMoves
  BY <1>2 DEF LedgerMoves
<1>10. pay'[p].key = k
  BY <1>4, <1>8
<1>11. Fresh(p)
  BY <1>1, <1>4, <1>5, <1>6, <1>7, <1>10 DEF Fresh, is_internal
<1> QED BY <1>2, <1>8, <1>9, <1>11, CallsFresh, CopiesCreditKept DEF CreditStep

\* What update_payment_success_status keeps.
LEMMA SuccessKeeps ==
  ASSUME IInv, NEW k \in Keys, NEW r \in Row
  PROVE  LET c == update_payment_success_status(r, node_fee(k))
         IN  c \in Row /\ c.status = "success" /\ c.wallet = r.wallet
             /\ c.amount = r.amount
<1>1. node \in [Hashes -> NodeHash]
  BY DEF IInv, TypeOK
<1>2. update_payment_success_status(r, node_fee(k)) \in Row
  BY <1>1, SuccessCopy
<1> QED BY <1>2 DEF update_payment_success_status, Row

LEMMA VerifyAnswerCredits ==
  ASSUME IInv, CreditInv, NEW p \in Payers, VerifyAnswer(p)
  PROVE  CreditStep
<1> DEFINE k == pay[p].key
           h == Hash(p)
           r == update_payment_success_status(rows[k], node_fee(k))
<1>1. /\ pay[p].pc = "verify"
      /\ UNCHANGED <<check, page, producer>>
      /\ \/ UNCHANGED rows /\ Leave(p)
         \/ rows' = [rows EXCEPT ![k] = r] /\ Leave(p)
         \/ UNCHANGED rows /\ MoveTo(p, "credit_fee", k[1])
  BY DEF VerifyAnswer, update_payment, nodeVars
<1>2. /\ k \in Keys /\ h \in Hashes /\ k = <<k[1], h>> /\ rows[k].status = "failed"
      /\ RowsOK(h)
  BY <1>1, CallFacts DEF CallOK
<1>3. CreditCall(p) /\ CreditOK(h) /\ rows[k] \in Row
  BY <1>2 DEF CreditInv, IInv, TypeOK
<1>4. CopiesCredit'
  BY <1>1, CopiesCreditKept
<1>5. k[1] \in {"in", "out"}
  BY <1>2, <1>3, KeyParts DEF RowsOK
<1>6. LedgerMoves
  <2>1. CASE UNCHANGED rows
    BY <2>1 DEF LedgerMoves
  <2>2. CASE rows' = [rows EXCEPT ![k] = r]
    <3>1. /\ r \in Row /\ r.status = "success" /\ r.wallet = rows[k].wallet
          /\ r.amount = rows[k].amount
      BY <1>2, <1>3, SuccessKeeps
    <3> HIDE DEF r
    <3>2. CASE k = <<"out", h>>
      BY <1>2, <2>2, <3>1, <3>2, OutRewritten
    <3>3. CASE k = <<"in", h>>
      <4>1. rows[k].wallet = Issuer[h] /\ rows[k].amount = Amount[h]
        BY <1>2, <1>3, <3>3 DEF CreditOK
      <4> QED BY <1>2, <2>2, <3>1, <3>3, <4>1, InvoiceRewritten
    <3> QED BY <1>2, <1>5, <3>2, <3>3
  <2> QED BY <1>1, <2>1, <2>2
<1>7. Fresh(p) /\ \A q \in Payers : q # p => pay'[q] = pay[q]
  <2>1. CASE Leave(p)
    <3>1. pay'[p].pc = "idle" /\ \A q \in Payers : q # p => pay'[q] = pay[q]
      BY <2>1, Left DEF IInv, TypeOK
    <3> QED BY <3>1, FreshIdle DEF Charging
  <2>2. CASE MoveTo(p, "credit_fee", k[1])
    <3>1. /\ pay'[p].key = k
          /\ \A q \in Payers : q # p => pay'[q] = pay[q]
      BY <1>2, <1>5, <2>2, Moved DEF PayPCs, Kinds, IInv, TypeOK
    <3>2. Issuer[h] # NoWallet => Final(h)
      BY <1>1, <1>3 DEF CreditCall
    <3>3. Issuer[h] # NoWallet => FinalNext(h)
      BY <1>2, <1>6, <3>2, FinalStays
    <3>4. is_internal(k) <=> rows[<<"internal", h>>].status # "none"
      BY <1>1, <1>3 DEF CreditCall
    <3> HIDE DEF k
    <3>5. k[2] = h
      BY <1>2
    <3> QED BY <1>2, <1>5, <3>1, <3>3, <3>4, <3>5 DEF Fresh
  <2> QED BY <1>1, <2>1, <2>2
<1> QED BY <1>4, <1>6, <1>7, CallsFresh DEF CreditStep

\* A call that waited for the node has an external payment.
LEMMA WaitingFacts ==
  ASSUME IInv, NEW p \in Payers, pay[p].pc = "waiting"
  PROVE  /\ Hash(p) \in Hashes /\ pay[p].key = <<"out", Hash(p)>>
         /\ pay[p].key \in Keys /\ pay[p] \in Call
         /\ rows[pay[p].key].status = "pending"
         /\ rows[pay[p].key] \in Row
         /\ Issuer[Hash(p)] = NoWallet
         /\ rows[<<"internal", Hash(p)>>].status = "none"
<1>1. /\ Hash(p) \in Hashes /\ pay[p].key = <<"out", Hash(p)>> /\ pay[p].key \in Keys
      /\ rows[pay[p].key].status = "pending" /\ RowsOK(Hash(p)) /\ pay[p] \in Call
  BY CallFacts DEF CallOK
<1>2. Issuer[Hash(p)] = NoWallet /\ rows[<<"internal", Hash(p)>>].status = "none"
  BY <1>1 DEF RowsOK
<1> QED BY <1>1, <1>2 DEF IInv, TypeOK

LEMMA WaitingMovesOn ==
  ASSUME IInv, NEW p \in Payers, pay[p].pc = "waiting",
         MoveTo(p, "credit_fee", "out")
  PROVE  Fresh(p) /\ \A q \in Payers : q # p => pay'[q] = pay[q]
<1>1. /\ Hash(p) \in Hashes /\ pay[p].key = <<"out", Hash(p)>> /\ pay[p].key \in Keys
      /\ rows[pay[p].key].status = "pending"
      /\ Issuer[Hash(p)] = NoWallet
      /\ rows[<<"internal", Hash(p)>>].status = "none"
  BY WaitingFacts
<1>2. /\ pay'[p].key = <<"out", Hash(p)>>
      /\ \A q \in Payers : q # p => pay'[q] = pay[q]
  BY <1>1, Moved DEF PayPCs, Kinds, IInv, TypeOK
<1> QED BY <1>1, <1>2 DEF Fresh, is_internal

LEMMA ResponseCredits ==
  ASSUME IInv, CreditInv, NEW p \in Payers, PayResponse(p)
  PROVE  CreditStep
<1> DEFINE k == pay[p].key
<1>1. pay[p].pc = "waiting" /\ UNCHANGED <<check, page, producer>>
  BY DEF PayResponse
<1>2. Hash(p) \in Hashes /\ k = <<"out", Hash(p)>> /\ k \in Keys /\ rows[k].status = "pending" /\ rows[k] \in Row
  BY <1>1, WaitingFacts
<1>3. LedgerMoves
  <2>1. CASE UNCHANGED rows
    BY <2>1 DEF LedgerMoves
  <2>2. ASSUME NEW r \in Row, rows' = [rows EXCEPT ![k] = r]
        PROVE  LedgerMoves
    BY <1>2, <2>2, OutRewritten
  <2>3. update_payment_success_status(rows[k], node_fee(k)) \in Row
    BY <1>2, SuccessKeeps
  <2>4. Failed(rows[k]) \in Row
    BY <1>2, FailedCopy
  <2> QED BY <2>1, <2>2, <2>3, <2>4 DEF PayResponse, update_payment
<1>4. Fresh(p) /\ \A q \in Payers : q # p => pay'[q] = pay[q]
  <2>1. CASE Leave(p)
    <3>1. pay'[p].pc = "idle" /\ \A q \in Payers : q # p => pay'[q] = pay[q]
      BY <2>1, Left DEF IInv, TypeOK
    <3> QED BY <3>1, FreshIdle DEF Charging
  <2>2. CASE MoveTo(p, "credit_fee", "out")
    BY <1>1, <2>2, WaitingMovesOn
  <2> QED BY <2>1, <2>2 DEF PayResponse
<1> QED BY <1>1, <1>3, <1>4, CallsFresh, CopiesCreditKept DEF CreditStep

LEMMA TimeoutCredits ==
  ASSUME IInv, CreditInv, NEW p \in Payers, PayTimeout(p)
  PROVE  CreditStep
<1>1. pay[p].pc = "waiting" /\ MoveTo(p, "credit_fee", "out") /\ UNCHANGED <<rows, check, page, producer>>
  BY DEF PayTimeout
<1>2. LedgerMoves
  BY <1>1 DEF LedgerMoves
<1>3. Fresh(p) /\ \A q \in Payers : q # p => pay'[q] = pay[q]
  BY <1>1, WaitingMovesOn
<1> QED BY <1>1, <1>2, <1>3, CallsFresh, CopiesCreditKept DEF CreditStep

LEMMA ServiceFeeCredits ==
  ASSUME IInv, DebitInv, CreditInv, NEW p \in Payers, CreditServiceFee(p)
  PROVE  CreditStep
<1> DEFINE h == Hash(p)
           j == pay[p].key
           k == <<"service_fee", h>>
           r == NewRow("success", FeeWallet, FeeDue(p), 0)
<1>1. /\ pay[p].pc = "credit_fee"
      /\ Leave(p)
      /\ UNCHANGED <<check, page, producer>>
      /\ \/ rows' = [rows EXCEPT ![k] = r] /\ MayCreate(rows, k)
         \/ rows' = rows
  BY DEF CreditServiceFee, create_payment
<1>2. h \in Hashes /\ j \in Keys /\ j = <<j[1], h>> /\ k \in Keys
  BY <1>1, CallFacts, KeysOfHash
<1>3. /\ j[1] \in {"in", "out", "internal"}
      /\ rows[j].status # "none"
      /\ is_internal(j) <=> rows[<<"internal", h>>].status # "none"
      /\ Issuer[h] # NoWallet => Final(h)
  BY <1>1 DEF CreditInv, CreditCall
<1>4. DebitOK(h) /\ CreditOK(h)
  BY <1>2 DEF DebitInv, CreditInv
<1>5. rows[j].amount \in {Amount[h], -Amount[h]}
  <2>1. j \in {<<"in", h>>, <<"out", h>>, <<"internal", h>>}
    BY <1>2, <1>3
  <2> HIDE DEF j, h
  <2> QED BY <1>3, <1>4, <2>1 DEF DebitOK, CreditOK
<1>6. Abs(rows[j].amount) = Abs(Amount[h])
  <2> DEFINE a == rows[j].amount  b == Amount[h]
  <2>1. b \in Nat /\ a \in {b, -b}
    BY <1>2, <1>5, PaymentConstants
  <2>2. Abs(a) = Abs(b)
    <3> HIDE DEF a, b
    <3> QED BY <2>1 DEF Abs
  <2> QED BY <2>2
<1>7. FeeDue(p) = service_fee(Amount[h], rows[<<"internal", h>>].status # "none")
  <2>1. is_internal(j) = (rows[<<"internal", h>>].status # "none")
    BY <1>3 DEF is_internal
  <2> QED BY <1>6, <2>1 DEF FeeDue, service_fee
<1>8. FeeDue(p) \in Int
  <2>1. rows[j].amount \in Int
    BY <1>2 DEF IInv, TypeOK, Row
  <2>2. is_internal(j) \in BOOLEAN
    BY DEF is_internal
  <2> QED BY <2>1, <2>2, FeesAreNatural DEF FeeDue
<1>9. /\ r \in Row /\ r.status = "success" /\ r.wallet = FeeWallet
      /\ r.amount = FeeDue(p) /\ r.fee = 0
  <2>1. r \in Row
    BY <1>8, LedgerConstants, NewRowTyped
  <2>2. Abs(0) = 0
    BY DEF Abs
  <2> QED BY <2>1, <2>2 DEF NewRow
<1>10. LedgerMoves
  <2>1. CASE rows' = rows
    BY <2>1 DEF LedgerMoves
  <2>2. CASE rows' = [rows EXCEPT ![k] = r] /\ MayCreate(rows, k)
    <3>1. rows[k].status = "none"
      BY <1>2, <2>2 DEF MayCreate, Stored
    <3> HIDE DEF r
    <3>2. FeeWritten(k, r)
      BY <1>3, <1>7, <1>9, <3>1 DEF FeeWritten
    <3> QED BY <1>2, <1>9, <2>2, <3>2 DEF LedgerMoves, RowWritten
  <2> QED BY <1>1, <2>1, <2>2
<1>11. pay'[p].pc = "idle" /\ \A q \in Payers : q # p => pay'[q] = pay[q]
  BY <1>1, Left DEF IInv, TypeOK
<1>12. Fresh(p)
  BY <1>11, FreshIdle DEF Charging
<1> QED BY <1>1, <1>10, <1>11, <1>12, CallsFresh, CopiesCreditKept DEF CreditStep

-----------------------------------------------------------------------------
\* Calls that have nothing to write yet.
LEMMA QuietCallCredits ==
  ASSUME IInv, CreditInv, NEW p \in Payers,
         \/ \E w \in Wallets, h \in Hashes, genuine \in BOOLEAN : PayCheck(p, w, h, genuine)
         \/ PayRejected(p)
         \/ FundingSourcePay(p)
  PROVE  CreditStep
<1>1. UNCHANGED <<rows, check, page, producer>>
  BY DEF PayCheck, PayRejected, FundingSourcePay
<1>2. pay \in [Payers -> Call]
  BY DEF IInv, TypeOK
<1>3. ~Charging(pay'[p]) /\ \A q \in Payers : q # p => pay'[q] = pay[q]
  <2>1. CASE \E w \in Wallets, h \in Hashes, genuine \in BOOLEAN : PayCheck(p, w, h, genuine)
    BY <1>2, <2>1 DEF PayCheck, Charging
  <2>2. CASE PayRejected(p)
    <3>1. pay'[p].pc = "idle" /\ \A q \in Payers : q # p => pay'[q] = pay[q]
      BY <1>2, <2>2, Left DEF PayRejected
    <3> QED BY <3>1 DEF Charging
  <2>3. CASE FundingSourcePay(p)
    <3>1. pay[p].pc = "waiting" /\ pay' = [pay EXCEPT ![p].sent = TRUE]
      BY <2>3 DEF FundingSourcePay
    <3>2. pay'[p].pc = pay[p].pc /\ \A q \in Payers : q # p => pay'[q] = pay[q]
      BY <1>2, <3>1 DEF Call
    <3> QED BY <3>1, <3>2 DEF Charging
  <2> QED BY <2>1, <2>2, <2>3
<1>4. LedgerMoves
  BY <1>1 DEF LedgerMoves
<1>5. Fresh(p)
  BY <1>3, FreshIdle
<1> QED BY <1>1, <1>3, <1>4, <1>5, CallsFresh, CopiesCreditKept DEF CreditStep

LEMMA PayCredits ==
  ASSUME IInv, DebitInv, CreditInv, NEW p \in Payers, PayStep(p)
  PROVE  CreditStep
BY QuietCallCredits, InternalDebitCredits, InternalCreditCredits, ExternalCredits,
   VerifyCallCredits, VerifyAnswerCredits, ResponseCredits, TimeoutCredits,
   ServiceFeeCredits DEF PayStep

\* A copy of a row, and the copy that a verdict makes of it.
LEMMA RowCopyCredits ==
  ASSUME IInv, CreditInv, NEW k \in Keys, rows[k].status # "none"
  PROVE  CreditCopy(<<k, rows[k]>>)
<1>1. k[2] \in Hashes /\ k = <<k[1], k[2]>>
  BY KeyParts
<1>2. CreditOK(k[2])
  BY <1>1 DEF CreditInv
<1>3. k[1] = "in" => k = <<"in", k[2]>>
  BY <1>1
<1> QED BY <1>2, <1>3 DEF CreditCopy, CreditOK

LEMMA VerdictCredits ==
  ASSUME IInv, NEW item \in Items, CreditCopy(item), PendingCopy(item),
         NEW copy \in Verdicts(item)
  PROVE  /\ CreditCopy(<<item[1], copy>>)
         /\ VerdictCopy(<<item[1], copy>>)
         /\ <<item[1], copy>> \in Items
<1> DEFINE k == item[1]
           r == item[2]
<1>1. k \in Keys /\ r \in Row
  BY DEF Items
<1>2. <<k, copy>> \in Items /\ VerdictCopy(<<k, copy>>)
  BY VerdictIsTrue
<1>3. copy.wallet = r.wallet /\ copy.amount = r.amount
  <2>1. CASE copy = Failed(r)
    BY <1>1, <2>1 DEF Failed, Row
  <2>2. CASE copy = update_payment_success_status(r, node_fee(k))
    BY <1>1, <2>2, SuccessKeeps
  <2> QED BY <2>1, <2>2 DEF Verdicts
<1> QED BY <1>2, <1>3 DEF CreditCopy

\* A verdict written.
LEMMA VerdictMoves ==
  ASSUME IInv, CreditInv, NEW item \in Items, CreditCopy(item), VerdictCopy(item),
         rows' = [rows EXCEPT ![item[1]] = item[2]]
  PROVE  LedgerMoves
<1> DEFINE k == item[1]
           r == item[2]
<1>1. k \in Keys /\ r \in Row /\ k[2] \in Hashes /\ k = <<k[1], k[2]>>
  BY KeyParts DEF Items
<1>2. rows[k].status # "none" /\ k[1] \in {"in", "out"} /\ r.status \in {"success", "failed"}
  BY DEF VerdictCopy
<1>3. CASE k[1] = "in"
  <2>1. CreditWritten(k, r)
    BY <1>2, <1>3 DEF CreditWritten, CreditCopy
  <2> QED BY <1>1, <2>1 DEF LedgerMoves, RowWritten
<1>4. CASE k[1] = "out"
  <2>1. OutWritten(k, r)
    BY <1>2, <1>4 DEF OutWritten
  <2> QED BY <1>1, <2>1 DEF LedgerMoves, RowWritten
<1> QED BY <1>2, <1>3, <1>4

LEMMA CheckerCredits ==
  ASSUME IInv, CreditInv, NEW c \in Checkers, CheckerStep(c)
  PROVE  CreditStep
<1>1. /\ check \in [Checkers -> [todo : SUBSET Items, writing : SUBSET Items]]
      /\ \A item \in check[c].todo : PendingCopy(item) /\ CreditCopy(item) /\ item \in Items
      /\ \A item \in check[c].writing : VerdictCopy(item) /\ CreditCopy(item) /\ item \in Items
  BY DEF IInv, TypeOK, CopiesInv, CreditInv
<1>2. UNCHANGED <<pay, page, producer>>
  BY DEF CheckerStep, CheckerReadAll, CheckerReadOne, CheckerStart, CheckerAsk,
         CheckerSkip, CheckerRaise, CheckerWrite
<1>3. CASE CheckerReadAll(c) \/ CheckerReadOne(c)
  <2>1. PICK S \in SUBSET PendingCheckable(rows) : CheckerStart(c, S)
    BY <1>3 DEF CheckerReadAll, CheckerReadOne
  <2>2. check' = [check EXCEPT ![c].todo = Copies(rows, S)] /\ UNCHANGED rows
        /\ check[c].writing = {}
    BY <2>1 DEF CheckerStart
  <2>3. /\ check'[c].todo = Copies(rows, S) /\ check'[c].writing = {}
        /\ \A d \in Checkers : d # c => check'[d] = check[d]
    BY <1>1, <2>2
  <2>4. \A item \in Copies(rows, S) : CreditCopy(item)
    BY RowCopyCredits DEF Copies, PendingCheckable, Stored
  <2>5. CopiesCredit'
    BY <1>2, <2>3, <2>4 DEF CreditInv, CopiesCredit, CreditCopy
  <2> QED BY <1>2, <2>2, <2>5, NoCharge DEF CreditStep, LedgerMoves
<1>4. CASE CheckerAsk(c)
  <2>1. PICK item \in check[c].todo : \E copy \in Verdicts(item) :
          check' = [check EXCEPT ![c].todo = @ \ {item}, ![c].writing = {<<item[1], copy>>}]
    BY <1>4 DEF CheckerAsk
  <2>2. PICK copy \in Verdicts(item) :
          check' = [check EXCEPT ![c].todo = @ \ {item}, ![c].writing = {<<item[1], copy>>}]
    BY <2>1
  <2>3. CreditCopy(<<item[1], copy>>)
    BY <1>1, VerdictCredits
  <2> DEFINE new == <<item[1], copy>>
  <2>4. /\ check'[c].todo \subseteq check[c].todo
        /\ check'[c].writing = {new}
        /\ \A d \in Checkers : d # c => check'[d] = check[d]
    BY <1>1, <2>2
  <2>5. CreditCopy(new)
    BY <2>3
  <2> HIDE DEF new
  <2>6. CopiesCredit'
    BY <1>2, <2>4, <2>5 DEF CreditInv, CopiesCredit, CreditCopy
  <2>7. UNCHANGED rows
    BY <1>4 DEF CheckerAsk
  <2> QED BY <1>2, <2>6, <2>7, NoCharge DEF CreditStep, LedgerMoves
<1>5. CASE CheckerSkip(c) \/ CheckerRaise(c) \/ CheckerWrite(c)
  <2>1. \A d \in Checkers : /\ check'[d].todo \subseteq check[d].todo
                            /\ check'[d].writing \subseteq check[d].writing
    BY <1>1, <1>5 DEF CheckerSkip, CheckerRaise, CheckerWrite
  <2>2. LedgerMoves
    <3>1. CASE UNCHANGED rows
      BY <3>1 DEF LedgerMoves
    <3>2. CASE CheckerWrite(c)
      <4>1. PICK item \in check[c].writing : rows' = [rows EXCEPT ![item[1]] = item[2]]
        BY <3>2 DEF CheckerWrite, update_payment
      <4> QED BY <1>1, <4>1, VerdictMoves
    <3> QED BY <1>5, <3>1, <3>2 DEF CheckerSkip, CheckerRaise
  <2>3. CopiesCredit'
    BY <1>2, <2>1, CopiesCreditKept
  <2> QED BY <1>2, <2>2, <2>3, NoCharge DEF CreditStep
<1> QED BY <1>3, <1>4, <1>5 DEF CheckerStep

LEMMA PageCredits ==
  ASSUME IInv, CreditInv, NEW g \in Pagers, PageStep(g)
  PROVE  CreditStep
<1>1. /\ page \in [Pagers -> SUBSET Items]
      /\ \A item \in page[g] : PendingCopy(item) /\ CreditCopy(item) /\ item \in Items
  BY DEF IInv, TypeOK, CopiesInv, CreditInv
<1>2. UNCHANGED <<pay, check, producer>>
  BY DEF PageStep, PageBegin, PageCheck, PageEnd
<1>3. CASE \E w \in Wallets : PageBegin(g, w)
  <2>1. PICK w \in Wallets : PageBegin(g, w)
    BY <1>3
  <2> DEFINE S == {k \in Stored(rows) : rows[k].wallet = w /\ rows[k].status = "pending"}
  <2>2. page' = [page EXCEPT ![g] = Copies(rows, S)] /\ UNCHANGED rows
    BY <2>1 DEF PageBegin
  <2>3. \A item \in Copies(rows, S) : CreditCopy(item)
    BY RowCopyCredits DEF Copies, Stored
  <2> HIDE DEF S
  <2>4. CopiesCredit'
    BY <1>1, <1>2, <2>2, <2>3 DEF CreditInv, CopiesCredit, CreditCopy
  <2> QED BY <1>2, <2>2, <2>4, NoCharge DEF CreditStep, LedgerMoves
<1>4. CASE PageCheck(g) \/ PageEnd(g)
  <2>1. \A f \in Pagers : page'[f] \subseteq page[f]
    BY <1>1, <1>4 DEF PageCheck, PageEnd
  <2>2. LedgerMoves
    <3>1. CASE UNCHANGED rows
      BY <3>1 DEF LedgerMoves
    <3>2. CASE PageCheck(g) /\ rows' # rows
      <4>1. PICK item \in page[g] : \E copy \in Verdicts(item) : rows' = [rows EXCEPT ![item[1]] = copy]
        BY <3>2 DEF PageCheck, update_payment
      <4>2. PICK copy \in Verdicts(item) : rows' = [rows EXCEPT ![item[1]] = copy]
        BY <4>1
      <4> DEFINE verdict == <<item[1], copy>>
      <4>3. CreditCopy(verdict) /\ VerdictCopy(verdict) /\ verdict \in Items
        BY <1>1, VerdictCredits
      <4>4. rows' = [rows EXCEPT ![verdict[1]] = verdict[2]]
        BY <4>2
      <4> HIDE DEF verdict
      <4> QED BY <4>3, <4>4, VerdictMoves
    <3> QED BY <1>4, <3>1, <3>2 DEF PageEnd
  <2>3. CopiesCredit'
    BY <1>2, <2>1, CopiesCreditKept
  <2> QED BY <1>2, <2>2, <2>3, NoCharge DEF CreditStep
<1> QED BY <1>3, <1>4 DEF PageStep

LEMMA ProducerCredits ==
  ASSUME IInv, CreditInv, ProducerStep
  PROVE  CreditStep
<1>1. UNCHANGED <<pay, check, page>>
  BY DEF ProducerStep, ProducerRead, ProducerSkip, ProducerWrite
<1>2. CASE \E h \in Hashes : ProducerRead(h)
  <2>1. PICK h \in Hashes : ProducerRead(h)
    BY <1>2
  <2>2. PICK k \in get_standalone_payment(rows, h, TRUE) : producer' = Copies(rows, {k})
    BY <2>1 DEF ProducerRead
  <2>3. k \in Keys /\ rows[k].status # "none"
    BY <2>2 DEF get_standalone_payment, OfHash, Stored
  <2>4. producer' = {<<k, rows[k]>>} /\ CreditCopy(<<k, rows[k]>>)
    BY <2>2, <2>3, RowCopyCredits DEF Copies
  <2> DEFINE new == <<k, rows[k]>>
  <2>5. producer' = {new} /\ CreditCopy(new)
    BY <2>4
  <2> HIDE DEF new
  <2>6. CopiesCredit'
    BY <1>1, <2>5 DEF CreditInv, CopiesCredit, CreditCopy
  <2>7. UNCHANGED rows
    BY <2>1 DEF ProducerRead
  <2> QED BY <1>1, <2>6, <2>7, NoCharge DEF CreditStep, LedgerMoves
<1>3. CASE ProducerSkip \/ ProducerWrite
  <2>1. producer' = {}
    BY <1>3 DEF ProducerSkip, ProducerWrite
  <2>2. LedgerMoves
    <3>1. CASE UNCHANGED rows
      BY <3>1 DEF LedgerMoves
    <3>2. CASE ProducerWrite
      <4>1. PICK item \in producer :
              /\ "success" \in StatusAnswers(item[1])
              /\ rows' = [rows EXCEPT ![item[1]] = [item[2] EXCEPT !.status = "success"]]
        BY <3>2 DEF ProducerWrite, update_payment
      <4> DEFINE k == item[1]
                 r == [item[2] EXCEPT !.status = "success"]
      <4>2. k \in Keys /\ item[2] \in Row /\ k[2] \in Hashes /\ k = <<k[1], k[2]>>
            /\ k[1] \in {"in", "service_fee"} /\ rows[k].status # "none" /\ CreditCopy(item)
        BY <4>1, KeyParts DEF IInv, TypeOK, Items, CopiesInv, ProducerOK, CreditInv
      <4>3. k[1] = "in"
        BY <4>1, <4>2 DEF StatusAnswers
      <4>4. r \in Row /\ r.status = "success" /\ r.wallet = item[2].wallet /\ r.amount = item[2].amount
        BY <4>2 DEF Row
      <4>5. r.wallet = Issuer[k[2]] /\ r.amount = Amount[k[2]]
        BY <4>2, <4>3, <4>4 DEF CreditCopy
      <4>6. rows' = [rows EXCEPT ![<<"in", k[2]>>] = r]
        BY <4>1, <4>2, <4>3
      <4> HIDE DEF r
      <4> QED BY <4>2, <4>3, <4>4, <4>5, <4>6, InvoiceRewritten
    <3> QED BY <1>3, <3>1, <3>2 DEF ProducerSkip
  <2>3. CopiesCredit'
    BY <1>1, <2>1, CopiesCreditKept
  <2> QED BY <1>1, <2>2, <2>3, NoCharge DEF CreditStep
<1> QED BY <1>2, <1>3 DEF ProducerStep

LEMMA OtherCredits ==
  ASSUME IInv, CreditInv, NodeStep \/ UNCHANGED vars
  PROVE  CreditStep
<1>1. UNCHANGED <<rows, pay, check, page, producer>>
  BY DEF NodeStep, NodeReceives, NodePays, NodeFails, Expire, taskVars, vars
<1> QED BY <1>1, NoCharge, CopiesCreditKept DEF CreditStep, LedgerMoves

LEMMA CrashCredits ==
  ASSUME IInv, CreditInv, Crash
  PROVE  CreditStep
<1>1. /\ UNCHANGED rows
      /\ pay' = [p \in Payers |-> IdleCall]
      /\ check' = [c \in Checkers |-> [todo |-> {}, writing |-> {}]]
      /\ page' = [g \in Pagers |-> {}]
      /\ producer' = {}
  BY DEF Crash
<1>2. \A p \in Payers : Fresh(p)
  BY <1>1, FreshIdle DEF Charging, IdleCall
<1>3. CopiesCredit'
  BY <1>1 DEF CopiesCredit
<1> QED BY <1>1, <1>2, <1>3 DEF CreditStep, LedgerMoves

LEMMA EveryStepCredits ==
  ASSUME IInv, DebitInv, CreditInv, [Next]_vars
  PROVE  CreditStep
BY CreateInvoiceCredits, PayCredits, CheckerCredits, PageCredits, ProducerCredits,
   OtherCredits, CrashCredits DEF Next

-----------------------------------------------------------------------------
LEMMA RowWrittenOK ==
  ASSUME IInv, CreditInv, NEW k \in Keys, NEW r \in Row, RowWritten(k, r),
         rows' = [rows EXCEPT ![k] = r], NEW h \in Hashes
  PROVE  CreditOK(h)'
<1>1. rows'[k] = r /\ \A j \in Keys : j # k => rows'[j] = rows[j]
  BY OneRow
<1>2. CreditOK(h) /\ RowsOK(h)
  BY DEF CreditInv, IInv, RowsInv
<1>3. <<"in", h>> \in Keys /\ <<"internal", h>> \in Keys /\ <<"service_fee", h>> \in Keys
  BY KeysOfHash
<1> DEFINE i == rows[<<"in", h>>]  d == rows[<<"internal", h>>]  f == rows[<<"service_fee", h>>]
<1>4. CASE k \notin {<<"in", h>>, <<"internal", h>>, <<"service_fee", h>>}
  <2>1. /\ rows'[<<"in", h>>] = rows[<<"in", h>>]
        /\ rows'[<<"internal", h>>] = rows[<<"internal", h>>]
        /\ rows'[<<"service_fee", h>>] = rows[<<"service_fee", h>>]
    BY <1>1, <1>3, <1>4
  <2> QED BY <1>2, <2>1 DEF CreditOK, Final
<1>5. CASE k = <<"in", h>>
  <2>1. /\ rows'[<<"in", h>>] = r
        /\ rows'[<<"internal", h>>] = rows[<<"internal", h>>]
        /\ rows'[<<"service_fee", h>>] = rows[<<"service_fee", h>>]
    BY <1>1, <1>3, <1>5
  <2>2. r.wallet = Issuer[h] /\ r.amount = Amount[h]
        /\ (rows[<<"in", h>>].status # "none" => r.status \in {"success", "failed"})
    BY <1>5 DEF RowWritten, CreditWritten, OutWritten, InternalWritten, FeeWritten
  <2> QED BY <1>2, <2>1, <2>2 DEF CreditOK, Final
<1>6. CASE k = <<"internal", h>>
  <2>1. /\ rows'[<<"in", h>>] = rows[<<"in", h>>]
        /\ rows'[<<"internal", h>>] = r
        /\ rows'[<<"service_fee", h>>] = rows[<<"service_fee", h>>]
    BY <1>1, <1>3, <1>6
  <2>2. r.fee = fee_reserve_total(Amount[h], TRUE) /\ rows[<<"in", h>>].status = "pending"
    BY <1>6 DEF RowWritten, CreditWritten, OutWritten, InternalWritten, FeeWritten
  <2>3. rows[<<"service_fee", h>>].status = "none"
    BY <1>2, <2>2 DEF CreditOK, RowsOK, Final
  <2> QED BY <1>2, <2>1, <2>2, <2>3 DEF CreditOK, Final
<1>7. CASE k = <<"service_fee", h>>
  <2>1. /\ rows'[<<"in", h>>] = rows[<<"in", h>>]
        /\ rows'[<<"internal", h>>] = rows[<<"internal", h>>]
        /\ rows'[<<"service_fee", h>>] = r
    BY <1>1, <1>3, <1>7
  <2>2. /\ r.wallet = FeeWallet /\ r.fee = 0
        /\ r.amount = service_fee(Amount[h], rows[<<"internal", h>>].status # "none")
        /\ Issuer[h] # NoWallet => Final(h)
    BY <1>7 DEF RowWritten, CreditWritten, OutWritten, InternalWritten, FeeWritten
  <2> QED BY <1>2, <2>1, <2>2 DEF CreditOK, Final
<1> QED BY <1>4, <1>5, <1>6, <1>7

\* An internal debit needs a pending invoice, which a call that charges has not.
LEMMA FreshHolds ==
  ASSUME IInv, CreditInv, LedgerMoves, LedgerStep, NEW p \in Payers, Fresh(p)
  PROVE  CreditCall(p)'
<1> SUFFICES ASSUME Charging(pay'[p]) PROVE CreditCall(p)'
  BY DEF CreditCall, Charging
<1>1. PICK k \in Keys : k = pay'[p].key
  BY DEF Fresh
<1>2. /\ k[1] \in {"in", "out", "internal"}
      /\ rows[k].status # "none"
      /\ is_internal(k) <=> rows[<<"internal", k[2]>>].status # "none"
      /\ Issuer[k[2]] # NoWallet => FinalNext(k[2])
  BY <1>1 DEF Fresh
<1>3. k[2] \in Hashes /\ k = <<k[1], k[2]>>
  BY KeyParts
<1>4. PICK h \in Hashes : h = k[2]
  BY <1>3
<1>5. <<"in", h>> \in Keys /\ <<"internal", h>> \in Keys /\ RowsOK(h)
  BY KeysOfHash DEF IInv, RowsInv
<1>6. rows'[<<"internal", h>>].status # "none" <=> rows[<<"internal", h>>].status # "none"
  <2>1. CASE UNCHANGED rows
    BY <2>1
  <2>2. ASSUME NEW j \in Keys, NEW r \in Row, rows' = [rows EXCEPT ![j] = r], RowWritten(j, r)
        PROVE  rows'[<<"internal", h>>].status # "none" <=> rows[<<"internal", h>>].status # "none"
    <3>1. rows'[j] = r /\ \A i \in Keys : i # j => rows'[i] = rows[i]
      BY <2>2, OneRow
    <3>2. CASE j # <<"internal", h>>
      BY <1>5, <3>1, <3>2
    <3>3. CASE j = <<"internal", h>>
      <4>1. rows[<<"in", h>>].status = "pending"
        BY <2>2, <3>3 DEF RowWritten, CreditWritten, OutWritten, InternalWritten, FeeWritten
      <4>2. rows'[<<"in", h>>].status = "pending"
        BY <1>5, <3>1, <3>3, <4>1
      <4>3. Issuer[h] # NoWallet
        BY <1>5, <4>1 DEF RowsOK
      <4> QED BY <1>2, <1>4, <4>2, <4>3 DEF FinalNext
    <3> QED BY <3>2, <3>3
  <2> QED BY <2>1, <2>2 DEF LedgerMoves
<1>7. Hash(p)' = h /\ pay'[p].key = k
  BY <1>1, <1>4 DEF Hash
<1>8. Issuer[h] # NoWallet => rows'[<<"in", h>>].status \in {"success", "failed"}
  BY <1>2, <1>4 DEF FinalNext
<1>9. is_internal(k) <=> rows'[<<"internal", h>>].status # "none"
  BY <1>2, <1>4, <1>6
<1>10. rows'[k].status # "none"
  <2>1. CASE k[1] = "internal"
    BY <1>2, <1>3, <1>4, <1>6, <2>1
  <2>2. CASE k[1] = "in"
    <3>1. ASSUME NEW j \in Keys, NEW r \in Row, rows' = [rows EXCEPT ![j] = r], RowWritten(j, r)
          PROVE  rows'[k].status # "none"
      <4>1. rows'[j] = r /\ \A i \in Keys : i # j => rows'[i] = rows[i]
        BY <3>1, OneRow
      <4>2. CASE j = k
        BY <1>2, <2>2, <3>1, <4>1, <4>2
           DEF RowWritten, CreditWritten, OutWritten, InternalWritten, FeeWritten
      <4> QED BY <1>2, <4>1, <4>2
    <3> QED BY <1>2, <3>1 DEF LedgerMoves
  <2>3. CASE k[1] = "out"
    <3>1. CASE PayersRowsKept
      BY <1>2, <1>3, <2>3, <3>1 DEF PayersRowsKept
    <3>2. ASSUME NEW j \in Keys, NEW r \in Row, rows' = [rows EXCEPT ![j] = r],
                 DebitStart(j, r) \/ DebitEnd(j, r)
          PROVE  rows'[k].status # "none"
      <4>1. rows'[j] = r /\ \A i \in Keys : i # j => rows'[i] = rows[i]
        BY <3>2, OneRow
      <4>2. r.status # "none"
        BY <3>2 DEF DebitStart, DebitEnd
      <4> QED BY <1>2, <4>1, <4>2
    <3> QED BY <3>1, <3>2 DEF LedgerStep
  <2> QED BY <1>2, <2>1, <2>2, <2>3
<1> QED BY <1>2, <1>6, <1>7, <1>8, <1>9, <1>10 DEF CreditCall, Final, is_internal

LEMMA CreditInvIsInductive ==
  ASSUME IInv, DebitInv, CreditInv, [Next]_vars
  PROVE  CreditInv'
<1>1. LedgerMoves /\ (\A p \in Payers : Fresh(p)) /\ CopiesCredit'
  BY EveryStepCredits DEF CreditStep
<1>2. \A p \in Payers : CreditCall(p)'
  <2>1. LedgerStep
    BY EveryStepDebits DEF DebitStep
  <2> QED BY <1>1, <2>1, FreshHolds
<1>3. \A h \in Hashes : CreditOK(h)'
  <2>1. CASE UNCHANGED rows
    BY <2>1 DEF CreditInv, CreditOK, Final
  <2> QED BY <1>1, <2>1, RowWrittenOK DEF LedgerMoves
<1> QED BY <1>1, <1>2, <1>3 DEF CreditInv, CopiesCredit

LEMMA InitCredits == Init => CreditInv
<1> SUFFICES ASSUME Init PROVE CreditInv
  OBVIOUS
<1>1. \A h \in Hashes : /\ rows[<<"in", h>>].status = "none"
                        /\ rows[<<"internal", h>>].status = "none"
                        /\ rows[<<"service_fee", h>>].status = "none"
  BY KeysOfHash DEF Init, NoRow
<1>2. \A h \in Hashes : CreditOK(h)
  BY <1>1 DEF CreditOK
<1>3. \A p \in Payers : CreditCall(p)
  BY DEF Init, CreditCall, IdleCall
<1> QED BY <1>2, <1>3 DEF Init, CreditInv

\* An invoice's row credits its issuer with the invoice's amount, and a row of
\* the fee wallet holds the service fee of its payment, whichever of pay_invoice,
\* the checks and the invoice stream writes them, and from however old a copy.
THEOREM CreditsHold == Spec => []CreditInv
<1>1. IInv /\ DebitInv /\ CreditInv /\ [Next]_vars => CreditInv'
  BY CreditInvIsInductive
<1> QED
  BY <1>1, InitCredits, InvariantHolds, DebitsHold, PTL DEF Spec

\* Debits and credits together: what a row of each kind may say of its hash.
THEOREM LedgerHolds == Spec => []LedgerInv
BY DebitsHold, CreditsHold, PTL DEF LedgerInv

\* The rows count for no more than the node has received, less what it has spent
\* or may still spend: pay_invoice debits before it asks the node, a payment is
\* refunded only when the node has given it up, and nothing is credited twice.
THEOREM ServerIsSolvent == Spec => []Solvent
BY SolventFollows, InvariantHolds, DebitsHold, CreditsHold, PTL

-----------------------------------------------------------------------------
(***************************************************************************)
(* Overdrafts                                                              *)
(***************************************************************************)
(* What the rows of one hash leave wallet w entitled to.                     *)
Share(w, k) == IF rows[k].wallet = w THEN Contribution(rows[k]) ELSE 0
Earned(w, h) == IF Issuer[h] = w /\ Paid(h) THEN Amount[h] ELSE 0
FeeShare(w, h) == IF w = FeeWallet THEN Contribution(rows[<<"service_fee", h>>]) ELSE 0

Owes(w, h) ==
  Share(w, <<"out", h>>) + Share(w, <<"internal", h>>) + Earned(w, h) + FeeShare(w, h)

Owed(w) == [h \in Hashes |-> Owes(w, h)]

LEMMA OwesTyped ==
  ASSUME IInv, NEW w, NEW h \in Hashes
  PROVE  /\ Share(w, <<"out", h>>) \in Int /\ Share(w, <<"internal", h>>) \in Int
         /\ Earned(w, h) \in Int /\ FeeShare(w, h) \in Int
         /\ Owes(w, h) \in Int
<1>1. \A k \in Keys : Contribution(rows[k]) \in Int
  BY RowCounts DEF IInv, TypeOK
<1>2. Share(w, <<"out", h>>) \in Int /\ Share(w, <<"internal", h>>) \in Int
  <2>1. \A k \in Keys : Share(w, k) \in Int
    BY <1>1 DEF Share
  <2> QED BY <2>1, KeysOfHash
<1>3. Earned(w, h) \in Int
  BY PaymentConstants DEF Earned
<1>4. FeeShare(w, h) \in Int
  <2>1. Contribution(rows[<<"service_fee", h>>]) \in Int
    BY <1>1, KeysOfHash
  <2> QED BY <2>1 DEF FeeShare
<1> DEFINE a == Share(w, <<"out", h>>)  b == Share(w, <<"internal", h>>)
           c == Earned(w, h)  d == FeeShare(w, h)
<1>5. Owes(w, h) = a + b + c + d
  BY DEF Owes
<1>6. a + b + c + d \in Int
  <2>1. a \in Int /\ b \in Int /\ c \in Int /\ d \in Int
    BY <1>2, <1>3, <1>4
  <2> HIDE DEF a, b, c, d
  <2> QED BY <2>1
<1> QED BY <1>2, <1>3, <1>4, <1>5, <1>6

(* A fee's row counts for the fee, an invoice's for at most its amount.      *)
LEMMA CreditsCount ==
  ASSUME IInv, CreditInv, NEW h \in Hashes
  PROVE  /\ Contribution(rows[<<"service_fee", h>>]) >= 0
         /\ ~(rows[<<"service_fee", h>>].amount < 0) \/ rows[<<"service_fee", h>>].status = "none"
         /\ ~(rows[<<"in", h>>].amount < 0) \/ rows[<<"in", h>>].status = "none"
         /\ Contribution(rows[<<"in", h>>]) <= Earned(rows[<<"in", h>>].wallet, h)
<1> DEFINE in == rows[<<"in", h>>]  fee == rows[<<"service_fee", h>>]
<1>1. RowsOK(h) /\ CreditOK(h)
  BY DEF IInv, RowsInv, CreditInv
<1>2. in \in Row /\ fee \in Row
  BY KeysOfHash DEF IInv, TypeOK
<1>3. Amount[h] \in Nat /\ Amount[h] > 0
  BY PaymentConstants
<1>4. Contribution(fee) >= 0 /\ (~(fee.amount < 0) \/ fee.status = "none")
  <2>1. CASE fee.status = "none"
    BY <1>2, <2>1, RowCounts
  <2>2. CASE fee.status = "success"
    <3> DEFINE x == fee.amount  y == fee.fee  c == Contribution(fee)
    <3>1. c = x - y
      BY <1>2, <2>2, RowCounts
    <3>2. x \in Nat /\ y = 0
      <4>1. fee.amount = service_fee(Amount[h], rows[<<"internal", h>>].status # "none") /\ fee.fee = 0
        BY <1>1, <2>2 DEF CreditOK
      <4> QED BY <4>1, InternalFee
    <3>3. c >= 0 /\ ~(x < 0)
      <4> HIDE DEF c, x, y
      <4> QED BY <3>1, <3>2
    <3> QED BY <3>3
  <2> QED BY <1>1, <2>1, <2>2 DEF RowsOK
<1>5. ~(in.amount < 0) \/ in.status = "none"
  <2>1. in.status # "none" => in.amount = Amount[h]
    BY <1>1 DEF CreditOK
  <2> QED BY <1>3, <2>1
<1>6. Contribution(in) <= Earned(in.wallet, h)
  <2>1. Earned(in.wallet, h) \in {0, Amount[h]}
    BY DEF Earned
  <2>2. CASE in.status = "success"
    <3>1. in.wallet = Issuer[h] /\ in.amount = Amount[h] /\ Paid(h)
      BY <1>1, <2>2 DEF CreditOK, RowsOK
    <3>2. Earned(in.wallet, h) = Amount[h]
      BY <3>1 DEF Earned
    <3> DEFINE x == in.amount  y == in.fee  c == Contribution(in)
    <3>3. c = x - y /\ x = Amount[h] /\ y \in Nat
      BY <1>2, <2>2, <3>1, RowCounts DEF Row
    <3>4. c <= Amount[h]
      <4> HIDE DEF c, x, y
      <4> QED BY <1>3, <3>3
    <3> QED BY <3>2, <3>4
  <2>3. CASE in.status # "success"
    <3>1. in.status = "none" \/ in.amount > 0
      BY <1>1 DEF RowsOK
    <3>2. Contribution(in) = 0
      BY <1>2, <2>3, <3>1, RowCounts DEF Row
    <3> QED BY <1>3, <2>1, <3>2
  <2> QED BY <2>2, <2>3
<1> QED BY <1>4, <1>5, <1>6

LEMMA EntitledIsOwed ==
  IInv /\ CreditInv =>
    \A w \in Wallets : Entitled(w) = Opening[w] + SumFunctionOnSet(Owed(w), Hashes)
<1> SUFFICES ASSUME IInv, CreditInv, NEW w \in Wallets
             PROVE  Entitled(w) = Opening[w] + SumFunctionOnSet(Owed(w), Hashes)
  OBVIOUS
<1> DEFINE debits == {k \in Outgoing(rows, w) : Counted(rows[k])}
           earned == {h \in Hashes : Issuer[h] = w /\ Paid(h)}
           fees == IF w = FeeWallet THEN {<<"service_fee", h>> : h \in Hashes} ELSE {}
           D == [h \in Hashes |-> OfKinds(Part(rows, debits), h)]
           E == [h \in Hashes |-> Earned(w, h)]
           S == [h \in Hashes |-> OfKinds(Part(rows, fees), h)]
           DE == [h \in Hashes |-> D[h] + E[h]]
<1>1. rows \in [Keys -> Row] /\ IsFiniteSet(Hashes)
  BY KeysAreFinite DEF IInv, TypeOK
<1>2. debits \in SUBSET Keys /\ fees \in SUBSET Keys /\ earned \in SUBSET Hashes
  BY KeysOfHash DEF Outgoing, Stored
<1>3. Total(rows, debits) = SumFunctionOnSet(D, Hashes) /\ \A h \in Hashes : D[h] \in Int
  BY <1>1, <1>2, TotalByHash
<1>4. Total(rows, fees) = SumFunctionOnSet(S, Hashes) /\ \A h \in Hashes : S[h] \in Int
  BY <1>1, <1>2, TotalByHash
<1>5. SumFunctionOnSet(Amount, earned) = SumFunctionOnSet(E, Hashes) /\ \A h \in Hashes : E[h] \in Int
  <2>1. \A h \in Hashes : Amount[h] \in Int /\ E[h] = IF h \in earned THEN Amount[h] ELSE 0
    BY PaymentConstants DEF Earned
  <2>2. \A h \in Hashes : E[h] \in Int
    BY <2>1
  <2> HIDE DEF E, earned
  <2> QED BY <1>1, <1>2, <2>1, <2>2, SumOfPart
<1>6. (IF w = FeeWallet THEN Total(rows, {<<"service_fee", h>> : h \in Hashes}) ELSE 0)
        = Total(rows, fees)
  <2>1. Total(rows, {}) = 0
    BY SumNone DEF Total
  <2> QED BY <2>1
<1>7. ASSUME NEW h \in Hashes PROVE Owed(w)[h] = DE[h] + S[h]
  <2> DEFINE P == Part(rows, debits)
             Q == Part(rows, fees)
             a == Share(w, <<"out", h>>)  b == Share(w, <<"internal", h>>)
             c == Earned(w, h)  d == FeeShare(w, h)
  <2>1. /\ P[<<"in", h>>] = 0 /\ P[<<"service_fee", h>>] = 0
        /\ P[<<"out", h>>] = a /\ P[<<"internal", h>>] = b
    <3>1. <<"in", h>> \notin debits /\ <<"service_fee", h>> \notin debits
      BY CreditsCount DEF Outgoing, Stored
    <3>2. \A k \in {<<"out", h>>, <<"internal", h>>} :
            k \in debits <=> rows[k].wallet = w /\ Counted(rows[k])
      <4>1. RowsOK(h)
        BY DEF IInv, RowsInv
      <4>2. <<"out", h>> \in Keys /\ <<"internal", h>> \in Keys
        BY KeysOfHash
      <4>3. \A k \in {<<"out", h>>, <<"internal", h>>} :
              Counted(rows[k]) => rows[k].status # "none" /\ rows[k].amount < 0
        BY <4>1 DEF RowsOK, Counted
      <4> QED BY <4>2, <4>3 DEF Outgoing, Stored
    <3> HIDE DEF debits
    <3>3. \A k \in {<<"out", h>>, <<"internal", h>>} : P[k] = Share(w, k)
      BY <3>2, KeysOfHash DEF Part, Share, Contribution
    <3> QED BY <3>1, <3>3, KeysOfHash DEF Part
  <2>2. /\ Q[<<"in", h>>] = 0 /\ Q[<<"out", h>>] = 0 /\ Q[<<"internal", h>>] = 0
        /\ Q[<<"service_fee", h>>] = d
    <3>1. /\ <<"in", h>> \notin fees /\ <<"out", h>> \notin fees /\ <<"internal", h>> \notin fees
          /\ <<"service_fee", h>> \in fees <=> w = FeeWallet
      OBVIOUS
    <3> HIDE DEF fees
    <3> QED BY <3>1, KeysOfHash DEF Part, FeeShare
  <2>3. a \in Int /\ b \in Int /\ c \in Int /\ d \in Int
    BY OwesTyped
  <2>4. D[h] = 0 + a + b + 0
    BY <2>1 DEF OfKinds
  <2>5. S[h] = 0 + 0 + 0 + d
    BY <2>2 DEF OfKinds
  <2>6. DE[h] = D[h] + c
    OBVIOUS
  <2>7. Owed(w)[h] = a + b + c + d
    BY DEF Owed, Owes
  <2> DEFINE x == D[h]  y == S[h]  z == DE[h]
  <2>8. a + b + c + d = z + y
    <3>1. x = 0 + a + b + 0 /\ y = 0 + 0 + 0 + d /\ z = x + c
      BY <2>4, <2>5, <2>6
    <3> HIDE DEF a, b, c, d, x, y, z
    <3> QED BY <2>3, <3>1
  <2> QED BY <2>7, <2>8
<1> HIDE DEF debits, fees, earned, D, E, S
<1>8. \A h \in Hashes : DE[h] \in Int /\ DE[h] = D[h] + E[h]
  BY <1>3, <1>5
<1>9. SumFunctionOnSet(DE, Hashes) = SumFunctionOnSet(D, Hashes) + SumFunctionOnSet(E, Hashes)
  BY <1>1, <1>3, <1>5, SumPlus
<1> HIDE DEF DE
<1>10. SumFunctionOnSet(Owed(w), Hashes) = SumFunctionOnSet(DE, Hashes) + SumFunctionOnSet(S, Hashes)
  BY <1>1, <1>4, <1>7, <1>8, SumPlus
<1>11. SumFunctionOnSet(D, Hashes) \in Int /\ SumFunctionOnSet(E, Hashes) \in Int /\ SumFunctionOnSet(S, Hashes) \in Int
  <2>1. SumFunctionOnSet(D, Hashes) \in Int
    BY <1>1, <1>3, SumTyped
  <2>2. SumFunctionOnSet(E, Hashes) \in Int
    BY <1>1, <1>5, SumTyped
  <2>3. SumFunctionOnSet(S, Hashes) \in Int
    BY <1>1, <1>4, SumTyped
  <2> QED BY <2>1, <2>2, <2>3
<1> DEFINE x == SumFunctionOnSet(D, Hashes)  y == SumFunctionOnSet(E, Hashes)  z == SumFunctionOnSet(S, Hashes)
           all == SumFunctionOnSet(Owed(w), Hashes)  opening == Opening[w]
<1>12. Entitled(w) = opening + x + y + z
  BY <1>3, <1>4, <1>5, <1>6 DEF Entitled, debits, earned
<1>13. opening \in Int
  BY LedgerConstants
<1>14. opening + x + y + z = opening + all
  <2>1. all = (x + y) + z
    BY <1>9, <1>10
  <2> HIDE DEF x, y, z, all, opening
  <2> QED BY <1>11, <1>13, <2>1 DEF x, y, z
<1> QED BY <1>12, <1>14

(* What a wallet can spend is no more than it is owed.                       *)
LEMMA BalanceIsOwed ==
  ASSUME IInv, CreditInv, NEW w \in Wallets
  PROVE  balance_msat(rows, w) <= Entitled(w) /\ balance_msat(rows, w) \in Int
<1> DEFINE U == {k \in Stored(rows) : rows[k].wallet = w}
           B == [h \in Hashes |-> OfKinds(Part(rows, U), h)]
<1>1. rows \in [Keys -> Row] /\ IsFiniteSet(Hashes)
  BY KeysAreFinite DEF IInv, TypeOK
<1>2. U \in SUBSET Keys
  BY DEF Stored
<1>3. Total(rows, U) = SumFunctionOnSet(B, Hashes) /\ \A h \in Hashes : B[h] \in Int
  BY <1>1, <1>2, TotalByHash
<1>4. ASSUME NEW h \in Hashes PROVE B[h] <= Owed(w)[h] /\ Owed(w)[h] \in Int
  <2> DEFINE P == Part(rows, U)
             a == Share(w, <<"out", h>>)  b == Share(w, <<"internal", h>>)
             c == Earned(w, h)  d == FeeShare(w, h)
             i == Share(w, <<"in", h>>)  f == Share(w, <<"service_fee", h>>)
  <2>1. P[<<"in", h>>] = i /\ P[<<"out", h>>] = a /\ P[<<"internal", h>>] = b
        /\ P[<<"service_fee", h>>] = f
    <3>1. \A k \in Keys : k \in U <=> rows[k].wallet = w /\ rows[k].status # "none"
      BY DEF Stored
    <3>2. \A k \in Keys : rows[k].status = "none" => Contribution(rows[k]) = 0
      BY <1>1, RowCounts
    <3> HIDE DEF U
    <3>3. \A k \in Keys : P[k] = Share(w, k)
      BY <3>1, <3>2 DEF Part, Share
    <3> QED BY <3>3, KeysOfHash
  <2>2. B[h] = i + a + b + f
    BY <2>1 DEF OfKinds
  <2>3. a \in Int /\ b \in Int /\ c \in Int /\ d \in Int /\ Owes(w, h) \in Int
    BY OwesTyped
  <2>4. Owed(w)[h] = a + b + c + d
    BY DEF Owed, Owes
  <2>5. i \in Int /\ i <= c
    <3>1. Contribution(rows[<<"in", h>>]) \in Int
      BY <1>1, KeysOfHash, RowCounts
    <3>2. CASE rows[<<"in", h>>].wallet = w
      BY <3>1, <3>2, CreditsCount DEF Share
    <3>3. CASE rows[<<"in", h>>].wallet # w
      <4>1. i = 0
        BY <3>3 DEF Share
      <4>2. c >= 0
        BY PaymentConstants DEF Earned
      <4> HIDE DEF i, c
      <4> QED BY <2>3, <4>1, <4>2
    <3> QED BY <3>2, <3>3
  <2>6. f \in Int /\ f <= d
    <3> DEFINE fee == rows[<<"service_fee", h>>]
    <3>1. Contribution(fee) \in Int /\ Contribution(fee) >= 0
      BY <1>1, KeysOfHash, RowCounts, CreditsCount
    <3>2. fee.status = "none" => Contribution(fee) = 0
      BY <1>1, KeysOfHash, RowCounts
    <3>3. fee.status # "none" => fee.wallet = FeeWallet
      BY DEF CreditInv, CreditOK
    <3> HIDE DEF fee
    <3>4. f = IF fee.wallet = w THEN Contribution(fee) ELSE 0
      BY DEF Share, fee
    <3>5. d = IF w = FeeWallet THEN Contribution(fee) ELSE 0
      BY DEF FeeShare, fee
    <3> HIDE DEF f, d
    <3> QED BY <3>1, <3>2, <3>3, <3>4, <3>5
  <2>7. i + a + b + f <= a + b + c + d /\ a + b + c + d \in Int
    <3> HIDE DEF a, b, c, d, i, f
    <3> QED BY <2>3, <2>5, <2>6
  <2> QED BY <2>2, <2>4, <2>7
<1> HIDE DEF U, B
<1>5. SumFunctionOnSet(B, Hashes) <= SumFunctionOnSet(Owed(w), Hashes)
  BY <1>1, <1>3, <1>4, SumMono
<1>6. SumFunctionOnSet(B, Hashes) \in Int
  BY <1>1, <1>3, SumTyped
<1>7. SumFunctionOnSet(Owed(w), Hashes) \in Int
  BY <1>1, <1>4, SumTyped
<1> DEFINE x == SumFunctionOnSet(B, Hashes)  y == SumFunctionOnSet(Owed(w), Hashes)  o == Opening[w]
<1>8. balance_msat(rows, w) = o + x
  BY <1>3 DEF balance_msat, U
<1>9. Entitled(w) = o + y
  BY EntitledIsOwed
<1>10. o + x <= o + y /\ o + x \in Int
  <2>1. o \in Int
    BY LedgerConstants
  <2> HIDE DEF x, y, o
  <2> QED BY <1>5, <1>6, <1>7, <2>1 DEF x, y
<1> QED BY <1>8, <1>9, <1>10

-----------------------------------------------------------------------------
(* An invoice once paid stays paid, and a settled debit stays a debit.       *)
LEMMA PaidStays ==
  ASSUME IInv, DebitInv, [Next]_vars, NEW h \in Hashes, Paid(h)
  PROVE  Paid(h)'
<1>1. CASE node[h].invoice = "settled"
  <2>1. node \in [Hashes -> NodeHash]
    BY DEF IInv, TypeOK
  <2>2. node'[h].invoice = "settled"
    <3>1. CASE \E j \in Hashes : create_invoice(j)
      <4>1. PICK j \in Hashes : create_invoice(j)
        BY <3>1
      <4>2. /\ node' = [node EXCEPT ![j].invoice = "open"]
            /\ MayCreate(rows, <<"in", j>>)
        BY <4>1 DEF create_invoice
      <4>3. rows[<<"in", j>>].status = "none"
        BY <4>2, KeysOfHash DEF MayCreate, Stored
      <4>4. rows[<<"in", h>>].status # "none"
        BY <1>1 DEF IInv, NodeInv, NodeOK
      <4>5. j # h
        BY <4>3, <4>4
      <4> QED BY <1>1, <2>1, <4>2, <4>5
    <3>2. CASE \E p \in Payers : PayStep(p)
      <4>1. PICK p \in Payers : PayStep(p)
        BY <3>2
      <4>2. CASE FundingSourcePay(p)
        BY <1>1, <2>1, <4>2 DEF FundingSourcePay, NodeHash
      <4>3. CASE UNCHANGED node
        BY <1>1, <4>3
      <4> QED BY <4>1, <4>2, <4>3 DEF PayStep, PayCheck, PayRejected, PayInternalDebit,
                PayInternalCredit, PayExternal, PayVerify, VerifyAnswer, PayResponse,
                PayTimeout, CreditServiceFee, nodeVars
    <3>3. CASE \E c \in Checkers : CheckerStep(c)
      BY <1>1, <3>3 DEF CheckerStep, CheckerReadAll, CheckerReadOne, CheckerStart,
                        CheckerAsk, CheckerSkip, CheckerRaise, CheckerWrite, nodeVars
    <3>4. CASE \E g \in Pagers : PageStep(g)
      BY <1>1, <3>4 DEF PageStep, PageBegin, PageCheck, PageEnd, nodeVars
    <3>5. CASE ProducerStep
      BY <1>1, <3>5 DEF ProducerStep, ProducerRead, ProducerSkip, ProducerWrite, nodeVars
    <3>6. CASE NodeStep
      <4>1. PICK j \in Hashes : NodeReceives(j) \/ NodePays(j) \/ NodeFails(j) \/ Expire(j)
        BY <3>6 DEF NodeStep
      <4> QED BY <1>1, <2>1, <4>1 DEF NodeReceives, NodePays, NodeFails, Expire, NodeHash
    <3>7. CASE Crash
      BY <1>1, <3>7 DEF Crash
    <3>8. CASE UNCHANGED vars
      BY <1>1, <3>8 DEF vars
    <3> QED BY <3>1, <3>2, <3>3, <3>4, <3>5, <3>6, <3>7, <3>8 DEF Next
  <2> QED BY <2>2 DEF Paid
<1>2. CASE rows[<<"internal", h>>].status = "success"
  <2> DEFINE k == <<"internal", h>>
  <2>1. k \in Keys /\ k[1] = "internal"
    BY KeysOfHash
  <2>2. rows'[k] = rows[k]
    BY <1>2, <2>1, FinalRowsStay
  <2> QED BY <1>2, <2>2 DEF Paid
<1> QED BY <1>1, <1>2 DEF Paid

LEMMA EarnedStays ==
  ASSUME IInv, DebitInv, [Next]_vars, NEW w, NEW h \in Hashes
  PROVE  Earned(w, h)' \in Int /\ Earned(w, h) <= Earned(w, h)'
<1>1. Amount[h] \in Nat
  BY PaymentConstants
<1>2. Paid(h) => Paid(h)'
  BY PaidStays
<1> DEFINE before == Paid(h)
           after == Paid(h)'
<1>3. /\ Earned(w, h) = IF Issuer[h] = w /\ before THEN Amount[h] ELSE 0
      /\ Earned(w, h)' = IF Issuer[h] = w /\ after THEN Amount[h] ELSE 0
  BY DEF Earned
<1> HIDE DEF before, after
<1>4. before => after
  BY <1>2 DEF before, after
<1> QED BY <1>1, <1>3, <1>4

FeesCount == \A h \in Hashes : Contribution(rows[<<"service_fee", h>>]) >= 0

LEMMA FeeRowsCount == IInv /\ CreditInv => FeesCount
BY CreditsCount DEF FeesCount

LEMMA FeeShareStays ==
  ASSUME IInv, CreditInv, IInv', CreditInv', LedgerMoves, NEW w, NEW h \in Hashes
  PROVE  FeeShare(w, h)' \in Int /\ FeeShare(w, h) <= FeeShare(w, h)'
<1> DEFINE k == <<"service_fee", h>>
<1>1. k \in Keys
  BY KeysOfHash
<1>2. rows[k] \in Row /\ rows'[k] \in Row
  BY <1>1 DEF IInv, TypeOK
<1>3. Contribution(rows[k]) \in Int /\ Contribution(rows'[k]) \in Int
  BY <1>2, RowCounts
<1>4. Contribution(rows[k]) <= Contribution(rows'[k])
  <2>1. CASE rows'[k] = rows[k]
    BY <1>3, <2>1
  <2>2. CASE rows'[k] # rows[k]
    <3>1. PICK j \in Keys, r \in Row : rows' = [rows EXCEPT ![j] = r] /\ RowWritten(j, r)
      BY <2>2 DEF LedgerMoves
    <3>2. j = k
      BY <1>1, <2>2, <3>1, OneRow
    <3>3. rows[k].status = "none"
      BY <3>1, <3>2 DEF RowWritten, CreditWritten, OutWritten, InternalWritten, FeeWritten
    <3>4. Contribution(rows[k]) = 0
      BY <1>2, <3>3, RowCounts
    <3>5. Contribution(rows'[k]) >= 0
      <4>1. FeesCount'
        BY FeeRowsCount, PTL
      <4> QED BY <4>1 DEF FeesCount, Contribution, Counted
    <3> QED BY <1>3, <3>4, <3>5
  <2> QED BY <2>1, <2>2
<1>5. /\ FeeShare(w, h) = IF w = FeeWallet THEN Contribution(rows[k]) ELSE 0
      /\ FeeShare(w, h)' = IF w = FeeWallet THEN Contribution(rows'[k]) ELSE 0
  BY DEF FeeShare, Contribution, Counted
<1> QED BY <1>3, <1>4, <1>5

(* A debit that has started can only become smaller.                         *)
LEMMA SharesAlone ==
  ASSUME IInv, NEW w, NEW h \in Hashes, NEW kind \in {"out", "internal"},
         rows'[<<kind, h>>] = rows[<<kind, h>>]
  PROVE  /\ Share(w, <<kind, h>>)' \in Int
         /\ Share(w, <<kind, h>>) <= Share(w, <<kind, h>>)'
<1>1. <<kind, h>> \in Keys
  BY KeysOfHash
<1>2. Contribution(rows[<<kind, h>>]) \in Int
  BY <1>1, RowCounts DEF IInv, TypeOK
<1>3. Share(w, <<kind, h>>) \in Int
  BY <1>2 DEF Share
<1>4. Share(w, <<kind, h>>)' = Share(w, <<kind, h>>)
  BY DEF Share, Contribution, Counted
<1> QED BY <1>3, <1>4

LEMMA OutShareStays ==
  ASSUME IInv, DebitInv, NEW k \in Keys, NEW r \in Row, DebitEnd(k, r),
         rows' = [rows EXCEPT ![k] = r], NEW w
  PROVE  Share(w, k)' \in Int /\ Share(w, k) <= Share(w, k)'
<1> DEFINE h == k[2]
           old == rows[k]
           total == fee_reserve_total(Amount[h], FALSE)
           a == Amount[h]
           x == Contribution(rows[k])
           y == Contribution(r)
<1>1. h \in Hashes /\ k = <<"out", h>> /\ rows'[k] = r
  BY OneRow DEF DebitEnd
<1>2. RowsOK(h) /\ NodeOK(h) /\ DebitOK(h) /\ DebitsOK
  BY <1>1 DEF IInv, RowsInv, NodeInv, DebitInv, DebitsOK
<1>3. /\ old \in Row
      /\ old.status \in {"pending", "success", "failed"}
      /\ old.amount = -a /\ r.amount = -a /\ old.wallet = r.wallet
      /\ old.amount < 0
  BY <1>1, <1>2 DEF DebitOK, DebitEnd, RowsOK, IInv, TypeOK, Row
<1>4. a \in Nat /\ a > 0 /\ total \in Nat
  BY <1>1, FeesOfAmounts, Zenon
<1>5. x \in Int /\ y \in Int
  BY <1>3, RowCounts
<1>6. x <= y
  <2> DEFINE oldFee == rows[k].fee  newFee == r.fee
             oldAmount == rows[k].amount  newAmount == r.amount
  <2>1. old.status = "failed" => x = 0
    BY <1>3, RowCounts
  <2>2. old.status \in {"pending", "success"} => x = oldAmount - oldFee
    BY <1>3, RowCounts
  <2>3. r.status = "failed" => y = 0
    BY RowCounts
  <2>4. r.status = "success" => y = newAmount - newFee
    BY RowCounts
  <2>5. oldFee \in Nat /\ newFee \in Nat /\ oldAmount = -a /\ newAmount = -a
    BY <1>3 DEF Row
  <2>6. CASE r.status = "failed"
    <3>1. node[h].payment = "failed"
      BY <2>6 DEF DebitEnd
    <3>2. x <= 0
      <4>1. CASE old.status = "failed"
        BY <2>1, <4>1
      <4>2. CASE old.status \in {"pending", "success"}
        <5>1. x = oldAmount - oldFee
          BY <2>2, <4>2
        <5> HIDE DEF x, a, oldAmount, oldFee
        <5> QED BY <1>4, <2>5, <5>1
      <4> QED BY <1>3, <4>1, <4>2
    <3>3. y = 0
      BY <2>3, <2>6
    <3> HIDE DEF x, y
    <3> QED BY <3>2, <3>3
  <2>7. CASE r.status = "success"
    <3>1. node[h].payment = "settled" /\ newFee = FinalFee(h)
      BY <2>7 DEF DebitEnd
    <3>2. old.status # "failed"
      BY <1>1, <1>2, <3>1 DEF NodeOK
    <3>3. newFee <= oldFee
      <4>1. CASE old.status = "success"
        <5>1. oldFee = FinalFee(h)
          BY <1>1, <1>2, <4>1 DEF DebitOK
        <5> HIDE DEF newFee, oldFee
        <5> QED BY <2>5, <3>1, <5>1
      <4>2. CASE old.status = "pending"
        <5>1. oldFee = total
          BY <1>1, <1>2, <4>2 DEF DebitOK
        <5>2. FinalFee(h) <= fee_reserve_total(Amount[h], FALSE)
          BY <1>1, <1>2, <3>1, FinalFeeFits
        <5> QED BY <3>1, <5>1, <5>2
      <4> QED BY <1>3, <3>2, <4>1, <4>2
    <3>4. x = oldAmount - oldFee /\ y = newAmount - newFee
      BY <1>3, <2>2, <2>4, <2>7, <3>2
    <3> HIDE DEF x, y, a, oldAmount, newAmount, oldFee, newFee
    <3> QED BY <1>4, <2>5, <3>3, <3>4
  <2> QED BY <2>6, <2>7 DEF DebitEnd
<1>7. /\ Share(w, k) = IF r.wallet = w THEN x ELSE 0
      /\ Share(w, k)' = IF r.wallet = w THEN y ELSE 0
  BY <1>1, <1>3 DEF Share, Contribution, Counted
<1> HIDE DEF x, y
<1> QED BY <1>5, <1>6, <1>7

(* A new debit takes what its row says from one wallet.                      *)
LEMMA NewShare ==
  ASSUME IInv, NEW k \in Keys, NEW r \in Row, DebitStart(k, r),
         rows' = [rows EXCEPT ![k] = r], NEW w
  PROVE  /\ Share(w, k)' \in Int
         /\ Share(w, k) = 0
         /\ Share(w, k)' = IF r.wallet = w THEN -(Amount[k[2]] + r.fee) ELSE 0
<1> DEFINE h == k[2]
           a == Amount[h]
           f == r.fee
           y == Contribution(r)
<1>1. h \in Hashes /\ k = <<k[1], h>> /\ rows'[k] = r
  BY OneRow
<1>2. rows[k].status = "none" /\ rows[k] \in Row
  BY <1>1 DEF DebitStart, IInv, TypeOK
<1>3. Share(w, k) = 0
  BY <1>2, RowCounts DEF Share
<1>4. a \in Nat /\ a > 0
  BY <1>1, FeesOfAmounts
<1>5. f \in Nat /\ r.amount = -a /\ r.status \in {"pending", "success"}
  BY DEF DebitStart, Row
<1>6. r.amount < 0
  BY <1>4, <1>5
<1>7. y = r.amount - f
  BY <1>5, <1>6, RowCounts
<1>8. y = -(a + f) /\ y \in Int
  <2> DEFINE x == r.amount
  <2>1. y = x - f /\ x = -a
    BY <1>5, <1>7
  <2> HIDE DEF y, x, a, f
  <2> QED BY <1>4, <1>5, <2>1
<1>9. Share(w, k)' = IF r.wallet = w THEN y ELSE 0
  BY <1>1 DEF Share, Contribution, Counted
<1> HIDE DEF y, a, f
<1> QED BY <1>3, <1>8, <1>9 DEF a, f

-----------------------------------------------------------------------------
(* Hash by hash: nothing is taken from a wallet but by a new debit.          *)
LEMMA OwesStays ==
  ASSUME IInv, DebitInv, CreditInv, IInv', CreditInv', [Next]_vars, LedgerMoves,
         NEW w, NEW h \in Hashes,
         \A kind \in {"out", "internal"} :
           /\ Share(w, <<kind, h>>)' \in Int
           /\ Share(w, <<kind, h>>) <= Share(w, <<kind, h>>)'
  PROVE  Owes(w, h)' \in Int /\ Owes(w, h) <= Owes(w, h)'
<1>1. PICK a0 \in Int, b0 \in Int, c0 \in Int, d0 \in Int :
        /\ a0 = Share(w, <<"out", h>>) /\ b0 = Share(w, <<"internal", h>>)
        /\ c0 = Earned(w, h) /\ d0 = FeeShare(w, h)
  BY OwesTyped
<1>2. /\ Earned(w, h)' \in Int /\ Earned(w, h) <= Earned(w, h)'
      /\ FeeShare(w, h)' \in Int /\ FeeShare(w, h) <= FeeShare(w, h)'
  <2>1. Earned(w, h)' \in Int /\ Earned(w, h) <= Earned(w, h)'
    BY EarnedStays
  <2>2. FeeShare(w, h)' \in Int /\ FeeShare(w, h) <= FeeShare(w, h)'
    BY FeeShareStays
  <2> QED BY <2>1, <2>2
<1>3. PICK a1 \in Int, b1 \in Int, c1 \in Int, d1 \in Int :
        /\ a1 = Share(w, <<"out", h>>)' /\ b1 = Share(w, <<"internal", h>>)'
        /\ c1 = Earned(w, h)' /\ d1 = FeeShare(w, h)'
  BY <1>2
<1>4. a0 <= a1 /\ b0 <= b1 /\ c0 <= c1 /\ d0 <= d1
  BY <1>1, <1>2, <1>3
<1>5. Owes(w, h) = a0 + b0 + c0 + d0
  BY <1>1 DEF Owes
<1>6. Owes(w, h)' = a1 + b1 + c1 + d1
  BY <1>3 DEF Owes
<1>7. a0 + b0 + c0 + d0 <= a1 + b1 + c1 + d1 /\ a1 + b1 + c1 + d1 \in Int
  BY <1>4
<1> QED BY <1>5, <1>6, <1>7

-----------------------------------------------------------------------------
LEMMA OwesStarts ==
  ASSUME IInv, DebitInv, CreditInv, IInv', CreditInv', [Next]_vars, LedgerMoves,
         NEW k \in Keys, NEW r \in Row, DebitStart(k, r),
         rows' = [rows EXCEPT ![k] = r], NEW w
  PROVE  /\ Owes(w, k[2])' \in Int
         /\ r.wallet # w => Owes(w, k[2]) <= Owes(w, k[2])'
         /\ r.wallet = w => Owes(w, k[2]) - (Amount[k[2]] + r.fee) <= Owes(w, k[2])'
<1>1. PICK h \in Hashes : h = k[2]
  BY KeyParts
<1>2. PICK kind \in {"out", "internal"} : k = <<kind, h>>
  BY <1>1, KeyParts DEF DebitStart
<1>3. PICK other \in {"out", "internal"} : other # kind
  OBVIOUS
<1>4. PICK cost \in Int : cost = Amount[h] + r.fee
  BY PaymentConstants DEF Row
<1>5. rows'[<<other, h>>] = rows[<<other, h>>]
  BY <1>2, <1>3, KeysOfHash, OneRow
<1>6. /\ Share(w, <<kind, h>>)' \in Int /\ Share(w, <<kind, h>>) = 0
      /\ Share(w, <<kind, h>>)' = IF r.wallet = w THEN -cost ELSE 0
  BY <1>1, <1>2, <1>4, NewShare
<1>7. /\ Share(w, <<other, h>>)' \in Int
      /\ Share(w, <<other, h>>) <= Share(w, <<other, h>>)'
  BY <1>3, <1>5, SharesAlone
<1>8. PICK a0 \in Int, b0 \in Int, c0 \in Int, d0 \in Int :
        /\ a0 = Share(w, <<kind, h>>) /\ b0 = Share(w, <<other, h>>)
        /\ c0 = Earned(w, h) /\ d0 = FeeShare(w, h)
  BY OwesTyped
<1>9. /\ Earned(w, h)' \in Int /\ Earned(w, h) <= Earned(w, h)'
      /\ FeeShare(w, h)' \in Int /\ FeeShare(w, h) <= FeeShare(w, h)'
  <2>1. Earned(w, h)' \in Int /\ Earned(w, h) <= Earned(w, h)'
    BY EarnedStays
  <2>2. FeeShare(w, h)' \in Int /\ FeeShare(w, h) <= FeeShare(w, h)'
    BY FeeShareStays
  <2> QED BY <2>1, <2>2
<1>10. PICK a1 \in Int, b1 \in Int, c1 \in Int, d1 \in Int :
        /\ a1 = Share(w, <<kind, h>>)' /\ b1 = Share(w, <<other, h>>)'
        /\ c1 = Earned(w, h)' /\ d1 = FeeShare(w, h)'
  BY <1>6, <1>7, <1>9
<1>11. Owes(w, h) = a0 + b0 + c0 + d0
  <2>1. CASE kind = "out"
    BY <1>3, <1>8, <2>1 DEF Owes
  <2>2. CASE kind = "internal"
    <3>1. Owes(w, h) = b0 + a0 + c0 + d0
      BY <1>3, <1>8, <2>2 DEF Owes
    <3> QED BY <3>1
  <2> QED BY <2>1, <2>2
<1>12. Owes(w, h)' = a1 + b1 + c1 + d1
  <2>1. CASE kind = "out"
    BY <1>3, <1>10, <2>1 DEF Owes
  <2>2. CASE kind = "internal"
    <3>1. Owes(w, h)' = b1 + a1 + c1 + d1
      BY <1>3, <1>10, <2>2 DEF Owes
    <3> QED BY <3>1
  <2> QED BY <2>1, <2>2
<1>13. /\ a0 = 0 /\ a1 = IF r.wallet = w THEN -cost ELSE 0
       /\ b0 <= b1 /\ c0 <= c1 /\ d0 <= d1
  BY <1>6, <1>7, <1>8, <1>9, <1>10
<1>14. a1 + b1 + c1 + d1 \in Int
  OBVIOUS
<1>15. CASE r.wallet # w
  <2>1. a0 + b0 + c0 + d0 <= a1 + b1 + c1 + d1
    BY <1>13, <1>15
  <2> QED BY <1>1, <1>11, <1>12, <1>14, <1>15, <2>1
<1>16. CASE r.wallet = w
  <2>1. a0 + b0 + c0 + d0 - cost <= a1 + b1 + c1 + d1
    BY <1>13, <1>16
  <2> QED BY <1>1, <1>4, <1>11, <1>12, <1>14, <1>16, <2>1
<1> QED BY <1>15, <1>16

\* The balance check of the call that writes the row was on this very ledger.
LEMMA StartIsAfforded ==
  ASSUME IInv, LedgerMoves, NEW k \in Keys, NEW r \in Row, DebitStart(k, r),
         rows' = [rows EXCEPT ![k] = r]
  PROVE  Affords(r, k[2])
<1>1. rows'[k] = r /\ k = <<k[1], k[2]>>
  BY OneRow
<1>2. rows[k].status = "none" /\ r.status # "none"
  BY <1>1 DEF DebitStart
<1>3. PICK j \in Keys, s \in Row : rows' = [rows EXCEPT ![j] = s] /\ RowWritten(j, s)
  BY <1>1, <1>2 DEF LedgerMoves
<1>4. j = k /\ s = r
  BY <1>1, <1>2, <1>3, OneRow
<1> QED BY <1>2, <1>3, <1>4 DEF RowWritten, CreditWritten, OutWritten, InternalWritten,
                                FeeWritten, DebitStart

LEMMA OwedKept ==
  ASSUME IInv, NEW w, \A h \in Hashes : Owes(w, h)' \in Int /\ Owes(w, h) <= Owes(w, h)'
  PROVE  SumFunctionOnSet(Owed(w), Hashes) <= SumFunctionOnSet(Owed(w)', Hashes)
<1>1. PICK F : F = Owed(w)
  OBVIOUS
<1>2. PICK G : G = Owed(w)'
  OBVIOUS
<1>3. \A h \in Hashes : F[h] \in Int /\ G[h] \in Int /\ F[h] <= G[h]
  <2>1. \A h \in Hashes : F[h] = Owes(w, h) /\ Owes(w, h) \in Int
    BY <1>1, OwesTyped DEF Owed
  <2>2. \A h \in Hashes : G[h] = Owes(w, h)'
    BY <1>2 DEF Owed
  <2> QED BY <2>1, <2>2
<1>4. IsFiniteSet(Hashes)
  BY KeysAreFinite
<1>5. SumFunctionOnSet(F, Hashes) <= SumFunctionOnSet(G, Hashes)
  BY <1>3, <1>4, SumMono
<1> QED BY <1>1, <1>2, <1>5

LEMMA OwedCharged ==
  ASSUME IInv, NEW w, NEW x \in Hashes, NEW cost \in Int,
         \A h \in Hashes \ {x} : Owes(w, h)' \in Int /\ Owes(w, h) <= Owes(w, h)',
         Owes(w, x)' \in Int, Owes(w, x) - cost <= Owes(w, x)'
  PROVE  SumFunctionOnSet(Owed(w), Hashes) - cost <= SumFunctionOnSet(Owed(w)', Hashes)
<1>1. PICK F : F = Owed(w)
  OBVIOUS
<1>2. PICK G : G = Owed(w)'
  OBVIOUS
<1>3. /\ \A h \in Hashes : F[h] \in Int /\ G[h] \in Int
      /\ \A h \in Hashes \ {x} : F[h] <= G[h]
      /\ F[x] - cost <= G[x]
  <2>1. \A h \in Hashes : F[h] = Owes(w, h) /\ Owes(w, h) \in Int
    BY <1>1, OwesTyped DEF Owed
  <2>2. \A h \in Hashes : G[h] = Owes(w, h)'
    BY <1>2 DEF Owed
  <2> QED BY <2>1, <2>2
<1>4. IsFiniteSet(Hashes)
  BY KeysAreFinite
<1>5. SumFunctionOnSet(F, Hashes) - F[x] <= SumFunctionOnSet(G, Hashes) - G[x]
  BY <1>3, <1>4, SumChange
<1>6. PICK f \in Int, g \in Int, a \in Int, b \in Int :
        f = SumFunctionOnSet(F, Hashes) /\ g = SumFunctionOnSet(G, Hashes) /\ a = F[x] /\ b = G[x]
  <2>1. SumFunctionOnSet(F, Hashes) \in Int
    BY <1>3, <1>4, SumTyped
  <2>2. SumFunctionOnSet(G, Hashes) \in Int
    BY <1>3, <1>4, SumTyped
  <2> QED BY <1>3, <2>1, <2>2
<1>7. f - cost <= g
  BY <1>3, <1>5, <1>6
<1> QED BY <1>1, <1>2, <1>6, <1>7

LEMMA SharesStay ==
  ASSUME IInv, DebitInv, LedgerStep, NEW w, NEW h \in Hashes,
         NEW kind \in {"out", "internal"},
         \A k \in Keys, r \in Row :
           rows' = [rows EXCEPT ![k] = r] /\ DebitStart(k, r) => k[2] # h
  PROVE  /\ Share(w, <<kind, h>>)' \in Int
         /\ Share(w, <<kind, h>>) <= Share(w, <<kind, h>>)'
<1>1. CASE rows'[<<kind, h>>] = rows[<<kind, h>>]
  BY <1>1, SharesAlone
<1>2. CASE rows'[<<kind, h>>] # rows[<<kind, h>>]
  <2>1. ~PayersRowsKept
    BY <1>2 DEF PayersRowsKept
  <2>2. PICK k \in Keys, r \in Row : /\ rows' = [rows EXCEPT ![k] = r]
                                     /\ DebitStart(k, r) \/ DebitEnd(k, r)
    BY <2>1 DEF LedgerStep
  <2>3. k = <<kind, h>>
    BY <1>2, <2>2, KeysOfHash, OneRow
  <2>4. DebitEnd(k, r)
    BY <2>2, <2>3
  <2> QED BY <2>2, <2>3, <2>4, OutShareStays
<1> QED BY <1>1, <1>2

EntitledSum == \A w \in Wallets : Entitled(w) = Opening[w] + SumFunctionOnSet(Owed(w), Hashes)

LEMMA EntitledSums == IInv /\ CreditInv => EntitledSum
BY EntitledIsOwed DEF EntitledSum

LEMMA NoOverdraftStep ==
  ASSUME IInv, DebitInv, CreditInv, NoOverdraft, IInv', CreditInv', [Next]_vars
  PROVE  NoOverdraft'
<1>1. LedgerMoves /\ LedgerStep
  BY EveryStepCredits, EveryStepDebits DEF CreditStep, DebitStep
<1> SUFFICES ASSUME NEW w \in Wallets PROVE Entitled(w)' >= 0
  BY DEF NoOverdraft
<1>2. PICK o \in Nat : o = Opening[w]
  BY LedgerConstants
<1>3. \A h \in Hashes : Owes(w, h) \in Int
  BY OwesTyped
<1>4. PICK before \in Int : before = SumFunctionOnSet(Owed(w), Hashes)
  <2>1. \A h \in Hashes : Owed(w)[h] \in Int
    BY <1>3 DEF Owed
  <2> QED BY <2>1, KeysAreFinite, SumTyped
<1>5. Entitled(w) = o + before /\ o + before >= 0
  BY <1>2, <1>4, EntitledIsOwed DEF NoOverdraft
<1>6. Entitled(w)' = o + SumFunctionOnSet(Owed(w)', Hashes)
  <2>1. EntitledSum'
    BY EntitledSums, PTL
  <2> QED BY <1>2, <2>1 DEF EntitledSum
<1>7. ASSUME NEW h \in Hashes,
             \A k \in Keys, r \in Row :
               rows' = [rows EXCEPT ![k] = r] /\ DebitStart(k, r) => k[2] # h
      PROVE  Owes(w, h)' \in Int /\ Owes(w, h) <= Owes(w, h)'
  <2>1. \A kind \in {"out", "internal"} :
          /\ Share(w, <<kind, h>>)' \in Int
          /\ Share(w, <<kind, h>>) <= Share(w, <<kind, h>>)'
    BY <1>1, <1>7, SharesStay
  <2> QED BY <1>1, <2>1, OwesStays
<1>8. SumFunctionOnSet(Owed(w)', Hashes) \in Int /\ o + SumFunctionOnSet(Owed(w)', Hashes) >= 0
  <2>1. ASSUME NEW k \in Keys, NEW r \in Row,
               rows' = [rows EXCEPT ![k] = r], DebitStart(k, r)
        PROVE  SumFunctionOnSet(Owed(w)', Hashes) \in Int /\ o + SumFunctionOnSet(Owed(w)', Hashes) >= 0
    <3>1. PICK x \in Hashes : x = k[2]
      BY KeyParts
    <3>2. \A h \in Hashes \ {x} : Owes(w, h)' \in Int /\ Owes(w, h) <= Owes(w, h)'
      <4>1. ASSUME NEW h \in Hashes \ {x}, NEW j \in Keys, NEW s \in Row,
                   rows' = [rows EXCEPT ![j] = s], DebitStart(j, s)
            PROVE  j[2] # h
        <5>1. s.status # "none" /\ rows'[j] = s /\ rows[j].status = "none"
          BY <4>1, OneRow DEF DebitStart
        <5>2. j = k
          BY <2>1, <5>1, OneRow
        <5> QED BY <3>1, <5>2
      <4> QED BY <1>7, <4>1
    <3>3. /\ Owes(w, x)' \in Int
          /\ r.wallet # w => Owes(w, x) <= Owes(w, x)'
          /\ r.wallet = w => Owes(w, x) - (Amount[x] + r.fee) <= Owes(w, x)'
      BY <1>1, <2>1, <3>1, OwesStarts
    <3>4. PICK after \in Int : after = SumFunctionOnSet(Owed(w)', Hashes)
      <4>1. \A h \in Hashes : Owes(w, h)' \in Int
        BY <3>2, <3>3
      <4>2. PICK G : G = Owed(w)'
        OBVIOUS
      <4>3. \A h \in Hashes : G[h] \in Int
        BY <4>1, <4>2 DEF Owed
      <4>4. SumFunctionOnSet(G, Hashes) \in Int
        BY <4>3, KeysAreFinite, SumTyped
      <4> QED BY <4>2, <4>4
    <3>5. CASE r.wallet # w
      <4>1. before <= after
        BY <1>4, <3>2, <3>3, <3>4, <3>5, OwedKept
      <4>2. o + after >= 0
        BY <1>5, <4>1
      <4> QED BY <3>4, <4>2
    <3>6. CASE r.wallet = w
      <4>1. PICK cost \in Int : cost = Amount[x] + r.fee
        BY PaymentConstants DEF Row
      <4>2. before - cost <= after
        BY <1>4, <3>2, <3>3, <3>4, <3>6, <4>1, OwedCharged
      <4>3. balance_msat(rows, w) >= cost
        BY <1>1, <2>1, <3>1, <3>6, <4>1, StartIsAfforded DEF Affords
      <4>4. balance_msat(rows, w) <= o + before /\ balance_msat(rows, w) \in Int
        BY <1>5, BalanceIsOwed
      <4>5. o + after >= 0
        <5>1. PICK b \in Int : b = balance_msat(rows, w)
          BY <4>4
        <5>2. cost <= b /\ b <= o + before
          BY <4>3, <4>4, <5>1
        <5> QED BY <4>2, <5>2
      <4> QED BY <3>4, <4>5
    <3> QED BY <3>5, <3>6
  <2>2. ASSUME \A k \in Keys, r \in Row :
                 ~(rows' = [rows EXCEPT ![k] = r] /\ DebitStart(k, r))
        PROVE  SumFunctionOnSet(Owed(w)', Hashes) \in Int /\ o + SumFunctionOnSet(Owed(w)', Hashes) >= 0
    <3>1. \A h \in Hashes : Owes(w, h)' \in Int /\ Owes(w, h) <= Owes(w, h)'
      BY <1>7, <2>2
    <3>2. PICK G : G = Owed(w)'
      OBVIOUS
    <3>3. \A h \in Hashes : G[h] \in Int
      BY <3>1, <3>2 DEF Owed
    <3>4. PICK after \in Int : after = SumFunctionOnSet(Owed(w)', Hashes)
      BY <3>2, <3>3, KeysAreFinite, SumTyped
    <3>5. before <= after
      BY <1>4, <3>1, <3>4, OwedKept
    <3>6. o + after >= 0
      BY <1>5, <3>5
    <3> QED BY <3>4, <3>6
  <2> QED BY <2>1, <2>2
<1> QED BY <1>6, <1>8

LEMMA InitNoOverdraft == Init => NoOverdraft
<1> SUFFICES ASSUME Init, NEW w \in Wallets PROVE Entitled(w) >= 0
  BY DEF NoOverdraft
<1>1. IInv /\ CreditInv
  BY InitIInv, InitCredits
<1>2. \A k \in Keys : rows[k].status = "none" /\ Contribution(rows[k]) = 0
  BY DEF Init, NoRow, Contribution, Counted
<1>3. \A h \in Hashes : Owes(w, h) >= 0 /\ Owes(w, h) \in Int
  <2> SUFFICES ASSUME NEW h \in Hashes PROVE Owes(w, h) >= 0 /\ Owes(w, h) \in Int
    OBVIOUS
  <2>1. Share(w, <<"out", h>>) = 0 /\ Share(w, <<"internal", h>>) = 0 /\ FeeShare(w, h) = 0
    BY <1>2, KeysOfHash DEF Share, FeeShare
  <2>2. PICK c \in Nat : c = Earned(w, h)
    BY PaymentConstants DEF Earned
  <2>3. Owes(w, h) = 0 + 0 + c + 0
    BY <2>1, <2>2 DEF Owes
  <2> QED BY <2>3
<1> DEFINE Z == [h \in Hashes |-> 0]
<1>4. SumFunctionOnSet(Z, Hashes) = 0
  <2>1. IsFiniteSet(Hashes) /\ {} \in SUBSET Hashes
    BY KeysAreFinite
  <2>2. \A h \in Hashes : Z[h] \in Int /\ Z[h] = IF h \in {} THEN Z[h] ELSE 0
    OBVIOUS
  <2> HIDE DEF Z
  <2>3. SumFunctionOnSet(Z, {}) = SumFunctionOnSet(Z, Hashes)
    BY <2>1, <2>2, SumOfPart
  <2> QED BY <2>3, SumNone
<1>5. SumFunctionOnSet(Z, Hashes) <= SumFunctionOnSet(Owed(w), Hashes)
  <2>1. \A h \in Hashes : Z[h] \in Int /\ Owed(w)[h] \in Int /\ Z[h] <= Owed(w)[h]
    BY <1>3 DEF Owed
  <2> HIDE DEF Z
  <2> QED BY <2>1, KeysAreFinite, SumMono
<1>6. SumFunctionOnSet(Owed(w), Hashes) \in Int
  <2>1. \A h \in Hashes : Owed(w)[h] \in Int
    BY <1>3 DEF Owed
  <2> QED BY <2>1, KeysAreFinite, SumTyped
<1>7. Entitled(w) = Opening[w] + SumFunctionOnSet(Owed(w), Hashes) /\ Opening[w] \in Nat
  BY <1>1, EntitledIsOwed, LedgerConstants
<1>8. PICK s \in Int : s = SumFunctionOnSet(Owed(w), Hashes)
  BY <1>6
<1> QED BY <1>4, <1>5, <1>7, <1>8

\* No wallet is debited for more than it was ever owed: _pay_invoice compares the
\* balance with the amount and the fee reserve under the hold of the lock in which
\* it writes the debit, and no later answer makes a debit larger.
THEOREM NobodyOverdraws == Spec => []NoOverdraft
<1>1. IInv /\ DebitInv /\ CreditInv /\ NoOverdraft /\ IInv' /\ CreditInv' /\ [Next]_vars
        => NoOverdraft'
  BY NoOverdraftStep
<1> QED
  BY <1>1, InitNoOverdraft, InvariantHolds, DebitsHold, CreditsHold, PTL DEF Spec

=============================================================================
