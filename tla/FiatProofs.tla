----------------------------- MODULE FiatProofs -----------------------------
(***************************************************************************)
(* FiatInvoices for any number of invoices, orders, requests and crashes:  *)
(* what is credited was paid, the fee and the faucet are booked once, and  *)
(* an announced payment is failed by its expiry or its provider only.      *)
(***************************************************************************)
EXTENDS FiatInvoices, TLAPS

(* The provider may fail the order now, and may at any later time.          *)
Late == {"stripe_session", "stripe_intent", "square_order"}
MayFail(o) == order[o] = "dead" \/ kind[o] \in Late

(* The order an invoice is paid by: it is in the row, or in a request that   *)
(* has yet to write it.                                                      *)
Bears(i, o) == rows[i].order = o \/ \E t \in Tasks : task[t].inv = i /\ task[t].order = o

Opening == {"session", "refused"}             \* before the order is known
Confirming == {"ask", "success", "fee", "faucet", "settle", "fail"}
Confirmed == {"success", "fee", "faucet", "settle"}   \* the provider said so

-----------------------------------------------------------------------------
(* What a request knows at each of its steps, whatever the others did since  *)
(* it read its copy.                                                         *)
OpeningOK(t) ==
    task[t].pc \in Opening =>
        /\ task[t].order = NoOrder /\ task[t].copy = NewRow
        /\ \A o \in Orders : ~Bears(task[t].inv, o)
OrderOK(t) ==
    /\ task[t].pc = "idle" => task[t].order = NoOrder
    /\ task[t].pc \in {"create", "update", "rename"} \cup Confirming => task[t].order \in Orders
    /\ task[t].pc \in {"rename", "expire"} \cup Confirming => task[t].copy.order = task[t].order
    /\ task[t].pc \in Confirmed => order[task[t].order] = "paid"
    /\ task[t].pc = "fail" => MayFail(task[t].order)
CopyOK(t) ==
    /\ task[t].pc = "update" => task[t].copy = NewRow
    /\ task[t].pc \in {"rename"} \cup Confirming => task[t].copy.fee = FiatFee
    /\ task[t].pc \in {"rename", "expire", "ask", "success", "fail"} => task[t].copy.status = "pending"
    /\ task[t].pc \in {"fee", "faucet", "settle"} => task[t].copy.status = "success"
RowKnown(t) ==
    /\ task[t].pc = "create" => rows[task[t].inv].status = "absent"
    /\ task[t].pc \notin {"idle", "create"} => rows[task[t].inv].status # "absent"
    /\ task[t].pc = "expire" => task[t].inv \in expired
    /\ task[t].pc = "faucet" => feeCredit[task[t].inv] = FiatFee
TasksOK == \A t \in Tasks : OpeningOK(t) /\ OrderOK(t) /\ CopyOK(t) /\ RowKnown(t)

(* One request opens an invoice, and it is paid by one order.                *)
OneOpens ==
    \A t, u \in Tasks :
        /\ task[t].inv = task[u].inv
        /\ \/ task[t].pc = "create" /\ task[u].pc = "create"
           \/ task[t].pc \in Opening /\ task[u].pc \in Opening
        => t = u
OneOrder == \A i \in Invoices, o, p \in Orders : Bears(i, o) /\ Bears(i, p) => o = p

(* The rows.  A failed one that has not expired was failed by its provider,  *)
(* or before it had an order; then nothing can make it one.                  *)
AbsentOK(i) == rows[i].status = "absent" => rows[i] = NoRow /\ announced[i] = 0
PendingOK(i) == rows[i].status = "pending" /\ rows[i].order \in Orders => rows[i].fee = FiatFee
NeverOpened(i) ==
    /\ rows[i].order = NoOrder /\ announced[i] = 0
    /\ \A o \in Orders : ~Bears(i, o)
    /\ \A t \in Tasks : task[t].pc \in Opening => task[t].inv # i
FailedOK(i) ==
    rows[i].status = "failed" /\ i \notin expired =>
        \/ rows[i].order \in Orders /\ MayFail(rows[i].order)
        \/ NeverOpened(i)
AnnouncedOK(i) ==
    announced[i] > 0 =>
        /\ \A o \in Orders : Bears(i, o) => order[o] = "paid"
        /\ \A t \in Tasks : task[t].pc \in Opening => task[t].inv # i
RowsOK == \A i \in Invoices : AbsentOK(i) /\ PendingOK(i) /\ FailedOK(i) /\ AnnouncedOK(i)

IInv == TypeOK /\ TasksOK /\ OneOpens /\ OneOrder /\ RowsOK /\ CreditIsPaid /\ BookedOnce

-----------------------------------------------------------------------------
LEMMA Constants ==
    ASSUME FiatConstants
    PROVE  /\ NoRow \in Row /\ NewRow \in Row /\ Resting \in Task
           /\ NoRow.status = "absent" /\ NoRow.order = NoOrder /\ NoRow.key = NoOrder
           /\ NewRow.status = "pending" /\ NewRow.order = NoOrder /\ NewRow.key = NoOrder
           /\ NewRow.fee = 0
           /\ Resting.pc = "idle" /\ Resting.order = NoOrder /\ NoOrder \notin Orders
BY FiatConstants DEF NoRow, NewRow, Row, Resting, Task, TaskPCs

(* The type invariant.                                                       *)
LEMMA TypeInit == Init => TypeOK
BY FiatConstants, Constants DEF Init, TypeOK

LEMMA CreateTypes == ASSUME TypeOK, NEW t \in Tasks, Create(t) PROVE TypeOK'
<1> USE FiatConstants, Constants DEF TypeOK
<1>1. ASSUME NEW i \in Invoices, OpenInvoice(t, i) PROVE TypeOK'
  BY <1>1, SMTT(30) DEF OpenInvoice, Task, TaskPCs, books, outside
<1>2. ASSUME NEW o \in Orders, SessionOpens(t, o) PROVE TypeOK'
  BY <1>2, SMTT(30) DEF SessionOpens, Task, TaskPCs, books, Goto
<1>3. CASE SessionFails(t)
  BY <1>3, SMTT(30) DEF SessionFails, Task, Row, books, outside, update_payment, Done, OwnConnection
<1>4. CASE UpdateInvoice(t)
  <2> DEFINE copy == [task[t].copy EXCEPT !.fee = FiatFee, !.order = task[t].order]
  <2>1. copy \in Row
    BY DEF Task, Row
  <2>2. rows' \in [Invoices -> Row]
    BY <1>4, <2>1 DEF UpdateInvoice, update_payment
  <2>3. task' = [task EXCEPT ![t] = [@ EXCEPT !.pc = "rename", !.copy = copy]]
    BY <1>4 DEF UpdateInvoice
  <2> HIDE DEF copy
  <2>4. [task[t] EXCEPT !.pc = "rename", !.copy = copy] \in Task
    BY <2>1 DEF Task, TaskPCs
  <2>5. task' \in [Tasks -> Task]
    BY <2>3, <2>4
  <2> QED BY <1>4, <2>2, <2>5 DEF UpdateInvoice, books, outside
<1>5. CASE Rename(t)
  <2>1. rows' \in [Invoices -> Row]
    <3>1. task[t].inv \in Invoices /\ task[t].order \in Orders \cup {NoOrder}
      BY DEF Task
    <3>2. [rows[task[t].inv] EXCEPT !.key = task[t].order] \in Row
      BY <3>1 DEF Row
    <3>3. \/ rows' = rows
          \/ rows' = [rows EXCEPT ![task[t].inv] = [rows[task[t].inv] EXCEPT !.key = task[t].order]]
      BY <1>5 DEF Rename
    <3> QED BY <3>1, <3>2, <3>3
  <2> DEFINE copy == [task[t].copy EXCEPT !.key = task[t].order]
  <2>2. [task[t] EXCEPT !.pc = "ask", !.by = "webhook", !.copy = copy] \in Task
    <3>1. copy \in Row
      BY DEF Task, Row
    <3> HIDE DEF copy
    <3> QED BY <3>1 DEF Task, TaskPCs
  <2>3. CASE Done(t)
    <3>1. task' \in [Tasks -> Task] /\ dbLock' \in Tasks \cup {Free}
      BY <2>3 DEF Done
    <3> QED BY <1>5, <2>1, <3>1 DEF Rename, books, outside
  <2>4. CASE ~Done(t)
    <3>1. task' = [task EXCEPT ![t] = [task[t] EXCEPT !.pc = "ask", !.by = "webhook",
                                                      !.copy = copy]]
      BY <1>5, <2>4 DEF Rename
    <3> QED BY <1>5, <2>1, <2>2, <2>4, <3>1 DEF Rename, books, outside
  <2> QED BY <2>3, <2>4
<1> QED BY <1>1, <1>2, <1>3, <1>4, <1>5 DEF Create

LEMMA BeginTypes == ASSUME TypeOK, NEW t \in Tasks, Begin(t) PROVE TypeOK'
<1> USE FiatConstants, Constants DEF TypeOK
<1>1. ASSUME NEW o \in Orders, NEW i \in Invoices, SubscriptionEvent(t, o, i) PROVE TypeOK'
  BY <1>1, SMTT(30) DEF SubscriptionEvent, Task, TaskPCs, books, outside
<1>2. ASSUME NEW i \in Invoices, NEW by \in {"webhook", "poll"}, ReadInvoice(t, i, by) PROVE TypeOK'
  BY <1>2, SMTT(30) DEF ReadInvoice, Task, TaskPCs, books, outside, Row, FirstCheck
<1>3. ASSUME NEW i \in Invoices, PageBegin(t, i) PROVE TypeOK'
  BY <1>3, SMTT(30) DEF PageBegin, Task, TaskPCs, books, outside, Row, FirstCheck
<1> QED BY <1>1, <1>2, <1>3 DEF Begin

LEMMA ConfirmTypes == ASSUME TypeOK, NEW t \in Tasks, Confirm(t) PROVE TypeOK'
<1> USE FiatConstants, Constants DEF TypeOK
<1>1. CASE Expire(t)
  BY <1>1, SMTT(30) DEF Expire, Task, Row, books, outside, update_payment, Done
<1>2. CASE Ask(t)
  <2>1. order' \in [Orders -> {"none", "open", "declined", "approved", "paid", "dead"}]
    BY <1>2 DEF Ask, AskProvider
  <2>2. task' \in [Tasks -> Task] /\ dbLock' \in Tasks \cup {Free}
    BY <1>2, SMTT(30) DEF Ask, Goto, Done, Task, TaskPCs
  <2> QED BY <1>2, <2>1, <2>2 DEF Ask, books
<1>3. CASE Fail(t)
  BY <1>3, SMTT(30) DEF Fail, Task, Row, books, outside, update_payment, Done
<1>4. CASE WriteSuccess(t)
  <2> DEFINE copy == [task[t].copy EXCEPT !.status = "success"]
  <2>1. copy \in Row
    BY DEF Task, Row
  <2>2. rows' \in [Invoices -> Row]
    BY <1>4, <2>1 DEF WriteSuccess, update_payment
  <2>3. task' = [task EXCEPT ![t] = [@ EXCEPT !.pc = "fee", !.copy = copy]]
    BY <1>4 DEF WriteSuccess
  <2> HIDE DEF copy
  <2>4. [task[t] EXCEPT !.pc = "fee", !.copy = copy] \in Task
    BY <2>1 DEF Task, TaskPCs
  <2>5. task' \in [Tasks -> Task]
    BY <2>3, <2>4
  <2> QED BY <1>4, <2>2, <2>5 DEF WriteSuccess, books, outside
<1>5. CASE CreditFee(t)
  BY <1>5, SMTT(30) DEF CreditFee, Task, TaskPCs, Row, outside, Goto
<1>6. CASE DebitFaucet(t)
  <2>1. faucet' \in [Invoices -> Nat] /\ announced' \in [Invoices -> Nat]
    BY <1>6 DEF DebitFaucet, Task
  <2>2. task' \in [Tasks -> Task] /\ dbLock' \in Tasks \cup {Free}
    BY <1>6 DEF DebitFaucet, Goto, Done, Task, TaskPCs
  <2> QED BY <1>6, <2>1, <2>2 DEF DebitFaucet, outside
<1>7. CASE Settle(t)
  BY <1>7, SMTT(30) DEF Settle, Task, Row, books, outside, update_payment, Done
<1> QED BY <1>1, <1>2, <1>3, <1>4, <1>5, <1>6, <1>7 DEF Confirm

LEMMA ExternalTypes == ASSUME TypeOK, External PROVE TypeOK'
<1> USE FiatConstants, Constants DEF TypeOK
<1>1. ASSUME NEW o \in Orders, ProviderStep(o) PROVE TypeOK'
  BY <1>1 DEF ProviderStep, books
<1>2. ASSUME NEW i \in Invoices, Expires(i) PROVE TypeOK'
  BY <1>2 DEF Expires, books
<1>3. CASE Crash
  BY <1>3 DEF Crash, books
<1> QED BY <1>1, <1>2, <1>3 DEF External

LEMMA TypeStep == TypeOK /\ [Next]_vars => TypeOK'
<1>1. CASE UNCHANGED vars
  BY <1>1 DEF TypeOK, vars
<1> QED BY <1>1, CreateTypes, BeginTypes, ConfirmTypes, ExternalTypes DEF Next

THEOREM TypesHold == Spec => []TypeOK
BY TypeInit, TypeStep, PTL DEF Spec

-----------------------------------------------------------------------------
(* What never goes back.                                                     *)
Grows ==
    /\ kind' = kind /\ expired \subseteq expired'
    /\ \A o \in Orders : order[o] \in {"paid", "dead"} => order'[o] = order[o]
    /\ \A i \in Invoices : feeCredit[i] = FiatFee => feeCredit'[i] = FiatFee
TaskOK(t) == OpeningOK(t) /\ OrderOK(t) /\ CopyOK(t) /\ RowKnown(t)
RowOK(i) == AbsentOK(i) /\ PendingOK(i) /\ FailedOK(i) /\ AnnouncedOK(i)

LEMMA TaskKeeps ==
    ASSUME TypeOK, TypeOK', Grows, NEW u \in Tasks, TaskOK(u), task'[u] = task[u],
           task[u].pc \in Opening =>
               \A o \in Orders : Bears(task[u].inv, o)' => Bears(task[u].inv, o),
           task[u].pc # "idle" =>
               (rows[task[u].inv].status = "absent" <=> rows'[task[u].inv].status = "absent")
    PROVE  TaskOK(u)'
<1> DEFINE i == task[u].inv
<1>1. i \in Invoices /\ task[u].order \in Orders \cup {NoOrder}
  BY DEF TypeOK, Task
<1>2. OpeningOK(u)'
  <2> SUFFICES ASSUME task[u].pc \in Opening PROVE OpeningOK(u)'
    BY DEF OpeningOK
  <2>1. \A o \in Orders : ~Bears(i, o)'
    BY DEF TaskOK, OpeningOK
  <2> QED BY <2>1 DEF TaskOK, OpeningOK
<1>3. OrderOK(u)'
  BY <1>1 DEF TaskOK, OrderOK, Grows, MayFail, Confirming, Confirmed
<1>4. CopyOK(u)'
  BY DEF TaskOK, CopyOK
<1>5. RowKnown(u)'
  BY <1>1 DEF TaskOK, RowKnown, Grows
<1> QED BY <1>2, <1>3, <1>4, <1>5 DEF TaskOK

LEMMA RowKeeps ==
    ASSUME FiatConstants, TypeOK, TypeOK', Grows, NEW i \in Invoices, RowOK(i),
           rows'[i] = rows[i], announced'[i] = announced[i],
           \A o \in Orders : Bears(i, o)' => Bears(i, o),
           \A t \in Tasks : task'[t].pc \in Opening /\ task'[t].inv = i =>
                              task[t].pc \in Opening /\ task[t].inv = i
    PROVE  RowOK(i)'
<1>1. AbsentOK(i)' /\ PendingOK(i)'
  BY DEF RowOK, AbsentOK, PendingOK
<1>2. NeverOpened(i) => NeverOpened(i)'
  BY DEF NeverOpened
<1>3. \A o \in Orders : MayFail(o) => MayFail(o)'
  BY DEF MayFail, Grows
<1>4. FailedOK(i)'
  BY <1>2, <1>3 DEF RowOK, FailedOK, Grows
<1>5. AnnouncedOK(i)'
  BY DEF RowOK, AnnouncedOK, Grows
<1> QED BY <1>1, <1>4, <1>5 DEF RowOK

(* A step of one request t, which leaves it at k and may write the row of its *)
(* invoice i.  It bears no order that the invoice did not bear, or the first   *)
(* one.  What it owes is the invariant of itself and of its row.              *)
Advances(t, k, i) ==
    /\ k \in Task /\ (k.inv = i \/ k = Resting)
    /\ task' = [task EXCEPT ![t] = k]
    /\ \A j \in Invoices \ {i} : rows'[j] = rows[j] /\ announced'[j] = announced[j]
    /\ rows'[i].order \in Orders => Bears(i, rows'[i].order)
    /\ \/ k.order \in Orders => Bears(i, k.order)
       \/ /\ k.order \in Orders /\ ~(rows'[i].order \in Orders)
          /\ \A o \in Orders : ~Bears(i, o)
          /\ \A u \in Tasks \ {t} : task[u].inv = i => task[u].pc \notin Opening
    /\ \A u \in Tasks \ {t} : task[u].inv = i =>
         /\ task[u].pc # "idle" =>
              (rows[i].status = "absent" <=> rows'[i].status = "absent")
         /\ ~(k.pc = "create" /\ task[u].pc = "create")
         /\ ~(k.pc \in Opening /\ task[u].pc \in Opening)

LEMMA Advance ==
    ASSUME FiatConstants, TypeOK, TypeOK', TasksOK, OneOpens, OneOrder, RowsOK, Grows,
           NEW t \in Tasks, NEW k, NEW i \in Invoices, Advances(t, k, i),
           TaskOK(t)', RowOK(i)'
    PROVE  TasksOK' /\ OneOpens' /\ OneOrder' /\ RowsOK'
<1>1. /\ task'[t] = k /\ \A u \in Tasks \ {t} : task'[u] = task[u]
      /\ \A u \in Tasks : task[u] \in Task /\ task'[u] \in Task
      /\ \A j \in Invoices : rows[j] \in Row /\ rows'[j] \in Row
  BY DEF Advances, TypeOK
<1>2. NoOrder \notin Orders /\ Resting.order = NoOrder /\ Resting.pc = "idle"
  BY Constants
<1>3. ASSUME NEW j \in Invoices \ {i}, NEW o \in Orders, Bears(j, o)' PROVE Bears(j, o)
  BY <1>1, <1>2, <1>3 DEF Advances, Bears
<1>4. ASSUME NEW o \in Orders, Bears(i, o)' PROVE Bears(i, o) \/ (o = k.order /\ ~Bears(i, k.order))
  BY <1>1, <1>2, <1>4 DEF Advances, Bears
<1>5. OneOrder'
  <2> SUFFICES ASSUME NEW j \in Invoices, NEW o \in Orders, NEW p \in Orders,
                      Bears(j, o)', Bears(j, p)'
               PROVE  o = p
    BY DEF OneOrder
  <2>1. CASE j # i
    BY <1>3, <2>1 DEF OneOrder
  <2>2. CASE j = i
    <3>1. CASE Bears(i, o) /\ Bears(i, p)
      BY <3>1 DEF OneOrder
    <3>2. CASE ~(Bears(i, o) /\ Bears(i, p))
      <4>1. /\ Bears(i, o) \/ (o = k.order /\ ~Bears(i, k.order))
            /\ Bears(i, p) \/ (p = k.order /\ ~Bears(i, k.order))
        BY <1>4, <2>2
      <4>2. \A q \in Orders : ~Bears(i, q)
        BY <3>2, <4>1 DEF Advances
      <4> QED BY <4>1, <4>2
    <3> QED BY <3>1, <3>2
  <2> QED BY <2>1, <2>2
<1>6. OneOpens'
  <2> SUFFICES ASSUME NEW u \in Tasks, NEW v \in Tasks, u # v, task'[u].inv = task'[v].inv,
                      \/ task'[u].pc = "create" /\ task'[v].pc = "create"
                      \/ task'[u].pc \in Opening /\ task'[v].pc \in Opening
               PROVE  FALSE
    BY DEF OneOpens
  <2>1. CASE u # t /\ v # t
    BY <1>1, <2>1 DEF OneOpens
  <2>2. CASE u = t \/ v = t
    BY <1>1, <1>2, <2>2 DEF Advances, Opening
  <2> QED BY <2>1, <2>2
<1>7. TasksOK'
  <2> SUFFICES ASSUME NEW u \in Tasks PROVE TaskOK(u)'
    BY DEF TasksOK, TaskOK
  <2>1. CASE u = t
    BY <2>1
  <2>2. CASE u # t
    <3>1. TaskOK(u)
      BY DEF TasksOK, TaskOK
    <3>2. task'[u] = task[u]
      BY <1>1, <2>2
    <3>3. ASSUME task[u].pc \in Opening
          PROVE  \A o \in Orders : Bears(task[u].inv, o)' => Bears(task[u].inv, o)
      <4>1. task[u].inv \in Invoices
        BY <1>1 DEF Task
      <4>2. CASE task[u].inv # i
        BY <1>3, <3>2, <4>1, <4>2
      <4>3. CASE task[u].inv = i
        <5>1. k.order \in Orders => Bears(i, k.order)
          BY <2>2, <3>3, <4>3 DEF Advances
        <5> QED BY <1>4, <3>2, <4>3, <5>1
      <4> QED BY <4>2, <4>3
    <3>4. task[u].pc # "idle" =>
            (rows[task[u].inv].status = "absent" <=> rows'[task[u].inv].status = "absent")
      BY <1>1, <2>2 DEF Advances, Task
    <3> QED BY <3>1, <3>2, <3>3, <3>4, TaskKeeps
  <2> QED BY <2>1, <2>2
<1>8. RowsOK'
  <2> SUFFICES ASSUME NEW j \in Invoices, j # i PROVE RowOK(j)'
    BY DEF RowsOK, RowOK
  <2>1. RowOK(j)
    BY DEF RowsOK, RowOK
  <2>2. \A u \in Tasks : task'[u].pc \in Opening /\ task'[u].inv = j =>
                          task[u].pc \in Opening /\ task[u].inv = j
    BY <1>1, <1>2 DEF Advances, Opening
  <2>3. rows'[j] = rows[j] /\ announced'[j] = announced[j]
    BY DEF Advances
  <2> QED BY <1>3, <2>1, <2>2, <2>3, RowKeeps
<1> QED BY <1>5, <1>6, <1>7, <1>8

(* The same for a step that brings the invoice no order and announces        *)
(* nothing: what it owes is what it writes.                                  *)
PaidOK(i) == rows[i].status = "success" => PaidOrder(rows[i].order)
WrittenOK(i) == rows'[i].status # "absent" /\ PendingOK(i)' /\ FailedOK(i)' /\ PaidOK(i)'

LEMMA StepKeeps ==
    ASSUME FiatConstants, IInv, TypeOK', Grows, BookedOnce',
           NEW t \in Tasks, NEW k, NEW i \in Invoices, Advances(t, k, i),
           k.order \in Orders => Bears(i, k.order), announced'[i] = announced[i],
           k.pc \in Opening => /\ task[t].pc \in Opening /\ task[t].inv = i
                              /\ k.order = NoOrder /\ k.copy = NewRow /\ k.inv = i,
           OrderOK(t)', CopyOK(t)', RowKnown(t)',
           rows'[i] = rows[i] \/ WrittenOK(i)
    PROVE  IInv'
<1>1. /\ task'[t] = k /\ \A u \in Tasks \ {t} : task'[u] = task[u]
      /\ \A u \in Tasks : task[u] \in Task /\ task'[u] \in Task
      /\ \A j \in Invoices : rows[j] \in Row /\ rows'[j] \in Row
  BY DEF Advances, TypeOK, IInv
<1>2. NoOrder \notin Orders /\ Resting.order = NoOrder /\ Resting.pc = "idle"
  BY Constants
<1>3. ASSUME NEW o \in Orders, Bears(i, o)' PROVE Bears(i, o)
  BY <1>1, <1>2, <1>3 DEF Advances, Bears
<1>4. OpeningOK(t)'
  <2> SUFFICES ASSUME k.pc \in Opening PROVE OpeningOK(t)'
    BY <1>1 DEF OpeningOK
  <2>1. \A o \in Orders : ~Bears(i, o)
    BY DEF IInv, TasksOK, OpeningOK
  <2>2. \A o \in Orders : ~Bears(task[t].inv, o)'
    BY <1>1, <1>3, <2>1
  <2> QED BY <1>1, <2>2 DEF OpeningOK
<1>5. \A u \in Tasks : task'[u].pc \in Opening /\ task'[u].inv = i =>
                       task[u].pc \in Opening /\ task[u].inv = i
  BY <1>1
<1>6. RowOK(i)'
  <2>1. RowOK(i) /\ TypeOK
    BY DEF IInv, RowsOK, RowOK
  <2>2. CASE rows'[i] = rows[i]
    BY <1>3, <1>5, <2>1, <2>2, RowKeeps
  <2>3. CASE WrittenOK(i)
    <3>1. AnnouncedOK(i)'
      BY <1>3, <1>5, <2>1 DEF RowOK, AnnouncedOK, Grows
    <3> QED BY <2>3, <3>1 DEF WrittenOK, RowOK, AbsentOK
  <2> QED BY <2>2, <2>3
<1>7. TasksOK' /\ OneOpens' /\ OneOrder' /\ RowsOK'
  BY <1>4, <1>6, Advance DEF IInv, TaskOK
<1>8. CreditIsPaid'
  <2> SUFFICES ASSUME NEW j \in Invoices PROVE PaidOK(j)'
    BY DEF CreditIsPaid, PaidOK
  <2>1. CASE rows'[j] = rows[j]
    BY <2>1 DEF IInv, CreditIsPaid, PaidOK, PaidOrder, Grows
  <2>2. CASE rows'[j] # rows[j]
    BY <2>2 DEF Advances, WrittenOK
  <2> QED BY <2>1, <2>2
<1> QED BY <1>7, <1>8 DEF IInv

-----------------------------------------------------------------------------
(* What the actions share.                                                   *)
LEMMA Known ==
    ASSUME IInv, NEW t \in Tasks
    PROVE  /\ task[t] \in Task /\ task[t].inv \in Invoices /\ task[t].copy \in Row
           /\ rows[task[t].inv] \in Row /\ task[t].order \in Orders \cup {NoOrder}
           /\ OpeningOK(t) /\ OrderOK(t) /\ CopyOK(t) /\ RowKnown(t) /\ RowOK(task[t].inv)
           /\ \A i \in Invoices : RowOK(i) /\ rows[i] \in Row
BY DEF IInv, TypeOK, Task, TasksOK, RowsOK, RowOK

(* A request that ends, having written its copy or found that the row has    *)
(* another key by now.                                                       *)
Ends(t, copy) ==
    /\ task' = [task EXCEPT ![t] = Resting]
    /\ rows' = rows \/ rows' = [rows EXCEPT ![task[t].inv] = copy]
    /\ UNCHANGED <<books, kind, order, expired>>

LEMMA EndKeeps ==
    ASSUME FiatConstants, IInv, TypeOK', NEW t \in Tasks, NEW copy \in Row, Ends(t, copy),
           task[t].pc \notin {"idle", "create"}, copy.status \in {"success", "failed"},
           copy.order \in {task[t].order, NoOrder},
           copy.status = "success" => copy.order \in Orders /\ order[copy.order] = "paid",
           copy.status = "failed" =>
               \/ task[t].inv \in expired
               \/ copy.order \in Orders /\ MayFail(copy.order)
               \/ task[t].pc \in Opening /\ copy.order = NoOrder
    PROVE  IInv'
<1>0. PICK i \in Invoices : i = task[t].inv
  BY Known
<1>1. /\ Resting \in Task /\ Resting.order = NoOrder /\ Resting.pc = "idle" /\ NoOrder \notin Orders
  BY Constants
<1>2. Grows /\ BookedOnce'
  BY DEF Ends, books, Grows, IInv, BookedOnce
<1>3. rows[i].status # "absent" /\ RowOK(i)
  BY <1>0, Known DEF RowKnown
<1>4. \A j \in Invoices : rows'[j] = rows[j] \/ (j = i /\ rows'[j] = copy)
  BY <1>0 DEF Ends, IInv, TypeOK
<1>5. copy.order \in Orders => Bears(i, copy.order)
  BY <1>0, <1>1 DEF Bears
<1>6. rows'[i].order \in Orders => Bears(i, rows'[i].order)
  BY <1>3, <1>4, <1>5 DEF Bears
<1>7. Advances(t, Resting, i)
  BY <1>0, <1>1, <1>3, <1>4, <1>6 DEF Advances, Ends, books, Opening
<1>8. OrderOK(t)' /\ CopyOK(t)' /\ RowKnown(t)'
  <2>1. task'[t].pc = "idle" /\ task'[t].order = NoOrder
    BY <1>1 DEF Ends, IInv, TypeOK
  <2> QED BY <2>1 DEF OrderOK, CopyOK, RowKnown, Confirming, Confirmed
<1>9. CASE rows'[i] = copy
  <2>1. PendingOK(i)' /\ PaidOK(i)'
    BY <1>9 DEF PendingOK, PaidOK, PaidOrder, Ends
  <2>2. FailedOK(i)'
    <3> SUFFICES ASSUME copy.status = "failed", i \notin expired
                 PROVE  \/ copy.order \in Orders /\ MayFail(copy.order)'
                        \/ NeverOpened(i)'
      BY <1>0, <1>9 DEF FailedOK, Ends
    <3>1. CASE copy.order \in Orders /\ MayFail(copy.order)
      BY <3>1 DEF MayFail, Ends
    <3>2. CASE task[t].pc \in Opening /\ copy.order = NoOrder
      <4>1. \A o \in Orders : ~Bears(i, o)
        BY <1>0, <3>2, Known DEF OpeningOK
      <4>2. /\ task'[t] = Resting /\ \A u \in Tasks \ {t} : task'[u] = task[u]
        BY DEF Ends, IInv, TypeOK
      <4>3. \A o \in Orders : ~Bears(i, o)'
        BY <1>0, <1>1, <1>9, <3>2, <4>1, <4>2 DEF Bears
      <4>4. announced[i] = 0
        BY <1>0, <1>3, <3>2, Known DEF RowOK, AnnouncedOK, IInv, TypeOK
      <4>5. \A u \in Tasks : task'[u].pc \in Opening => task'[u].inv # i
        BY <1>0, <1>1, <3>2, <4>2 DEF IInv, OneOpens, Opening
      <4> QED BY <1>9, <3>2, <4>3, <4>4, <4>5 DEF NeverOpened, Ends, books
    <3> QED BY <1>0, <3>1, <3>2
  <2> QED BY <1>1, <1>2, <1>3, <1>7, <1>8, <1>9, <2>1, <2>2, StepKeeps DEF WrittenOK, Ends, books, Opening
<1>10. CASE rows'[i] = rows[i]
  BY <1>1, <1>2, <1>3, <1>7, <1>8, <1>10, StepKeeps DEF Ends, books, Opening
<1> QED BY <1>4, <1>9, <1>10

-----------------------------------------------------------------------------
(* The steps of create_fiat_invoice.                                         *)
LEMMA FreshIsUnborn ==
    ASSUME FiatConstants, IInv, NEW i \in Invoices, Fresh(i)
    PROVE  /\ rows[i] = NoRow /\ announced[i] = 0
           /\ \A o \in Orders : ~Bears(i, o)
           /\ \A u \in Tasks : task[u].inv = i => task[u].pc = "idle"
<1>1. rows[i] = NoRow /\ announced[i] = 0
  BY DEF Fresh, IInv, RowsOK, AbsentOK
<1>2. \A u \in Tasks : task[u].inv = i => task[u].pc = "idle"
  BY DEF Fresh, IInv, TasksOK, RowKnown
<1>3. \A o \in Orders : ~Bears(i, o)
  BY <1>1, <1>2, Constants DEF Bears, IInv, TasksOK, OrderOK
<1> QED BY <1>1, <1>2, <1>3

LEMMA OpenInvoiceKeeps ==
    ASSUME FiatConstants, IInv, TypeOK', NEW t \in Tasks, NEW i \in Invoices, OpenInvoice(t, i)
    PROVE  IInv'
<1>1. /\ NewRow.status = "pending" /\ NewRow.order = NoOrder /\ NoOrder \notin Orders
      /\ NoRow.status = "absent"
  BY Constants
<1>2. Grows /\ BookedOnce' /\ UNCHANGED <<announced, order, expired>>
  BY DEF OpenInvoice, books, outside, Grows, IInv, BookedOnce
<1>3. rows'[i] = NewRow /\ \A j \in Invoices \ {i} : rows'[j] = rows[j]
  BY DEF OpenInvoice, IInv, TypeOK
<1>4. PendingOK(i)' /\ FailedOK(i)' /\ PaidOK(i)' /\ AbsentOK(i)'
  BY <1>1, <1>3 DEF PendingOK, FailedOK, PaidOK, AbsentOK
<1>5. CASE Idle(t) /\ Fresh(i)
  <2> DEFINE k == [pc |-> "session", by |-> "checkout", inv |-> i,
                   order |-> NoOrder, copy |-> NewRow]
  <2>1. task' = [task EXCEPT ![t] = k]
    BY <1>5 DEF OpenInvoice, Idle
  <2>2. k \in Task
    BY Constants DEF Task, TaskPCs
  <2>3. /\ rows[i] = NoRow /\ announced[i] = 0
        /\ \A o \in Orders : ~Bears(i, o)
        /\ \A u \in Tasks : task[u].inv = i => task[u].pc = "idle"
    BY <1>5, FreshIsUnborn
  <2>4. task'[t] = k /\ \A u \in Tasks \ {t} : task'[u] = task[u]
    BY <2>1 DEF IInv, TypeOK
  <2>5. Advances(t, k, i)
    BY <1>1, <1>2, <1>3, <2>1, <2>2, <2>3 DEF Advances, Opening
  <2>6. \A o \in Orders : ~Bears(i, o)'
    BY <1>1, <1>3, <2>3, <2>4 DEF Bears
  <2>7. TaskOK(t)'
    BY <1>1, <1>3, <2>4, <2>6
       DEF TaskOK, OpeningOK, OrderOK, CopyOK, RowKnown, Confirming, Confirmed
  <2>8. RowOK(i)'
    BY <1>2, <1>4, <2>3 DEF RowOK, AnnouncedOK
  <2>9. CreditIsPaid'
    BY <1>1, <1>2, <1>3 DEF IInv, CreditIsPaid, PaidOrder
  <2> QED BY <1>2, <2>5, <2>7, <2>8, <2>9, Advance DEF IInv
<1>6. CASE task[t].pc = "create" /\ task[t].inv = i
  <2> DEFINE k == [task[t] EXCEPT !.pc = "update", !.copy = NewRow]
  <2>1. task' = [task EXCEPT ![t] = k]
    BY <1>6 DEF OpenInvoice, Idle
  <2>2. task[t] \in Task /\ task[t].order \in Orders /\ rows[i].status = "absent"
    BY <1>6, Known DEF OrderOK, RowKnown
  <2>3. k \in Task /\ k.order = task[t].order /\ k.pc = "update" /\ k.copy = NewRow /\ k.inv = i
    BY <1>6, <2>2, Constants DEF Task, TaskPCs
  <2> HIDE DEF k
  <2>4. task'[t] = k
    BY <2>1 DEF IInv, TypeOK
  <2>5. k.order \in Orders => Bears(i, k.order)
    BY <1>6, <2>3 DEF Bears
  <2>6. \A u \in Tasks \ {t} : task[u].inv = i => task[u].pc = "idle"
    BY <1>6, <2>2 DEF IInv, OneOpens, TasksOK, RowKnown
  <2>7. Advances(t, k, i)
    BY <1>1, <1>2, <1>3, <2>1, <2>3, <2>5, <2>6 DEF Advances, Opening
  <2>8. OrderOK(t)' /\ CopyOK(t)' /\ RowKnown(t)'
    BY <1>1, <1>3, <2>2, <2>3, <2>4 DEF OrderOK, CopyOK, RowKnown, Confirming, Confirmed
  <2> QED BY <1>1, <1>2, <1>3, <1>4, <2>3, <2>5, <2>7, <2>8, StepKeeps DEF WrittenOK, Opening
<1> QED BY <1>5, <1>6 DEF OpenInvoice

LEMMA SessionOpensKeeps ==
    ASSUME FiatConstants, IInv, TypeOK', NEW t \in Tasks, NEW o \in Orders, SessionOpens(t, o)
    PROVE  IInv'
<1>0. PICK i \in Invoices : i = task[t].inv
  BY Known
<1>1. NoOrder \notin Orders /\ task[t].pc = "session" /\ task[t] \in Task
  BY Constants, Known DEF SessionOpens
<1>2. Grows /\ BookedOnce' /\ UNCHANGED <<rows, announced, expired>>
  BY DEF SessionOpens, books, Grows, IInv, BookedOnce, TypeOK
<1>3. /\ task[t].order = NoOrder /\ task[t].copy = NewRow /\ rows[i].status # "absent"
      /\ \A p \in Orders : ~Bears(i, p)
  BY <1>0, <1>1, Known DEF OpeningOK, RowKnown, Opening
<1>4. rows[i].order \notin Orders
  BY <1>3 DEF Bears
<1>5. \A u \in Tasks \ {t} : task[u].inv = i => task[u].pc \notin Opening /\ task[u].pc # "create"
  BY <1>0, <1>1, <1>3 DEF IInv, OneOpens, TasksOK, RowKnown, Opening
<1>6. CASE task' = [task EXCEPT ![t].pc = "update", ![t].order = o]
  <2> DEFINE k == [task[t] EXCEPT !.pc = "update", !.order = o]
  <2>1. task' = [task EXCEPT ![t] = k]
    BY <1>6
  <2>2. k \in Task /\ k.order = o /\ k.pc = "update" /\ k.copy = NewRow /\ k.inv = i
    BY <1>0, <1>1, <1>3 DEF Task, TaskPCs
  <2> HIDE DEF k
  <2>3. task'[t] = k /\ \A u \in Tasks \ {t} : task'[u] = task[u]
    BY <2>1 DEF IInv, TypeOK
  <2>4. Advances(t, k, i)
    BY <1>2, <1>3, <1>4, <1>5, <2>1, <2>2 DEF Advances, Opening
  <2>5. TaskOK(t)'
    BY <1>1, <1>2, <1>3, <2>2, <2>3
       DEF TaskOK, OpeningOK, OrderOK, CopyOK, RowKnown, Confirming, Confirmed, Opening
  <2>6. announced[i] = 0
    BY <1>0, <1>1, Known DEF RowOK, AnnouncedOK, IInv, TypeOK, Opening
  <2>7. FailedOK(i)'
    BY <1>0, <1>1, <1>2, <1>4, Known DEF RowOK, FailedOK, NeverOpened, Opening
  <2>8. RowOK(i)'
    BY <1>2, <1>3, <1>4, <2>6, <2>7 DEF RowOK, AbsentOK, PendingOK, AnnouncedOK
  <2>9. CreditIsPaid'
    BY <1>2 DEF IInv, CreditIsPaid, PaidOrder, Grows
  <2> QED BY <1>2, <2>4, <2>5, <2>8, <2>9, Advance DEF IInv
<1>7. CASE Goto(t, "refused")
  <2> DEFINE k == [task[t] EXCEPT !.pc = "refused"]
  <2>1. task' = [task EXCEPT ![t] = k]
    BY <1>7 DEF Goto
  <2>2. k \in Task /\ k.order = NoOrder /\ k.pc = "refused" /\ k.copy = NewRow /\ k.inv = i
    BY <1>0, <1>1, <1>3 DEF Task, TaskPCs
  <2> HIDE DEF k
  <2>3. task'[t] = k
    BY <2>1 DEF IInv, TypeOK
  <2>4. Advances(t, k, i)
    BY <1>1, <1>2, <1>3, <1>4, <1>5, <2>1, <2>2 DEF Advances, Opening
  <2>5. OrderOK(t)' /\ CopyOK(t)' /\ RowKnown(t)'
    BY <1>2, <1>3, <2>2, <2>3 DEF OrderOK, CopyOK, RowKnown, Confirming, Confirmed
  <2> QED BY <1>0, <1>1, <1>2, <2>2, <2>4, <2>5, StepKeeps DEF Opening
<1> QED BY <1>6, <1>7 DEF SessionOpens

LEMMA UpdateInvoiceKeeps ==
    ASSUME FiatConstants, IInv, TypeOK', NEW t \in Tasks, UpdateInvoice(t)
    PROVE  IInv'
<1>0. PICK i \in Invoices : i = task[t].inv
  BY Known
<1>1. /\ task[t].pc = "update" /\ task[t] \in Task /\ task[t].order \in Orders
      /\ task[t].copy = NewRow /\ rows[i].status # "absent"
  BY <1>0, Known DEF UpdateInvoice, OrderOK, CopyOK, RowKnown
<1>2. Grows /\ BookedOnce' /\ UNCHANGED <<announced, expired, order>>
  BY DEF UpdateInvoice, books, outside, Grows, IInv, BookedOnce
<1>3. PICK copy \in Row : copy = [task[t].copy EXCEPT !.fee = FiatFee, !.order = task[t].order]
  BY Known, <1>1 DEF Row
<1>4. copy.status = "pending" /\ copy.fee = FiatFee /\ copy.order = task[t].order
  BY <1>1, <1>3, Constants DEF Row
<1> DEFINE k == [task[t] EXCEPT !.pc = "rename", !.copy = copy]
<1>5. task' = [task EXCEPT ![t] = k]
  BY <1>3 DEF UpdateInvoice
<1>6. k \in Task /\ k.order = task[t].order /\ k.pc = "rename" /\ k.copy = copy /\ k.inv = i
  BY <1>0, <1>1 DEF Task, TaskPCs
<1> HIDE DEF k
<1>7. task'[t] = k
  BY <1>5 DEF IInv, TypeOK
<1>8. \A j \in Invoices : rows'[j] = rows[j] \/ (j = i /\ rows'[j] = copy)
  BY <1>0, <1>3 DEF UpdateInvoice, update_payment, IInv, TypeOK
<1>9. Bears(i, k.order) /\ (rows'[i].order \in Orders => Bears(i, rows'[i].order))
  BY <1>0, <1>4, <1>6, <1>8 DEF Bears
<1>10. rows'[i].status # "absent"
  BY <1>1, <1>4, <1>8
<1>11. Advances(t, k, i)
  BY <1>1, <1>2, <1>5, <1>6, <1>8, <1>9, <1>10 DEF Advances, Opening
<1>12. OrderOK(t)' /\ CopyOK(t)' /\ RowKnown(t)'
  BY <1>1, <1>4, <1>6, <1>7, <1>10 DEF OrderOK, CopyOK, RowKnown, Confirming, Confirmed
<1>13. rows'[i] = rows[i] \/ WrittenOK(i)
  BY <1>4, <1>8 DEF WrittenOK, PendingOK, FailedOK, PaidOK
<1> QED BY <1>2, <1>6, <1>9, <1>11, <1>12, <1>13, StepKeeps DEF Opening

LEMMA RenameKeeps ==
    ASSUME FiatConstants, IInv, TypeOK', NEW t \in Tasks, Rename(t)
    PROVE  IInv'
<1>0. PICK i \in Invoices : i = task[t].inv
  BY Known
<1>1. /\ task[t].pc = "rename" /\ task[t] \in Task /\ task[t].order \in Orders
      /\ task[t].copy \in Row /\ rows[i] \in Row /\ RowOK(i) /\ rows[i].status # "absent"
      /\ task[t].copy.order = task[t].order /\ task[t].copy.fee = FiatFee
      /\ task[t].copy.status = "pending"
  BY <1>0, Known DEF Rename, OrderOK, CopyOK, RowKnown, Confirming
<1>2. Grows /\ BookedOnce' /\ UNCHANGED <<announced, expired, order, kind>>
  BY DEF Rename, books, outside, Grows, IInv, BookedOnce
<1>3. Bears(i, task[t].order)
  BY <1>0 DEF Bears
<1>4. /\ \A j \in Invoices \ {i} : rows'[j] = rows[j]
      /\ rows'[i] = rows[i] \/ rows'[i] = [rows[i] EXCEPT !.key = task[t].order]
  BY <1>0 DEF Rename, IInv, TypeOK
<1>5. rows'[i].status = rows[i].status /\ rows'[i].order = rows[i].order /\ rows'[i].fee = rows[i].fee
  BY <1>1, <1>4 DEF Row
<1>6. WrittenOK(i)
  <2>1. PendingOK(i)'
    BY <1>1, <1>5 DEF RowOK, PendingOK
  <2>2. FailedOK(i)'
    BY <1>1, <1>2, <1>3, <1>5 DEF RowOK, FailedOK, NeverOpened, MayFail
  <2>3. PaidOK(i)'
    BY <1>2, <1>5 DEF IInv, CreditIsPaid, PaidOK, PaidOrder
  <2> QED BY <1>1, <1>5, <2>1, <2>2, <2>3 DEF WrittenOK
<1>7. rows'[i].order \in Orders => Bears(i, rows'[i].order)
  BY <1>5 DEF Bears
<1>8. CASE Done(t)
  <2>1. Resting \in Task /\ Resting.pc = "idle" /\ Resting.order = NoOrder /\ NoOrder \notin Orders
    BY Constants
  <2>2. task' = [task EXCEPT ![t] = Resting] /\ task'[t] = Resting
    BY <1>8 DEF Done, IInv, TypeOK
  <2>3. Advances(t, Resting, i)
    BY <1>1, <1>2, <1>4, <1>5, <1>7, <2>1, <2>2 DEF Advances, Opening
  <2>4. OrderOK(t)' /\ CopyOK(t)' /\ RowKnown(t)'
    BY <2>1, <2>2 DEF OrderOK, CopyOK, RowKnown, Confirming, Confirmed
  <2> QED BY <1>2, <1>6, <2>1, <2>3, <2>4, StepKeeps DEF Opening
<1>9. CASE ~Done(t)
  <2>1. PICK copy \in Row : copy = [task[t].copy EXCEPT !.key = task[t].order]
    BY <1>1 DEF Row
  <2>2. /\ copy.status = "pending" /\ copy.fee = FiatFee /\ copy.order = task[t].order
    BY <1>1, <2>1 DEF Row
  <2> DEFINE k == [task[t] EXCEPT !.pc = "ask", !.by = "webhook", !.copy = copy]
  <2>3. task' = [task EXCEPT ![t] = k]
    BY <1>9, <2>1 DEF Rename
  <2>4. k \in Task /\ k.order = task[t].order /\ k.pc = "ask" /\ k.copy = copy /\ k.inv = i
    BY <1>0, <1>1 DEF Task, TaskPCs
  <2> HIDE DEF k
  <2>5. task'[t] = k
    BY <2>3 DEF IInv, TypeOK
  <2>6. Advances(t, k, i)
    BY <1>1, <1>2, <1>3, <1>4, <1>5, <1>7, <2>3, <2>4 DEF Advances, Opening
  <2>7. OrderOK(t)' /\ CopyOK(t)' /\ RowKnown(t)'
    BY <1>1, <1>5, <2>2, <2>4, <2>5 DEF OrderOK, CopyOK, RowKnown, Confirming, Confirmed
  <2> QED BY <1>2, <1>3, <1>6, <2>4, <2>6, <2>7, StepKeeps DEF Opening
<1> QED BY <1>8, <1>9

-----------------------------------------------------------------------------
(* What reads a row, and what confirms it.                                   *)
Reads(t, i, by) ==
    /\ Idle(t) /\ MayCheck(by, i)
    /\ task' = [task EXCEPT ![t] = [pc |-> FirstCheck(by, i), by |-> by, inv |-> i,
                                    order |-> rows[i].order, copy |-> rows[i]]]
    /\ UNCHANGED <<rows, books, outside>>

LEMMA ReadKeeps ==
    ASSUME FiatConstants, IInv, TypeOK', NEW t \in Tasks, NEW i \in Invoices,
           NEW by \in {"webhook", "poll", "page"}, Reads(t, i, by)
    PROVE  IInv'
<1>1. Grows /\ BookedOnce' /\ UNCHANGED <<rows, announced, expired, order, kind>>
  BY DEF Reads, books, outside, Grows, IInv, BookedOnce
<1>2. rows[i] \in Row /\ rows[i].status = "pending" /\ RowOK(i) /\ NoOrder \notin Orders
  BY Known, Constants DEF Reads, MayCheck
<1>3. PICK pc \in {"ask", "expire"} : pc = FirstCheck(by, i)
  BY DEF FirstCheck
<1>4. (pc = "expire" => i \in expired) /\ (pc = "ask" => rows[i].order \in Orders)
  BY <1>2, <1>3 DEF FirstCheck, Reads, MayCheck, Row
<1> DEFINE k == [pc |-> pc, by |-> by, inv |-> i, order |-> rows[i].order, copy |-> rows[i]]
<1>5. task' = [task EXCEPT ![t] = k]
  BY <1>3 DEF Reads
<1>6. /\ k \in Task /\ k.pc = pc /\ k.inv = i /\ k.order = rows[i].order /\ k.copy = rows[i]
  BY <1>2 DEF Task, TaskPCs, Row
<1> HIDE DEF k
<1>7. task'[t] = k
  BY <1>5 DEF IInv, TypeOK
<1>8. (rows[i].order \in Orders => Bears(i, rows[i].order))
  BY DEF Bears
<1>9. Advances(t, k, i)
  BY <1>1, <1>5, <1>6, <1>8 DEF Advances, Opening
<1>10. rows[i].order \in Orders => rows[i].fee = FiatFee
  BY <1>2 DEF RowOK, PendingOK
<1>11. OrderOK(t)' /\ CopyOK(t)' /\ RowKnown(t)'
  BY <1>1, <1>2, <1>4, <1>6, <1>7, <1>10 DEF OrderOK, CopyOK, RowKnown, Confirming, Confirmed
<1> QED BY <1>1, <1>6, <1>8, <1>9, <1>11, StepKeeps DEF Opening

LEMMA SubscriptionEventKeeps ==
    ASSUME FiatConstants, IInv, TypeOK', NEW t \in Tasks, NEW o \in Orders, NEW i \in Invoices,
           SubscriptionEvent(t, o, i)
    PROVE  IInv'
<1>1. Grows /\ BookedOnce' /\ UNCHANGED <<rows, announced, expired, order, kind>>
  BY DEF SubscriptionEvent, books, outside, Grows, IInv, BookedOnce
<1>2. /\ rows[i] = NoRow /\ announced[i] = 0
      /\ \A p \in Orders : ~Bears(i, p)
      /\ \A u \in Tasks : task[u].inv = i => task[u].pc = "idle"
  BY FreshIsUnborn DEF SubscriptionEvent
<1>3. NoRow \in Row /\ NoRow.order = NoOrder /\ NoRow.status = "absent" /\ NoOrder \notin Orders
  BY Constants
<1> DEFINE k == [pc |-> "create", by |-> "event", inv |-> i, order |-> o, copy |-> NoRow]
<1>4. task' = [task EXCEPT ![t] = k]
  BY DEF SubscriptionEvent
<1>5. k \in Task
  BY <1>3 DEF Task, TaskPCs
<1>6. task'[t] = k
  BY <1>4 DEF IInv, TypeOK
<1>7. Advances(t, k, i)
  BY <1>1, <1>2, <1>3, <1>4, <1>5 DEF Advances, Opening
<1>8. TaskOK(t)'
  BY <1>1, <1>2, <1>3, <1>6
     DEF TaskOK, OpeningOK, OrderOK, CopyOK, RowKnown, Confirming, Confirmed, Opening
<1>9. RowOK(i)'
  BY <1>1, <1>2, <1>3 DEF RowOK, AbsentOK, PendingOK, FailedOK, AnnouncedOK
<1>10. CreditIsPaid'
  BY <1>1 DEF IInv, CreditIsPaid, PaidOrder
<1> QED BY <1>1, <1>7, <1>8, <1>9, <1>10, Advance DEF IInv

LEMMA AskKeeps ==
    ASSUME FiatConstants, IInv, TypeOK', NEW t \in Tasks, Ask(t)
    PROVE  IInv'
<1>0. PICK i \in Invoices : i = task[t].inv
  BY Known
<1>00. PICK o \in Orders : o = task[t].order
  BY Known DEF OrderOK, Ask, Confirming
<1>1. /\ task[t].pc = "ask" /\ task[t] \in Task /\ task[t].copy.order = o
      /\ task[t].copy.fee = FiatFee /\ task[t].copy.status = "pending"
      /\ rows[i].status # "absent"
  BY <1>0, <1>00, Known DEF Ask, OrderOK, CopyOK, RowKnown, Confirming
<1>2. Grows /\ BookedOnce' /\ UNCHANGED <<rows, announced, expired, kind>>
  <2>1. \A p \in Orders : order[p] \in {"paid", "dead"} => order'[p] = order[p]
    BY DEF Ask, AskProvider, Capturing, IInv, TypeOK
  <2> QED BY <2>1 DEF Ask, books, Grows, IInv, BookedOnce
<1>3. Bears(i, o) /\ (rows[i].order \in Orders => Bears(i, rows[i].order))
  BY <1>0, <1>00 DEF Bears
<1>4. ASSUME NEW k \in Task, task' = [task EXCEPT ![t] = k],
             k = Resting \/ (k.inv = i /\ k.order = o),
             k.pc \notin Opening \cup {"create"}, OrderOK(t)', CopyOK(t)', RowKnown(t)'
      PROVE  IInv'
  <2>1. Resting.order = NoOrder /\ NoOrder \notin Orders
    BY Constants
  <2>2. (k.order \in Orders => Bears(i, k.order))
    BY <1>3, <1>4, <2>1
  <2>3. Advances(t, k, i)
    BY <1>2, <1>3, <1>4, <2>2 DEF Advances
  <2> QED BY <1>2, <1>4, <2>2, <2>3, StepKeeps
<1>5. CASE Done(t)
  <2>1. Resting \in Task /\ Resting.pc = "idle" /\ Resting.order = NoOrder
    BY Constants
  <2>2. task' = [task EXCEPT ![t] = Resting] /\ task'[t] = Resting
    BY <1>5 DEF Done, IInv, TypeOK
  <2>3. OrderOK(t)' /\ CopyOK(t)' /\ RowKnown(t)'
    BY <2>1, <2>2 DEF OrderOK, CopyOK, RowKnown, Confirming, Confirmed
  <2> QED BY <1>4, <2>1, <2>2, <2>3 DEF Opening
<1>6. CASE ~Done(t)
  <2>1. PICK pc \in {"success", "fail"} :
          /\ Goto(t, pc)
          /\ pc = "success" => order'[o] = "paid"
          /\ pc = "fail" => order'[o] \in FailsWhile(kind[o])
    <3>1. PICK answer \in Answers(kind[o], order'[o]) :
            \/ answer = "success" /\ Goto(t, "success")
            \/ answer = "failed" /\ Goto(t, "fail")
      BY <1>00, <1>6 DEF Ask
    <3>2. CASE answer = "success" /\ Goto(t, "success")
      <4>1. order'[o] = "paid"
        BY <3>1, <3>2 DEF Answers, SuccessWhile
      <4> QED BY <3>2, <4>1
    <3>3. CASE answer = "failed" /\ Goto(t, "fail")
      <4>1. order'[o] \in FailsWhile(kind[o])
        BY <3>1, <3>3 DEF Answers
      <4> QED BY <3>3, <4>1
    <3> QED BY <3>1, <3>2, <3>3
  <2>2. pc = "fail" => order'[o] = "dead" \/ kind[o] \in Late
    <3>1. kind[o] \in Checkouts \cup Cycles
      BY FiatConstants DEF IInv, TypeOK
    <3> QED BY <2>1, <3>1 DEF FailsWhile, stripe_fails, paypal_fails, square_fails,
                             revolut_fails, Late, Checkouts, Cycles
  <2> DEFINE k == [task[t] EXCEPT !.pc = pc]
  <2>3. task' = [task EXCEPT ![t] = k]
    BY <2>1 DEF Goto
  <2>4. k \in Task /\ k.order = o /\ k.pc = pc /\ k.copy = task[t].copy /\ k.inv = i
    BY <1>0, <1>00, <1>1 DEF Task, TaskPCs
  <2> HIDE DEF k
  <2>5. task'[t] = k
    BY <2>3 DEF IInv, TypeOK
  <2>6. OrderOK(t)' /\ CopyOK(t)' /\ RowKnown(t)'
    BY <1>1, <1>2, <2>1, <2>2, <2>4, <2>5
       DEF OrderOK, CopyOK, RowKnown, Confirming, Confirmed, MayFail
  <2> QED BY <1>4, <2>3, <2>4, <2>6 DEF Opening
<1> QED BY <1>5, <1>6

LEMMA WriteSuccessKeeps ==
    ASSUME FiatConstants, IInv, TypeOK', NEW t \in Tasks, WriteSuccess(t)
    PROVE  IInv'
<1>0. PICK i \in Invoices : i = task[t].inv
  BY Known
<1>1. /\ task[t].pc = "success" /\ task[t] \in Task /\ task[t].order \in Orders
      /\ task[t].copy.order = task[t].order /\ order[task[t].order] = "paid"
      /\ task[t].copy.fee = FiatFee /\ rows[i].status # "absent"
  BY <1>0, Known DEF WriteSuccess, OrderOK, CopyOK, RowKnown, Confirming, Confirmed
<1>2. Grows /\ BookedOnce' /\ UNCHANGED <<announced, expired, order, kind>>
  BY DEF WriteSuccess, books, outside, Grows, IInv, BookedOnce
<1>3. PICK copy \in Row : copy = [task[t].copy EXCEPT !.status = "success"]
  BY Known DEF Row
<1>4. copy.status = "success" /\ copy.fee = FiatFee /\ copy.order = task[t].order
  BY <1>1, <1>3, Known DEF Row
<1> DEFINE k == [task[t] EXCEPT !.pc = "fee", !.copy = copy]
<1>5. task' = [task EXCEPT ![t] = k]
  BY <1>3 DEF WriteSuccess
<1>6. k \in Task /\ k.order = task[t].order /\ k.pc = "fee" /\ k.copy = copy /\ k.inv = i
  BY <1>0, <1>1 DEF Task, TaskPCs
<1> HIDE DEF k
<1>7. task'[t] = k
  BY <1>5 DEF IInv, TypeOK
<1>8. \A j \in Invoices : rows'[j] = rows[j] \/ (j = i /\ rows'[j] = copy)
  BY <1>0, <1>3 DEF WriteSuccess, update_payment, IInv, TypeOK
<1>9. Bears(i, k.order) /\ (rows'[i].order \in Orders => Bears(i, rows'[i].order))
  BY <1>0, <1>4, <1>6, <1>8 DEF Bears
<1>10. rows'[i].status # "absent"
  BY <1>1, <1>4, <1>8
<1>11. Advances(t, k, i)
  BY <1>1, <1>2, <1>5, <1>6, <1>8, <1>9, <1>10 DEF Advances, Opening
<1>12. OrderOK(t)' /\ CopyOK(t)' /\ RowKnown(t)'
  BY <1>1, <1>2, <1>4, <1>6, <1>7, <1>10 DEF OrderOK, CopyOK, RowKnown, Confirming, Confirmed
<1>13. rows'[i] = rows[i] \/ WrittenOK(i)
  BY <1>1, <1>2, <1>4, <1>8 DEF WrittenOK, PendingOK, FailedOK, PaidOK, PaidOrder
<1> QED BY <1>2, <1>6, <1>9, <1>11, <1>12, <1>13, StepKeeps DEF Opening

LEMMA CreditFeeKeeps ==
    ASSUME FiatConstants, IInv, TypeOK', NEW t \in Tasks, CreditFee(t)
    PROVE  IInv'
<1>0. PICK i \in Invoices : i = task[t].inv
  BY Known
<1>1. /\ task[t].pc = "fee" /\ task[t] \in Task /\ task[t].order \in Orders
      /\ task[t].copy.order = task[t].order /\ order[task[t].order] = "paid"
      /\ task[t].copy.fee = FiatFee /\ task[t].copy.status = "success"
      /\ rows[i].status # "absent"
  BY <1>0, Known DEF CreditFee, OrderOK, CopyOK, RowKnown, Confirming, Confirmed
<1>2. /\ feeCredit'[i] = FiatFee /\ \A j \in Invoices \ {i} : feeCredit'[j] = feeCredit[j]
      /\ feeCredit[i] \in {0, FiatFee}
  BY <1>0, <1>1 DEF CreditFee, IInv, TypeOK, BookedOnce
<1>3. Grows /\ BookedOnce' /\ UNCHANGED <<rows, announced, expired, order, kind>>
  BY <1>2 DEF CreditFee, outside, Grows, IInv, BookedOnce
<1> DEFINE k == [task[t] EXCEPT !.pc = "faucet"]
<1>4. task' = [task EXCEPT ![t] = k]
  BY DEF CreditFee, Goto
<1>5. /\ k \in Task /\ k.order = task[t].order /\ k.pc = "faucet" /\ k.copy = task[t].copy
      /\ k.inv = i
  BY <1>0, <1>1 DEF Task, TaskPCs
<1> HIDE DEF k
<1>6. task'[t] = k
  BY <1>4 DEF IInv, TypeOK
<1>7. Bears(i, k.order) /\ (rows[i].order \in Orders => Bears(i, rows[i].order))
  BY <1>0, <1>5 DEF Bears
<1>8. Advances(t, k, i)
  BY <1>3, <1>4, <1>5, <1>7 DEF Advances, Opening
<1>9. OrderOK(t)' /\ CopyOK(t)' /\ RowKnown(t)'
  BY <1>1, <1>2, <1>3, <1>5, <1>6 DEF OrderOK, CopyOK, RowKnown, Confirming, Confirmed
<1> QED BY <1>3, <1>5, <1>7, <1>8, <1>9, StepKeeps DEF Opening

LEMMA DebitFaucetKeeps ==
    ASSUME FiatConstants, IInv, TypeOK', NEW t \in Tasks, DebitFaucet(t)
    PROVE  IInv'
<1>0. PICK i \in Invoices : i = task[t].inv
  BY Known
<1>1. /\ task[t].pc = "faucet" /\ task[t] \in Task /\ task[t].order \in Orders
      /\ task[t].copy.order = task[t].order /\ order[task[t].order] = "paid"
      /\ task[t].copy.fee = FiatFee /\ task[t].copy.status = "success"
      /\ rows[i].status # "absent" /\ feeCredit[i] = FiatFee /\ RowOK(i)
  BY <1>0, Known DEF DebitFaucet, OrderOK, CopyOK, RowKnown, Confirming, Confirmed
<1>2. /\ announced'[i] > 0 /\ faucet'[i] \in {0, 1}
      /\ \A j \in Invoices \ {i} : announced'[j] = announced[j] /\ faucet'[j] = faucet[j]
  BY <1>0 DEF DebitFaucet, IInv, TypeOK, BookedOnce
<1>3. Grows /\ BookedOnce' /\ UNCHANGED <<rows, feeCredit, expired, order, kind>>
  BY <1>1, <1>2 DEF DebitFaucet, outside, Grows, IInv, BookedOnce
<1>4. Bears(i, task[t].order) /\ (rows[i].order \in Orders => Bears(i, rows[i].order))
  BY <1>0 DEF Bears
<1>5. \A u \in Tasks : task[u].pc \in Opening => task[u].inv # i
  BY <1>1, <1>4 DEF IInv, TasksOK, OpeningOK
<1>6. Resting \in Task /\ Resting.pc = "idle" /\ Resting.order = NoOrder /\ NoOrder \notin Orders
  BY Constants
<1>7. PICK k : /\ task' = [task EXCEPT ![t] = k] /\ k \in Task
               /\ \/ k = Resting
                  \/ k.pc = "settle" /\ k.inv = i /\ k.order = task[t].order
                     /\ k.copy = task[t].copy
  <2>1. CASE Done(t)
    BY <1>6, <2>1 DEF Done
  <2>2. CASE Goto(t, "settle")
    <3> DEFINE k == [task[t] EXCEPT !.pc = "settle"]
    <3>1. /\ k \in Task /\ k.pc = "settle" /\ k.inv = i /\ k.order = task[t].order
          /\ k.copy = task[t].copy
      BY <1>0, <1>1 DEF Task, TaskPCs
    <3>2. task' = [task EXCEPT ![t] = k]
      BY <2>2 DEF Goto
    <3> HIDE DEF k
    <3> QED BY <3>1, <3>2
  <2> QED BY <2>1, <2>2 DEF DebitFaucet
<1>8. task'[t] = k /\ \A u \in Tasks \ {t} : task'[u] = task[u]
  BY <1>7 DEF IInv, TypeOK
<1>9. k.pc \notin Opening \cup {"create"} /\ (k.order \in Orders => k.order = task[t].order)
  BY <1>6, <1>7 DEF Opening
<1>10. Advances(t, k, i)
  BY <1>2, <1>3, <1>4, <1>7, <1>9 DEF Advances
<1>11. TaskOK(t)'
  BY <1>1, <1>3, <1>6, <1>7, <1>8
     DEF TaskOK, OpeningOK, OrderOK, CopyOK, RowKnown, Confirming, Confirmed, Opening
<1>12. \A o \in Orders : Bears(i, o)' => Bears(i, o)
  BY <1>3, <1>4, <1>8, <1>9 DEF Bears
<1>13. AnnouncedOK(i)'
  <2>1. \A o \in Orders : Bears(i, o)' => order'[o] = "paid"
    BY <1>1, <1>3, <1>4, <1>12 DEF IInv, OneOrder
  <2>2. \A u \in Tasks : task'[u].pc \in Opening => task'[u].inv # i
    BY <1>5, <1>8, <1>9
  <2> QED BY <2>1, <2>2 DEF AnnouncedOK
<1>14. RowOK(i)'
  <2>1. FailedOK(i)'
    BY <1>1, <1>3, <1>4 DEF RowOK, FailedOK, NeverOpened, MayFail
  <2> QED BY <1>1, <1>3, <1>13, <2>1 DEF RowOK, AbsentOK, PendingOK
<1>15. CreditIsPaid'
  BY <1>3 DEF IInv, CreditIsPaid, PaidOrder
<1> QED BY <1>3, <1>10, <1>11, <1>14, <1>15, Advance DEF IInv

-----------------------------------------------------------------------------
(* The steps that end a request.                                             *)
LEMMA SessionFailsKeeps ==
    ASSUME FiatConstants, IInv, TypeOK', NEW t \in Tasks, SessionFails(t)
    PROVE  IInv'
<1>1. PICK copy \in Row : copy = [task[t].copy EXCEPT !.status = "failed"]
  BY Known DEF Row
<1>2. task[t].pc \in Opening /\ task[t].copy = NewRow
  BY Known DEF SessionFails, OpeningOK, Opening
<1>3. copy.status = "failed" /\ copy.order = NoOrder
  BY <1>1, <1>2, Constants DEF Row
<1>4. Ends(t, copy)
  BY <1>1 DEF Ends, SessionFails, update_payment, Done, outside
<1> QED BY <1>2, <1>3, <1>4, EndKeeps DEF Opening

LEMMA ExpireKeeps ==
    ASSUME FiatConstants, IInv, TypeOK', NEW t \in Tasks, Expire(t)
    PROVE  IInv'
<1>1. PICK copy \in Row : copy = [task[t].copy EXCEPT !.status = "failed"]
  BY Known DEF Row
<1>2. /\ task[t].pc = "expire" /\ task[t].copy.order = task[t].order /\ task[t].inv \in expired
      /\ task[t].copy \in Row
  BY Known DEF Expire, OrderOK, RowKnown
<1>3. copy.status = "failed" /\ copy.order = task[t].order
  BY <1>1, <1>2 DEF Row
<1>4. Ends(t, copy)
  BY <1>1 DEF Ends, Expire, update_payment, Done, outside
<1> QED BY <1>2, <1>3, <1>4, EndKeeps

LEMMA FailKeeps ==
    ASSUME FiatConstants, IInv, TypeOK', NEW t \in Tasks, Fail(t)
    PROVE  IInv'
<1>1. PICK copy \in Row : copy = [task[t].copy EXCEPT !.status = "failed"]
  BY Known DEF Row
<1>2. /\ task[t].pc = "fail" /\ task[t].copy.order = task[t].order /\ task[t].copy \in Row
      /\ task[t].order \in Orders /\ MayFail(task[t].order)
  BY Known DEF Fail, OrderOK, Confirming
<1>3. copy.status = "failed" /\ copy.order = task[t].order
  BY <1>1, <1>2 DEF Row
<1>4. Ends(t, copy)
  BY <1>1 DEF Ends, Fail, update_payment, Done, outside
<1> QED BY <1>2, <1>3, <1>4, EndKeeps

LEMMA SettleKeeps ==
    ASSUME FiatConstants, IInv, TypeOK', NEW t \in Tasks, Settle(t)
    PROVE  IInv'
<1>1. PICK copy \in Row : copy = [task[t].copy EXCEPT !.fee = LightningFee]
  BY Known DEF Row
<1>2. /\ task[t].pc = "settle" /\ task[t].copy.order = task[t].order /\ task[t].copy \in Row
      /\ task[t].order \in Orders /\ order[task[t].order] = "paid"
      /\ task[t].copy.status = "success"
  BY Known DEF Settle, OrderOK, CopyOK, Confirming, Confirmed
<1>3. copy.status = "success" /\ copy.order = task[t].order
  BY <1>1, <1>2 DEF Row
<1>4. Ends(t, copy)
  BY <1>1 DEF Ends, Settle, update_payment, Done, outside
<1> QED BY <1>2, <1>3, <1>4, EndKeeps

(* The provider, the clock and the end of the process.                       *)
LEMMA ExternalKeeps ==
    ASSUME FiatConstants, IInv, TypeOK', External
    PROVE  IInv'
<1>1. Grows /\ BookedOnce' /\ UNCHANGED <<rows, announced>>
  <2>1. ASSUME NEW o \in Orders, ProviderStep(o) PROVE Grows
    BY <2>1 DEF ProviderStep, books, Grows, IInv, TypeOK
  <2>2. ASSUME NEW i \in Invoices, Expires(i) PROVE Grows
    BY <2>2 DEF Expires, books, Grows
  <2>3. ASSUME Crash PROVE Grows
    BY <2>3 DEF Crash, books, Grows
  <2>4. UNCHANGED <<rows, books>>
    BY DEF External, ProviderStep, Expires, Crash
  <2>5. Grows
    BY <2>1, <2>2, <2>3 DEF External
  <2>6. BookedOnce'
    BY <2>4 DEF books, IInv, BookedOnce
  <2> QED BY <2>4, <2>5, <2>6 DEF books
<1>2. \/ task' = task
      \/ task' = [t \in Tasks |-> Resting]
  BY DEF External, ProviderStep, Expires, Crash
<1>3. Resting.pc = "idle" /\ Resting.order = NoOrder /\ NoOrder \notin Orders
  BY Constants
<1>4. \A i \in Invoices, o \in Orders : Bears(i, o)' => Bears(i, o)
  BY <1>1, <1>2, <1>3 DEF Bears
<1>5. OneOrder' /\ OneOpens'
  <2>1. OneOrder'
    BY <1>4 DEF IInv, OneOrder
  <2>2. OneOpens'
    BY <1>2, <1>3 DEF IInv, OneOpens, Opening
  <2> QED BY <2>1, <2>2
<1>6. ASSUME NEW t \in Tasks PROVE TaskOK(t)'
  <2>1. CASE task'[t] = task[t]
    <3>1. \A o \in Orders : Bears(task[t].inv, o)' => Bears(task[t].inv, o)
      <4>1. PICK i \in Invoices : i = task[t].inv
        BY Known
      <4> QED BY <1>4, <2>1, <4>1
    <3>2. TaskOK(t) /\ TypeOK
      BY Known DEF TaskOK, IInv
    <3> QED BY <1>1, <2>1, <3>1, <3>2, TaskKeeps
  <2>2. CASE task'[t] = Resting
    BY <1>3, <2>2
       DEF TaskOK, OpeningOK, OrderOK, CopyOK, RowKnown, Confirming, Confirmed, Opening
  <2> QED BY <1>2, <2>1, <2>2
<1>7. ASSUME NEW i \in Invoices PROVE RowOK(i)'
  <2>1. \A t \in Tasks : task'[t].pc \in Opening /\ task'[t].inv = i =>
                           task[t].pc \in Opening /\ task[t].inv = i
    BY <1>2, <1>3 DEF Opening
  <2>2. RowOK(i) /\ TypeOK
    BY DEF IInv, RowsOK, RowOK
  <2> QED BY <1>1, <1>4, <2>1, <2>2, RowKeeps
<1>8. CreditIsPaid'
  BY <1>1 DEF IInv, CreditIsPaid, PaidOrder, Grows
<1> QED BY <1>1, <1>5, <1>6, <1>7, <1>8 DEF IInv, TasksOK, RowsOK, TaskOK, RowOK

-----------------------------------------------------------------------------
LEMMA InvInit == Init => IInv
<1> SUFFICES ASSUME Init PROVE IInv
  OBVIOUS
<1>1. TypeOK
  BY TypeInit
<1>2. NoRow.status = "absent" /\ NoRow.order = NoOrder /\ NoOrder \notin Orders
  BY FiatConstants, Constants
<1>3. Resting.pc = "idle" /\ Resting.order = NoOrder
  BY FiatConstants, Constants
<1>4. \A i \in Invoices, o \in Orders : ~Bears(i, o)
  BY <1>2, <1>3 DEF Init, Bears
<1>5. TasksOK /\ OneOpens /\ OneOrder
  BY <1>3, <1>4 DEF Init, TasksOK, OpeningOK, OrderOK, CopyOK, RowKnown, Opening, Confirming,
                   Confirmed, OneOpens, OneOrder
<1>6. RowsOK
  <2> SUFFICES ASSUME NEW i \in Invoices
               PROVE  AbsentOK(i) /\ PendingOK(i) /\ FailedOK(i) /\ AnnouncedOK(i)
    BY DEF RowsOK
  <2>1. rows[i] = NoRow /\ announced[i] = 0
    BY DEF Init
  <2> QED BY <1>2, <2>1 DEF AbsentOK, PendingOK, FailedOK, AnnouncedOK
<1>7. CreditIsPaid /\ BookedOnce
  BY <1>2 DEF Init, CreditIsPaid, BookedOnce
<1> QED BY <1>1, <1>5, <1>6, <1>7 DEF IInv

LEMMA InvStep == IInv /\ [Next]_vars => IInv'
<1> SUFFICES ASSUME IInv, [Next]_vars PROVE IInv'
  OBVIOUS
<1>1. TypeOK'
  BY TypeStep DEF IInv
<1>2. FiatConstants
  BY FiatConstants
<1>3. CASE UNCHANGED vars
  BY <1>3 DEF vars, IInv, TypeOK, TasksOK, OpeningOK, OrderOK, CopyOK, RowKnown, OneOpens,
      OneOrder, RowsOK, AbsentOK, PendingOK, FailedOK, NeverOpened, AnnouncedOK, CreditIsPaid,
      BookedOnce, Bears, MayFail, PaidOrder
<1>4. ASSUME NEW t \in Tasks, Create(t) PROVE IInv'
  BY <1>1, <1>2, <1>4, OpenInvoiceKeeps, SessionOpensKeeps, SessionFailsKeeps,
     UpdateInvoiceKeeps, RenameKeeps DEF Create
<1>5. ASSUME NEW t \in Tasks, Begin(t) PROVE IInv'
  <2>1. ASSUME NEW i \in Invoices, NEW by \in {"webhook", "poll"}, ReadInvoice(t, i, by)
        PROVE  Reads(t, i, by)
    BY <2>1 DEF ReadInvoice, Reads
  <2>2. ASSUME NEW i \in Invoices, PageBegin(t, i) PROVE Reads(t, i, "page")
    BY <2>2 DEF PageBegin, Reads
  <2> QED BY <1>1, <1>2, <1>5, <2>1, <2>2, ReadKeeps, SubscriptionEventKeeps DEF Begin
<1>6. ASSUME NEW t \in Tasks, Confirm(t) PROVE IInv'
  BY <1>1, <1>2, <1>6, ExpireKeeps, AskKeeps, FailKeeps, WriteSuccessKeeps, CreditFeeKeeps,
     DebitFaucetKeeps, SettleKeeps DEF Confirm
<1>7. CASE External
  BY <1>1, <1>2, <1>7, ExternalKeeps
<1> QED BY <1>3, <1>4, <1>5, <1>6, <1>7 DEF Next

THEOREM InvariantHolds == Spec => []IInv
BY InvInit, InvStep, PTL DEF Spec

(* check_fiat_status: what is credited was paid at the provider, by the      *)
(* order of that very invoice, and the order stays paid.                     *)
THEOREM CreditsArePaid == Spec => []CreditIsPaid
<1>1. IInv => CreditIsPaid
  BY DEF IInv
<1> QED BY <1>1, InvariantHolds, PTL

(* However many webhooks, polls, rechecks and crashes there are, the fee     *)
(* wallet is credited once with the provider's fee and the faucet is debited *)
(* once.                                                                     *)
THEOREM FeesAreBookedOnce == Spec => []BookedOnce
<1>1. IInv => BookedOnce
  BY DEF IInv
<1> QED BY <1>1, InvariantHolds, PTL

(* A payment the listeners were told of is failed by nobody but the clock    *)
(* and a provider whose orders fail before they are paid.                    *)
THEOREM AnnouncedPaymentsStay == Spec => []AnnouncedStays
<1>1. IInv => AnnouncedStays
  <2> SUFFICES ASSUME IInv, NEW i \in Invoices, announced[i] > 0, rows[i].status = "failed",
                      i \notin expired
               PROVE  kind[rows[i].order] \in Late
    BY DEF AnnouncedStays, Late
  <2>1. rows[i].order \in Orders /\ MayFail(rows[i].order)
    BY DEF IInv, RowsOK, FailedOK, NeverOpened
  <2>2. order[rows[i].order] = "paid"
    BY <2>1 DEF IInv, RowsOK, AnnouncedOK, Bears
  <2> QED BY <2>1, <2>2 DEF MayFail
<1> QED BY <1>1, InvariantHolds, PTL
=============================================================================
