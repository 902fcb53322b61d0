--------------------------- MODULE TrackedInvoices ---------------------------
(***************************************************************************)
(* The queues of the NWC and the Blink adapters: an invoice is tracked     *)
(* from its creation until a notification or a look at the service says    *)
(* that it is paid, or it expires.  The stream hands out what is in the    *)
(* queue, and looks (_maintain_pending_invoices) when the queue has been   *)
(* empty for a while; notifications are handled by a task of their own, at *)
(* every await of the looking.                                             *)
(***************************************************************************)
EXTENDS Naturals, Sequences, FiniteSets

VARIABLES tkKind,      \* the adapter: "nwc" or "blink"
          tkPaid,      \* the invoices that are paid at the service
          tkLate,      \* those whose expiry has passed
          tkTracked,   \* pending_invoices
          tkNotices,   \* notifications on their way
          tkQueue,     \* paid_invoices_queue
          tkStep,      \* what the stream is at: "get", "reconcile" or "lookup"
          tkDue,       \* the invoices to look up in this round
          tkAsked,     \* the one that is being looked up, or Nothing
          tkPuts,      \* history: how often each was put in the queue
          tkDropped    \* history: paid ones that were dropped at their expiry

vars == <<tkKind, tkPaid, tkLate, tkTracked, tkNotices, tkQueue, tkStep, tkDue, tkAsked, tkPuts, tkDropped>>

Invoices == 1..2
Nothing == 0

Init ==
    /\ tkKind \in {"nwc", "blink"}
    /\ tkPaid = {} /\ tkLate = {} /\ tkTracked = {} /\ tkNotices = {}
    /\ tkQueue = << >> /\ tkStep = "get" /\ tkDue = {} /\ tkAsked = Nothing
    /\ tkPuts = [i \in Invoices |-> 0] /\ tkDropped = {}

(* create_invoice: tracked before the payer sees it. *)
Track(i) ==
    /\ i \notin tkTracked \union tkPaid \union tkLate /\ tkTracked' = tkTracked \union {i}
    /\ UNCHANGED <<tkKind, tkPaid, tkLate, tkNotices, tkQueue, tkStep, tkDue, tkAsked, tkPuts, tkDropped>>

(* The service is paid; its notification may be lost. *)
Pay(i) ==
    /\ i \in tkTracked \ (tkPaid \union tkLate) /\ tkPaid' = tkPaid \union {i}
    /\ tkNotices' \in {tkNotices, tkNotices \union {i}}
    /\ UNCHANGED <<tkKind, tkLate, tkTracked, tkQueue, tkStep, tkDue, tkAsked, tkPuts, tkDropped>>
Expires(i) ==
    /\ i \in tkTracked \union tkPaid /\ i \notin tkLate /\ tkLate' = tkLate \union {i}
    /\ UNCHANGED <<tkKind, tkPaid, tkTracked, tkNotices, tkQueue, tkStep, tkDue, tkAsked, tkPuts, tkDropped>>

-----------------------------------------------------------------------------
(* _mark_invoice_settled of NWC puts an invoice in the queue when it was still *)
(* tracked; Blink puts it there whatever the list says.                       *)
MarkedAlways(found) == found
Marked(found) == IF tkKind = "nwc" THEN found \intersect tkTracked ELSE found
Put(settled) ==
    /\ tkTracked' = tkTracked \ settled
    /\ tkPuts' = [i \in Invoices |-> tkPuts[i] + (IF i \in settled THEN 1 ELSE 0)]
    /\ \E q \in [1..Cardinality(settled) -> settled] :
         /\ {q[n] : n \in DOMAIN q} = settled
         /\ tkQueue' = tkQueue \o q

(* _handle_notification and _ws_payment_listener. *)
Notified(i) ==
    /\ i \in tkNotices /\ tkNotices' = tkNotices \ {i}
    /\ Put(Marked({i}))
    /\ UNCHANGED <<tkKind, tkPaid, tkLate, tkStep, tkDue, tkAsked, tkDropped>>

HandOut ==
    /\ tkStep = "get" /\ tkQueue # << >> /\ tkQueue' = Tail(tkQueue)
    /\ UNCHANGED <<tkKind, tkPaid, tkLate, tkTracked, tkNotices, tkStep, tkDue, tkAsked, tkPuts, tkDropped>>

(* The wait for the queue times out: what has expired is forgotten, those     *)
(* whose next look is due are looked at, after NWC's reconciliation.  When    *)
(* get_info of NWC raises the round is given up and the stream is started     *)
(* again: its queue and its list belong to the adapter.                       *)
Maintain(due) ==
    /\ tkStep = "get" /\ tkQueue = << >> /\ tkTracked # {}
    /\ tkTracked' = tkTracked \ tkLate
    /\ tkDropped' = tkDropped \union (tkTracked \intersect tkLate \intersect tkPaid)
    /\ IF tkTracked \ tkLate = {} THEN UNCHANGED <<tkStep, tkDue>>
       ELSE /\ tkStep' \in (IF tkKind = "nwc" THEN {"get", "reconcile", "lookup"} ELSE {"lookup"})
            /\ tkDue' = IF tkStep' = "get" THEN {} ELSE due \intersect (tkTracked \ tkLate)
    /\ UNCHANGED <<tkKind, tkPaid, tkLate, tkNotices, tkQueue, tkAsked, tkPuts>>

(* _reconcile_pending_invoices: the transactions of the list that are settled *)
(* and were not marked meanwhile; a failed call finds nothing.                *)
Reconcile(found) ==
    /\ tkStep = "reconcile" /\ found \subseteq tkPaid
    /\ Put(Marked(found))
    /\ \/ tkStep' = "lookup" /\ UNCHANGED tkDue
       \/ tkStep' = "get" /\ tkDue' = {}
    /\ UNCHANGED <<tkKind, tkPaid, tkLate, tkNotices, tkAsked, tkDropped>>

(* _run_fallback_lookups, _process_due_invoices: one after the other, those   *)
(* that are still tracked.                                                    *)
Lookup(i) ==
    /\ tkStep = "lookup" /\ tkAsked = Nothing /\ i \in tkDue /\ tkDue' = tkDue \ {i}
    /\ tkAsked' = IF i \in tkTracked THEN i ELSE Nothing
    /\ UNCHANGED <<tkKind, tkPaid, tkLate, tkTracked, tkNotices, tkQueue, tkStep, tkPuts, tkDropped>>
FoundPaid ==
    /\ tkAsked \in tkPaid /\ tkAsked' = Nothing /\ Put(Marked({tkAsked}))
    /\ UNCHANGED <<tkKind, tkPaid, tkLate, tkNotices, tkStep, tkDue, tkDropped>>
(* Blink drops what the service calls expired. *)
FoundNot ==
    /\ tkAsked # Nothing /\ tkAsked' = Nothing
    /\ \/ UNCHANGED tkTracked
       \/ tkKind = "blink" /\ tkAsked \in tkLate \ tkPaid /\ tkTracked' = tkTracked \ {tkAsked}
    /\ UNCHANGED <<tkKind, tkPaid, tkLate, tkNotices, tkQueue, tkStep, tkDue, tkPuts, tkDropped>>
RoundEnds ==
    /\ tkStep = "lookup" /\ tkDue = {} /\ tkAsked = Nothing /\ tkStep' = "get"
    /\ UNCHANGED <<tkKind, tkPaid, tkLate, tkTracked, tkNotices, tkQueue, tkDue, tkAsked, tkPuts, tkDropped>>

Next ==
    \/ \E i \in Invoices : Track(i) \/ Pay(i) \/ Expires(i) \/ Notified(i) \/ Lookup(i)
    \/ HandOut \/ \E s \in SUBSET Invoices : Maintain(s) \/ Reconcile(s)
    \/ FoundPaid \/ FoundNot \/ RoundEnds

(* What a fair scheduling of the stream repeats, and what it does in the end  *)
(* when the service does not fail for ever.                                   *)
GoesOn == HandOut \/ RoundEnds \/ FoundNot \/ \E s \in SUBSET Invoices : Reconcile(s)
          \/ \E i \in Invoices : Lookup(i)
LooksAtAll == Maintain(Invoices) /\ (tkStep' = "lookup" \/ tkTracked' = {})

TypeOK ==
    /\ tkKind \in {"nwc", "blink"}
    /\ \A s \in {tkPaid, tkLate, tkTracked, tkNotices, tkDue, tkDropped} : s \subseteq Invoices
    /\ tkQueue \in Seq(Invoices) /\ tkStep \in {"get", "reconcile", "lookup"}
    /\ tkAsked \in Invoices \union {Nothing} /\ tkPuts \in [Invoices -> 0..2]

(* An invoice that is paid is put in the queue, by a notification or by a     *)
(* look, unless its expiry passes first and it is dropped unseen; with NWC no *)
(* more than once, however notifications and looks overlap (nwc.py 186-204,   *)
(* 290-409, blink.py 443-581).                                                *)
NoneTwice == tkKind = "nwc" => \A i \in Invoices : tkPuts[i] <= 1
PaidIsQueued == []<>(\A i \in tkPaid : tkPuts[i] > 0 \/ i \in tkDropped)
=============================================================================
