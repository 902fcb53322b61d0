--------------------------- MODULE FiatSubscriptions ---------------------------
(***************************************************************************)
(* Subscriptions at a fiat provider: a wallet opens one, the provider      *)
(* charges its cycles and tells LNbits by webhooks, and the wallet cancels *)
(* it (core/views/fiat_api.py, callback_api.py, fiat/*.py).  LNbits keeps  *)
(* no row of a subscription: its wallet is in what the provider sends back, *)
(* or in the rows of its earlier cycles.  How a row is confirmed and booked *)
(* is the matter of FiatInvoices.                                          *)
(***************************************************************************)
EXTENDS Integers

CONSTANTS Wallets,
          Subs,        \* the subscriptions there may be
          Requests,    \* subscription_request_id, of the caller or new
          Tasks,       \* requests and webhooks handled at once
          Hundredths,  \* those of the subscriptions in a currency with hundredths
          MaxCycles    \* bound: the cycles the provider charges

VARIABLES fsKind,      \* the provider
          fsSub,       \* the subscriptions it has
          fsCharged,   \* how many cycles of each were paid
          fsEvents,    \* webhooks it still has to deliver
          fsRows,      \* rows of cycles in apipayments
          fsPushed,    \* subscriptions whose last row ten newer payments follow
          fsCustomers, \* Revolut's customers with the e-mail of the requests
          fsTask,      \* requests and webhooks under way
          fsRace,      \* history: two requests registered the customer at once
          fsEarly,     \* history: told of a later cycle before the first was dealt with
          fsForeign,   \* history: cancelled for another wallet
          fsRefused    \* history: active, and its own wallet could not cancel it

vars == <<fsKind, fsSub, fsCharged, fsEvents, fsRows, fsPushed, fsCustomers, fsTask,
          fsRace, fsEarly, fsForeign, fsRefused>>
history == <<fsRace, fsEarly, fsForeign, fsRefused>>

Providers == {"stripe", "paypal", "square", "revolut"}
Cycles == 1..MaxCycles
None == 0
Nobody == None

SubscriptionConstants ==
    /\ Wallets \subseteq Nat \ {None} /\ Subs \subseteq Nat \ {None}
    /\ Requests \subseteq Nat \ {None} /\ Tasks \subseteq Nat /\ MaxCycles \in Nat

(* wallet and request are what the provider keeps for LNbits (metadata,      *)
(* custom_id, payment_note, external_reference); known: the caller has its id *)
(* and the page where the customer pays.                                     *)
Sub == [state : {"none", "open", "active", "cancelled"}, wallet : Wallets \union {Nobody},
        request : Requests \union {None}, known : BOOLEAN]
NoSub == [state |-> "none", wallet |-> Nobody, request |-> None, known |-> FALSE]
SquareSubs == [state : {"active"}, wallet : Wallets, request : Requests, known : {TRUE}]

(* The other currencies have no smaller unit, or thousandths where Revolut is  *)
(* asked.                                                                     *)
Exponent(s) == IF s \in Hundredths THEN 2 ELSE IF fsKind = "revolut" THEN 3 ELSE 0
Thousandths(e) == CASE e = 0 -> 1000 [] e = 2 -> 10 [] e = 3 -> 1
Price == 7                  \* of a cycle, in the smallest unit of its currency

(* keyed: its checking_id is that of the cycle; link: its external_id is that  *)
(* of the subscription.                                                       *)
Row == [sub : Subs, cycle : Cycles, wallet : Wallets, amount : Nat, keyed : BOOLEAN, link : BOOLEAN]
RowOf(s, c, w, amount, keyed, link) ==
    [sub |-> s, cycle |-> c, wallet |-> w, amount |-> amount, keyed |-> keyed, link |-> link]
Event(type, s, c) == [type |-> type, sub |-> s, cycle |-> c]
Events == [type : {"paid", "payment", "invoice"}, sub : Subs, cycle : Cycles]
NoEvent == Event("none", None, None)
Remote == {"customer", "register", "create", "setup", "order", "find", "cancel"}
Task == [pc : Remote \union {"idle", "look", "book"}, wallet : Wallets \union {Nobody},
         request : Requests \union {None}, sub : Subs \union {None}, event : Events \union {NoEvent}]
Resting == [pc |-> "idle", wallet |-> Nobody, request |-> None, sub |-> None, event |-> NoEvent]
Idle(t) == fsTask[t].pc = "idle"
Begin(t, pc, w, r, s, e) ==
    fsTask' = [fsTask EXCEPT ![t] =
                 [pc |-> pc, wallet |-> w, request |-> r, sub |-> s, event |-> e]]
Goto(t, pc) == fsTask' = [fsTask EXCEPT ![t] = [fsTask[t] EXCEPT !.pc = pc]]
Done(t) == fsTask' = [fsTask EXCEPT ![t] = Resting]

(* Square refuses to open one while LNbits runs: it has those of an earlier  *)
(* version, whose first cycle carries the note and later ones do not.        *)
Init ==
    /\ fsKind \in Providers
    /\ fsSub \in [Subs -> {NoSub} \union (IF fsKind = "square" THEN SquareSubs ELSE {})]
    /\ fsCharged = [s \in Subs |-> 0]
    /\ fsEvents = {} /\ fsRows = {} /\ fsPushed = {} /\ fsCustomers = 0
    /\ fsTask = [t \in Tasks |-> Resting]
    /\ fsRace = FALSE /\ fsEarly = {} /\ fsForeign = {} /\ fsRefused = {}

provider == <<fsKind, fsSub, fsCharged, fsEvents, fsCustomers>>
stored == <<fsRows, fsPushed>>

-----------------------------------------------------------------------------
(* POST /fiat/{provider}/subscription: the wallet is that of the key.        *)
Open(t, w, r) ==
    /\ Idle(t) /\ fsKind # "square" /\ \E s \in Subs : fsSub[s].state = "none"
    /\ Begin(t, IF fsKind = "revolut" THEN "customer" ELSE "create", w, r, None, NoEvent)
    /\ UNCHANGED <<provider, stored, history>>

(* _get_subscription_customer_id: the customer with the e-mail, or a new one. *)
FindNoCustomer(t) ==
    /\ fsTask[t].pc = "customer" /\ Goto(t, "register")
    /\ UNCHANGED <<provider, stored, history>>

FindCustomer(t) ==
    /\ fsTask[t].pc = "customer"
    /\ Goto(t, IF fsCustomers = 0 THEN "register" ELSE "create")
    /\ UNCHANGED <<provider, stored, history>>

Register(t) ==
    /\ fsTask[t].pc = "register" /\ fsCustomers' = fsCustomers + 1
    /\ fsRace' = (fsRace \/ \E o \in Tasks \ {t} : fsTask[o].pc = "register")
    /\ Goto(t, "create")
    /\ UNCHANGED <<fsKind, fsSub, fsCharged, fsEvents, stored, fsEarly, fsForeign, fsRefused>>

(* The provider makes the subscription, with the wallet and the request for   *)
(* which it is; its answer may be lost, and the caller is told of an error.  The *)
(* id of Stripe's is the request's, the id of the others is in the answer, and  *)
(* Revolut's has no page yet.                                                   *)
FirstFree(s) == fsSub[s].state = "none" /\ \A o \in Subs : fsSub[o].state = "none" => s <= o
Made(t, s, known) ==
    fsSub' = [fsSub EXCEPT ![s] = [state |-> "open", wallet |-> fsTask[t].wallet,
                                   request |-> fsTask[t].request, known |-> known]]

stripe_create_subscription(t, s) ==
    /\ fsKind = "stripe" /\ \E known \in BOOLEAN : Made(t, s, known)
    /\ Done(t)
paypal_create_subscription(t, s) ==
    /\ fsKind = "paypal" /\ \E known \in BOOLEAN : Made(t, s, known)
    /\ Done(t)
(* The request's id is the Idempotency-Key: asked again, Revolut answers with  *)
(* the subscription it made.                                                   *)
revolut_create_subscription(t, s) ==
    LET same == {o \in Subs : fsSub[o].state # "none" /\ fsSub[o].request = fsTask[t].request}
    IN  /\ fsKind = "revolut"
        /\ IF same = {} THEN Made(t, s, FALSE) ELSE UNCHANGED fsSub
        /\ \/ \E o \in IF same = {} THEN {s} ELSE same :
                 fsTask' = [fsTask EXCEPT ![t] = [fsTask[t] EXCEPT !.pc = "setup", !.sub = o]]
           \/ Done(t)

CreateSubscription(t) ==
    /\ fsTask[t].pc = "create"
    /\ \E s \in Subs :
         /\ FirstFree(s)
         /\ \/ stripe_create_subscription(t, s) \/ paypal_create_subscription(t, s)
            \/ revolut_create_subscription(t, s)
    /\ UNCHANGED <<fsKind, fsCharged, fsEvents, fsCustomers, stored, history>>

(* Revolut's second request: the order with the page where the customer pays. *)
SetupOrder(t) ==
    /\ fsTask[t].pc = "setup" /\ Done(t)
    /\ LET s == fsTask[t].sub IN fsSub' = [fsSub EXCEPT ![s] = [fsSub[s] EXCEPT !.known = TRUE]]
    /\ UNCHANGED <<fsKind, fsCharged, fsEvents, fsCustomers, stored, history>>

(* A request of the provider fails: an error for the caller, and an error for *)
(* the provider that will call again.                                         *)
ProviderFails(t) ==
    /\ fsTask[t].pc \in Remote /\ Done(t)
    /\ UNCHANGED <<provider, stored, history>>

-----------------------------------------------------------------------------
(* The customer and the provider.                                             *)
Told(s, c) ==
    {Event(type, s, c) : type \in IF fsKind = "square" THEN {"payment", "invoice"} ELSE {"paid"}}
Charge(s) ==
    /\ fsSub[s].known /\ fsSub[s].state \in {"open", "active"} /\ fsCharged[s] < MaxCycles
    /\ fsSub' = [fsSub EXCEPT ![s] = [fsSub[s] EXCEPT !.state = "active"]]
    /\ fsCharged' = [fsCharged EXCEPT ![s] = fsCharged[s] + 1]
    /\ fsEvents' = fsEvents \union Told(s, fsCharged[s] + 1)
    /\ UNCHANGED <<fsKind, fsCustomers, stored, fsTask, history>>

OtherPayments ==    \* ten newer ones
    /\ fsKind = "square" /\ fsRows # {} /\ fsPushed' = Subs
    /\ UNCHANGED <<provider, fsRows, fsTask, history>>

-----------------------------------------------------------------------------
(* Webhooks.  An event is gone when its handler returns, whatever it did, and *)
(* comes again when the handler raises.                                       *)
Booked(s, c) == {r \in fsRows : r.sub = s /\ r.cycle = c /\ r.keyed}
Linked(s) == {r \in fsRows : r.sub = s /\ r.link}
Settled(e) == fsEvents' = fsEvents \ {e}

Early(e) ==
    IF e.cycle > 1 /\ \E o \in fsEvents : o.sub = e.sub /\ o.cycle = 1 THEN {e.sub} ELSE {}

(* Stripe and PayPal send the metadata with each cycle, Square the note with   *)
(* the payment of the first.                                                   *)
EventWallet(e) == fsSub[e.sub].wallet
Handle(t, e, pc, w) == Begin(t, pc, w, None, e.sub, e) /\ UNCHANGED fsEvents

stripe_invoice_paid(t, e) == fsKind = "stripe" /\ Handle(t, e, "book", EventWallet(e))
paypal_sale_completed(t, e) == fsKind = "paypal" /\ Handle(t, e, "book", EventWallet(e))
(* A payment without the note leads to no order of LNbits.                     *)
square_payment(t, e) ==
    /\ e.type = "payment"
    /\ \/ e.cycle = 1 /\ Handle(t, e, "look", EventWallet(e))
       \/ e.cycle # 1 /\ Settled(e) /\ UNCHANGED fsTask
square_invoice_payment_made(t, e) == e.type = "invoice" /\ Handle(t, e, "order", Nobody)
(* An order with a row is checked as any other.                                *)
revolut_order_completed(t, e) ==
    /\ fsKind = "revolut"
    /\ \/ Booked(e.sub, e.cycle) = {} /\ Handle(t, e, "order", Nobody)
       \/ Booked(e.sub, e.cycle) # {} /\ Settled(e) /\ UNCHANGED fsTask

Receive(t, e) ==
    /\ Idle(t) /\ e \in fsEvents
    /\ fsEarly' = fsEarly \union Early(e)
    /\ \/ stripe_invoice_paid(t, e) \/ paypal_sale_completed(t, e)
       \/ square_payment(t, e) \/ square_invoice_payment_made(t, e)
       \/ revolut_order_completed(t, e)
    /\ UNCHANGED <<fsKind, fsSub, fsCharged, fsCustomers, stored, fsRace, fsForeign, fsRefused>>

(* The wallet of an invoice of Square: the note, the row of the payment, or   *)
(* the newest row with the id of the subscription; of an order of Revolut:    *)
(* the reference of a subscription that is still active.                      *)
square_wallets(e) ==
    IF e.cycle = 1 THEN {EventWallet(e)}
    ELSE {r.wallet : r \in IF Booked(e.sub, e.cycle) # {} THEN Booked(e.sub, e.cycle)
                           ELSE Linked(e.sub)}
revolut_wallets(e) == IF fsSub[e.sub].state = "active" THEN {EventWallet(e)} ELSE {}
OrderWallets(e) == IF fsKind = "square" THEN square_wallets(e) ELSE revolut_wallets(e)

Order(t) ==
    /\ fsTask[t].pc = "order"
    /\ LET e == fsTask[t].event IN
       IF OrderWallets(e) = {} THEN Done(t) /\ Settled(e)
       ELSE /\ \E w \in OrderWallets(e) :
                 fsTask' = [fsTask EXCEPT ![t] = [fsTask[t] EXCEPT !.pc = "look", !.wallet = w]]
            /\ UNCHANGED fsEvents
    /\ UNCHANGED <<fsKind, fsSub, fsCharged, fsCustomers, stored, history>>

(* minor_units_to_amount of Stripe and Revolut, the total of PayPal; Square   *)
(* has hundredths of every currency.                                          *)
Amount(s) ==
    Price * (IF fsKind = "square" THEN 10 ELSE Thousandths(Exponent(s)))

(* The row of an earlier webhook, which an invoice of Square gives the id of   *)
(* the subscription; Stripe and PayPal do not look.                            *)
LookWithoutLink(t) ==
    /\ fsTask[t].pc = "look"
    /\ LET e == fsTask[t].event IN
         IF Booked(e.sub, e.cycle) = {} THEN Goto(t, "book") /\ UNCHANGED <<fsEvents, fsRows>>
         ELSE Done(t) /\ Settled(e) /\ UNCHANGED fsRows
    /\ UNCHANGED <<fsKind, fsSub, fsCharged, fsCustomers, fsPushed, history>>

Look(t) ==
    /\ fsTask[t].pc = "look"
    /\ LET e == fsTask[t].event IN
         IF Booked(e.sub, e.cycle) = {} THEN Goto(t, "book") /\ UNCHANGED <<fsEvents, fsRows>>
         ELSE /\ Done(t) /\ Settled(e)
              /\ fsRows' = {IF r \in Booked(e.sub, e.cycle) /\ e.type # "payment"
                            THEN [r EXCEPT !.link = TRUE] ELSE r : r \in fsRows}
    /\ UNCHANGED <<fsKind, fsSub, fsCharged, fsCustomers, fsPushed, history>>

(* A new row, which takes the checking_id of the cycle unless it is taken.     *)
Book(t) ==
    /\ fsTask[t].pc = "book" /\ Done(t)
    /\ LET e == fsTask[t].event  free == Booked(e.sub, e.cycle) = {} IN
         /\ fsRows' = fsRows \union {RowOf(e.sub, e.cycle, fsTask[t].wallet, Amount(e.sub), free,
                                          e.type = "invoice" \/ fsKind = "revolut")}
         /\ fsPushed' = fsPushed \ {e.sub}
         /\ IF free THEN Settled(e) ELSE UNCHANGED fsEvents    \* the database's error
    /\ UNCHANGED <<fsKind, fsSub, fsCharged, fsCustomers, history>>

-----------------------------------------------------------------------------
(* DELETE /fiat/{provider}/subscription/{id}: by the id a wallet was given    *)
(* when it opened one, which is the request's at Stripe and Square; Square's  *)
(* own id leads to Square as PayPal's does.                                   *)
Cancel(t, w, s) ==
    /\ Idle(t) /\ fsSub[s].known
    /\ \E pc \in {"find", "cancel"} :
         /\ fsKind = "paypal" => pc = "cancel"
         /\ fsKind \in {"stripe", "revolut"} => pc = "find"
         /\ Begin(t, pc, w, fsSub[s].request, s, NoEvent)
    /\ UNCHANGED <<provider, stored, history>>

(* Stripe is searched for the wallet and the request, and the first is taken.  *)
stripe_found(t) ==
    {o \in Subs : /\ fsSub[o].wallet = fsTask[t].wallet /\ fsSub[o].request = fsTask[t].request
                  /\ fsSub[o].state \in {"active", "cancelled"}}
AnyFound(t) == {fsTask[t].sub}

(* Revolut's reference must name the wallet.                                   *)
revolut_found(t) == {o \in {fsTask[t].sub} : fsSub[o].wallet = fsTask[t].wallet}
(* The id in the newest rows of the wallet that have the request's.            *)
square_found(t) ==
    {o \in Subs : /\ \E r \in Linked(o) : r.wallet = fsTask[t].wallet
                  /\ fsSub[o].request = fsTask[t].request /\ o \notin fsPushed}
Found(t) == CASE fsKind = "stripe" -> stripe_found(t)
              [] fsKind = "revolut" -> revolut_found(t)
              [] fsKind = "square" -> square_found(t)

(* None is found, or one that has ended.                                       *)
Refused(t, found) ==
    LET s == fsTask[t].sub IN
    fsRefused' = IF /\ fsSub[s].state = "active" /\ fsSub[s].wallet = fsTask[t].wallet
                    /\ fsKind = "square" => Linked(s) # {} /\ s \notin fsPushed
                    /\ \A o \in found : fsSub[o].state # "active"
                 THEN fsRefused \union {s} ELSE fsRefused

Find(t) ==
    /\ fsTask[t].pc = "find"
    /\ \/ Found(t) = {} /\ Done(t) /\ Refused(t, {})
       \/ \E s \in Found(t) :
            /\ fsTask' = [fsTask EXCEPT ![t] = [fsTask[t] EXCEPT !.pc = "cancel", !.sub = s]]
            /\ Refused(t, {s})
    /\ UNCHANGED <<provider, stored, fsRace, fsEarly, fsForeign>>

SendCancel(t) ==
    /\ fsTask[t].pc = "cancel" /\ Done(t)
    /\ LET s == fsTask[t].sub IN
         IF fsSub[s].state = "active"
         THEN /\ fsSub' = [fsSub EXCEPT ![s] = [fsSub[s] EXCEPT !.state = "cancelled"]]
              /\ fsForeign' = IF fsSub[s].wallet # fsTask[t].wallet
                              THEN fsForeign \union {s} ELSE fsForeign
         ELSE UNCHANGED <<fsSub, fsForeign>>
    /\ UNCHANGED <<fsKind, fsCharged, fsEvents, fsCustomers, stored, fsRace, fsEarly, fsRefused>>

Requested(t) ==   \* tasks are alike: the first that is free
    /\ \A o \in Tasks : o < t => ~Idle(o)
    /\ \/ \E w \in Wallets, r \in Requests : Open(t, w, r)
       \/ \E w \in Wallets, s \in Subs : Cancel(t, w, s)
       \/ \E e \in fsEvents : Receive(t, e)
Step(t) ==
    \/ FindCustomer(t) \/ Register(t) \/ CreateSubscription(t) \/ SetupOrder(t)
    \/ ProviderFails(t) \/ Order(t) \/ Look(t) \/ Book(t) \/ Find(t) \/ SendCancel(t)
Next ==
    \/ \E t \in Tasks : Requested(t) \/ Step(t)
    \/ \E s \in Subs : Charge(s)
    \/ OtherPayments

Spec == Init /\ [][Next]_vars

-----------------------------------------------------------------------------
TypeOK ==
    /\ fsKind \in Providers /\ fsSub \in [Subs -> Sub] /\ fsCharged \in [Subs -> 0..MaxCycles]
    /\ fsEvents \subseteq Events /\ fsRows \subseteq Row /\ fsTask \in [Tasks -> Task]
    /\ fsPushed \subseteq Subs /\ fsCustomers \in Nat /\ fsRace \in BOOLEAN
    /\ fsEarly \subseteq Subs /\ fsForeign \subseteq Subs /\ fsRefused \subseteq Subs

(* A cycle the customer paid is booked for the wallet that opened the         *)
(* subscription, with what was paid, once its webhooks are dealt with; unless  *)
(* it was cancelled before Revolut's webhook was handled, or Square told of    *)
(* a later cycle before the first was dealt with.  Square's amount is       *)
(* right for currencies with hundredths only.                                  *)
Waiting(s, c) ==
    \/ \E e \in fsEvents : e.sub = s /\ e.cycle = c
    \/ \E t \in Tasks : fsTask[t].event # NoEvent /\ fsTask[t].event.sub = s
                          /\ fsTask[t].event.cycle = c
CyclesAreBooked ==
    \A s \in Subs, c \in Cycles :
        c <= fsCharged[s] /\ ~Waiting(s, c) =>
            \/ \E r \in Booked(s, c) :
                 /\ r.wallet = fsSub[s].wallet
                 /\ \/ r.amount = Price * Thousandths(Exponent(s))
                    \/ fsKind = "square" /\ Exponent(s) # 2
            \/ fsKind = "revolut" /\ fsSub[s].state = "cancelled"
            \/ fsKind = "square" /\ s \in fsEarly

(* A wallet ends its own subscription by the id it was given, and no other's;  *)
(* unless one request id opened two of them, ten payments were received since   *)
(* the last of Square, or nothing but the provider's own id is asked for (PayPal,   *)
(* Square).                                                                     *)
Shared(s) == \E o \in Subs \ {s} : fsSub[o].wallet = fsSub[s].wallet
                                     /\ fsSub[o].request = fsSub[s].request
CancelIsTheOwners ==
    /\ fsForeign # {} => fsKind \in {"paypal", "square"}
    /\ \A s \in fsRefused : Shared(s)

(* Revolut has one customer of an e-mail, unless two requests overlapped.      *)
OneCustomer == fsCustomers <= 1 \/ fsRace
=============================================================================
