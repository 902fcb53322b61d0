----------------------------- MODULE WasmGuests -----------------------------
(* What the guests of one WASM extension do through the host: api/host.py
   checks the permission, the user or the owner a guest acts for, and acts on
   the extension's rows (storage/crud.py) and on wallets
   (api/background_payments.py), and publishes to websocket clients
   (api/websockets.py). Guests run side by side and every call of the host
   awaits the database or a socket; an owner is known by the hash of the user. *)
EXTENDS Integers, FiniteSets

CONSTANTS Users,      \* users, each with one wallet
          Guests,     \* invocations
          Source,     \* the id of the row public rows are appended to
          Rows,       \* ids of further rows, Source not among them
          MaxRows,    \* max_rows_per_source of the granted policy
          Kits,       \* the sets of permissions an administrator may have granted
          Clients,    \* websocket clients of one channel; one that left is gone
          MaxRate,    \* max_messages_per_second of the granted policy
          ClientRate, \* WEBSOCKET_CLIENT_MAX_MESSAGES_PER_SECOND
          NoValue     \* no user, no owner, no row, no wallet

(* The ids are of different kinds, and tables are finite. *)
GuestConstants ==
    /\ NoValue \notin Users \union {Source}
    /\ Source \notin Rows /\ IsFiniteSet(Rows)
    /\ Guests \intersect Clients = {} /\ "channel" \notin Clients
    /\ {MaxRows, MaxRate, ClientRate} \subseteq Nat

VARIABLES permissions,  \* permissions of the installed extension
          grants,       \* users who let the extension pay from their wallet unattended
          watched,      \* users who let it watch the payments of their wallet
          rows,         \* the extension's table: the owner of each row, its source
                        \* and, in the row Source, the wallet the owner names
          guest,        \* who each invocation acts for and how far its call is
          seen,         \* history: whose grant was there while the guest ran
          raced,        \* history: a row was appended, or a wallet billed, after what
                        \* had been read of the rows had changed
          last,         \* history: what a guest did last, for whom, on whose row or wallet
          clients,      \* active_connections of the channel
          gone,         \* clients that were disconnected
          recent,       \* messages of the last second: of the channel, of each client
          sending,      \* to whom the message of each publisher has still to be sent
          missed        \* history: connected when it was published and not sent it yet

hubVars == <<clients, gone, recent, sending, missed>>
vars == <<permissions, grants, watched, rows, guest, seen, raced, last, hubVars>>

Publishers == Guests \union Clients
NoRow == [owner |-> NoValue, source |-> NoValue, wallet |-> NoValue]
Idle == [user |-> NoValue, owner |-> NoValue, event |-> FALSE, call |-> "none",
         target |-> NoValue, count |-> 0]
Nothing == [op |-> "nothing", guest |-> NoValue, by |-> NoValue, whose |-> NoValue]
Ids == Rows \union {Source}

Did(op, g, whose) ==
    last' = [op |-> op, guest |-> g, by |-> guest[g].owner, whose |-> whose]

(* require_auth and required_permission of the host's methods                *)
Authenticated(g) == guest[g].user # NoValue \/ guest[g].event
Permitted(permission) == permission \in permissions
MayCall(g, permission, auth) ==
    /\ guest[g].call = "running"
    /\ auth => Authenticated(g)
    /\ Permitted(permission)
----------------------------------------------------------------------------
Init ==
    /\ permissions \in Kits
    /\ grants = {} /\ watched = {}
    /\ rows = [id \in Ids |-> NoRow]
    /\ guest = [g \in Guests |-> Idle]
    /\ seen = [g \in Guests |-> {}]
    /\ raced = FALSE /\ last = Nothing
    /\ clients = {} /\ gone = {}
    /\ recent = [x \in Clients \union {"channel"} |-> 0]
    /\ sending = [p \in Publishers |-> {}]
    /\ missed = [p \in Publishers |-> {}]

Start(g, user, owner, event) ==
    /\ guest[g] = Idle
    /\ guest' = [guest EXCEPT ![g] = [Idle EXCEPT !.user = user, !.owner = owner,
                                                 !.event = event, !.call = "running"]]
    /\ seen' = [seen EXCEPT ![g] = grants]
    /\ last' = Nothing
    /\ UNCHANGED <<permissions, grants, rows, raced, watched, hubVars>>

(* A route with a user; a public one; a route with an owner context, whose
   owner is that of the source row. A user hides the owner of the route.     *)
(* Where guests only publish, a public route stands for all of them.         *)
StartForUser(g) == \E u \in Users : ~Permitted("publish") /\ Start(g, u, u, FALSE)
StartPublic(g) == Start(g, NoValue, NoValue, FALSE)
StartForSource(g) ==
    /\ rows[Source] # NoRow
    /\ Start(g, NoValue, rows[Source].owner, TRUE)

(* dispatch_wasm_invoice_paid: an invoice paid to the wallet of w runs the
   extension if it is tagged with it, or if w lets it watch; for the owner of
   the row it names, where the policies name a table, or else for the watcher.
   Anybody's invoice may carry the tag and the name of a row.                *)
SourceOwner == rows[Source].owner
InvoicesOwners ==
    {NoValue} \union (IF Permitted("create_invoice_public") THEN {SourceOwner} ELSE {})
Watches(w) == Permitted("watch") /\ w \in watched
EventOwners ==
    {IF owner = NoValue /\ Watches(w) THEN w ELSE owner : w \in Users, owner \in InvoicesOwners}
StartForEvent(g) ==
    \E owner \in EventOwners : ~Permitted("publish") /\ Start(g, NoValue, owner, TRUE)

Finish(g) ==
    /\ guest[g].call = "running"
    /\ guest' = [guest EXCEPT ![g] = Idle]
    /\ seen' = [seen EXCEPT ![g] = {}] /\ last' = Nothing
    /\ UNCHANGED <<permissions, grants, rows, raced, watched, hubVars>>

(* storage_get: WHERE id AND owner; a page is WHERE owner                    *)
OwnersRow(g, id) == rows[id] # NoRow /\ rows[id].owner = guest[g].owner
OwnersPage(g) == {id \in Ids : OwnersRow(g, id)}
GetRow(g, id) ==
    /\ MayCall(g, "read", TRUE) /\ guest[g].owner # NoValue
    /\ OwnersRow(g, id)
    /\ Did("get", g, rows[id].owner)
    /\ UNCHANGED <<permissions, grants, rows, guest, seen, raced, watched, hubVars>>

GetPage(g) ==
    /\ MayCall(g, "read", TRUE) /\ guest[g].owner # NoValue
    /\ \E id \in OwnersPage(g) : Did("get", g, rows[id].owner)
    /\ UNCHANGED <<permissions, grants, rows, guest, seen, raced, watched, hubVars>>

(* storage_get_public shows the public fields of any row, get_public_paginated
   those of the rows of one source.                                          *)
GetPublicRow(g, id) ==
    /\ MayCall(g, "read_public", FALSE) /\ rows[id] # NoRow
    /\ Did("show", g, rows[id].source)
    /\ UNCHANGED <<permissions, grants, rows, guest, seen, raced, watched, hubVars>>

PublicPage(source) == {id \in Ids : rows[id] # NoRow /\ rows[id].source = source}
GetPublicPage(g) ==
    /\ MayCall(g, "read_public", FALSE)
    /\ \E id \in PublicPage(Source) : Did("page", g, rows[id].source)
    /\ UNCHANGED <<permissions, grants, rows, guest, seen, raced, watched, hubVars>>

(* storage_set: INSERT, or UPDATE of a row of the same owner. Any wallet id
   may be stored; it is told apart where public invoices read it.            *)
Nameable(id) == IF id = Source /\ Permitted("create_invoice_public")
                  THEN Users \union {NoValue} ELSE {NoValue}
Changes(id) ==   \* while a guest bills for the wallet it read
    raced' = (raced \/ (id = Source /\ \E h \in Guests : guest[h].call = "bill"))
SetAnyRow(g, id) ==
    /\ MayCall(g, "write", TRUE) /\ guest[g].owner # NoValue
    /\ \E w \in Nameable(id) :
         rows' = IF rows[id] = NoRow
                   THEN [rows EXCEPT ![id] = [NoRow EXCEPT !.owner = guest[g].owner,
                                                           !.wallet = w]]
                   ELSE [rows EXCEPT ![id].wallet = w]
    /\ Did("set", g, rows'[id].owner)
    /\ Changes(id)
    /\ UNCHANGED <<permissions, grants, guest, seen, watched, hubVars>>

SetRow(g, id) ==
    /\ rows[id] # NoRow => rows[id].owner = guest[g].owner
    /\ SetAnyRow(g, id)

storage_delete_row(g, id) ==
    OwnersRow(g, id) /\ rows' = [rows EXCEPT ![id] = NoRow]
DeleteRow(g, id) ==
    /\ MayCall(g, "write", TRUE) /\ guest[g].owner # NoValue
    /\ storage_delete_row(g, id)
    /\ Did("delete", g, rows[id].owner)
    /\ Changes(id)
    /\ UNCHANGED <<permissions, grants, guest, seen, watched, hubVars>>

(* storage_append_public: the owner of the source row, then the count of its
   rows, then an INSERT with an id of its own                                *)
RowsOf(owner) == {id \in Rows : rows[id].owner = owner /\ rows[id].source = Source}

CountUnchecked(g) ==
    /\ MayCall(g, "append_public", FALSE)
    /\ SourceOwner # NoValue
    /\ LET owner == SourceOwner
           count == Cardinality(RowsOf(owner))
       IN guest' = [guest EXCEPT ![g].call = "append", ![g].target = owner,
                                 ![g].count = count]
    /\ last' = Nothing
    /\ UNCHANGED <<permissions, grants, rows, seen, raced, watched, hubVars>>

CountRows(g) == Cardinality(RowsOf(SourceOwner)) < MaxRows /\ CountUnchecked(g)

AppendRow(g, id) ==
    /\ guest[g].call = "append" /\ rows[id] = NoRow
    /\ rows' = [rows EXCEPT ![id] = [NoRow EXCEPT !.owner = guest[g].target,
                                                   !.source = Source]]
    /\ raced' = (raced \/ Cardinality(RowsOf(guest[g].target)) > guest[g].count)
    /\ Did("append", g, guest[g].target)
    /\ guest' = [guest EXCEPT ![g].call = "running", ![g].target = NoValue, ![g].count = 0]
    /\ UNCHANGED <<permissions, grants, seen, watched, hubVars>>

(* wallet.list_user_wallets, wallet.balance and wallet.create_invoice: of a
   user, whose wallets they are                                              *)
UserWallet(g, permission, w) ==
    /\ MayCall(g, permission, TRUE) /\ guest[g].user # NoValue /\ w = guest[g].user
    /\ Did("wallet", g, w)
    /\ UNCHANGED <<permissions, grants, rows, guest, seen, raced, watched, hubVars>>
ListWallets(g) == UserWallet(g, "list", guest[g].user)
WalletBalance(g, w) == UserWallet(g, "balance", w)
CreateInvoice(g, w) == UserWallet(g, "create_invoice", w)

(* wallet.create_invoice_public: the wallet the source row names, read before
   create_payment_request                                                    *)
ReadAnySource(g) ==
    /\ MayCall(g, "create_invoice_public", FALSE)
    /\ \E w \in Users : guest' = [guest EXCEPT ![g].call = "bill", ![g].target = w]
    /\ last' = Nothing
    /\ UNCHANGED <<permissions, grants, rows, seen, raced, watched, hubVars>>

ReadSource(g) ==
    /\ MayCall(g, "create_invoice_public", FALSE)
    /\ rows[Source].wallet # NoValue
    /\ guest' = [guest EXCEPT ![g].call = "bill", ![g].target = rows[Source].wallet]
    /\ last' = Nothing
    /\ UNCHANGED <<permissions, grants, rows, seen, raced, watched, hubVars>>

CreateInvoicePublic(g) ==
    /\ guest[g].call = "bill"
    /\ guest' = [guest EXCEPT ![g].call = "running", ![g].target = NoValue]
    /\ Did("bill", g, guest[g].target)
    /\ UNCHANGED <<permissions, grants, rows, seen, raced, watched, hubVars>>

(* wallet.pay_invoice of a user: only from a wallet of the user's own        *)
PayForUser(g, w) ==
    /\ guest[g].call = "running" /\ guest[g].user # NoValue
    /\ Permitted("pay_invoice") /\ w = guest[g].user
    /\ Did("pay", g, w)
    /\ UNCHANGED <<permissions, grants, rows, guest, seen, raced, watched, hubVars>>

(* wallet.pay_invoice of anybody else: background_payment_extra reads the
   grant of the wallet's owner, then pay_invoice pays                        *)
AllowAlways(g, w) ==
    /\ guest[g].call = "running" /\ guest[g].user = NoValue
    /\ Permitted("pay_invoice_background")
    /\ guest' = [guest EXCEPT ![g].call = "pay", ![g].target = w]
    /\ last' = Nothing
    /\ UNCHANGED <<permissions, grants, rows, seen, raced, watched, hubVars>>

CheckGrant(g, w) == w \in grants /\ AllowAlways(g, w)

PayUnattended(g) ==
    /\ guest[g].call = "pay"
    /\ guest' = [guest EXCEPT ![g].call = "running", ![g].target = NoValue]
    /\ Did("unattended", g, guest[g].target)
    /\ UNCHANGED <<permissions, grants, rows, seen, raced, watched, hubVars>>

(* wallet.pay_lnurl asks the address for an invoice between the checks: of
   the user before, of the grant after. With fetch_only it stops there.      *)
Fetch(g, w) ==
    /\ guest[g].call = "running"
    /\ \/ guest[g].user # NoValue /\ Permitted("pay_invoice") /\ w = guest[g].user
       \/ guest[g].user = NoValue /\ Permitted("pay_invoice_background")
    /\ guest' = [guest EXCEPT ![g].call = "lnurl", ![g].target = w]
    /\ last' = Nothing
    /\ UNCHANGED <<permissions, grants, rows, seen, raced, watched, hubVars>>

Fetched(g) ==
    /\ guest[g].call = "lnurl"
    /\ \/ /\ guest[g].user # NoValue
          /\ guest' = [guest EXCEPT ![g].call = "running", ![g].target = NoValue]
          /\ Did("pay", g, guest[g].target)
       \/ /\ guest[g].user = NoValue /\ guest[g].target \in grants
          /\ guest' = [guest EXCEPT ![g].call = "pay"] /\ last' = Nothing
       \/ /\ guest' = [guest EXCEPT ![g].call = "running", ![g].target = NoValue]
          /\ last' = Nothing
    /\ UNCHANGED <<permissions, grants, rows, seen, raced, watched, hubVars>>

(* The user's own requests (UserExtensions)                                  *)
Grant(u) ==
    /\ u \notin grants /\ Permitted("pay_invoice_background")
    /\ grants' = grants \union {u}
    /\ seen' = [g \in Guests |-> IF guest[g] = Idle THEN {} ELSE seen[g] \union {u}]
    /\ last' = Nothing
    /\ UNCHANGED <<permissions, rows, guest, raced, watched, hubVars>>
Ungrant(u) ==
    /\ u \in grants
    /\ grants' = grants \ {u} /\ last' = Nothing
    /\ UNCHANGED <<permissions, rows, guest, seen, raced, watched, hubVars>>
Watch(u) ==
    /\ Permitted("watch") /\ u \notin watched
    /\ watched' = watched \union {u} /\ last' = Nothing
    /\ UNCHANGED <<permissions, grants, rows, guest, seen, raced, hubVars>>
Unwatch(u) ==
    /\ u \in watched /\ watched' = watched \ {u} /\ last' = Nothing
    /\ UNCHANGED <<permissions, grants, rows, guest, seen, raced, hubVars>>
----------------------------------------------------------------------------
(* The hub sends a message to the connections it has at that moment, one
   after the other in any order, and awaits each of them.                    *)
guestVars == <<permissions, grants, watched, rows, seen, raced, last>>

disconnect(c) ==
    /\ clients' = clients \ {c} /\ gone' = gone \union {c}
    /\ recent' = [recent EXCEPT ![c] = 0]

(* Whoever may publish may be subscribed to.                                 *)
MaySubscribe == Permitted("publish")
Connect(c) ==
    /\ MaySubscribe /\ c \notin clients \union gone
    /\ clients' = clients \union {c}
    /\ UNCHANGED <<guestVars, guest, gone, recent, sending, missed>>

Leave(c) ==
    /\ c \in clients /\ sending[c] = {}
    /\ disconnect(c)
    /\ UNCHANGED <<guestVars, guest, sending, missed>>

(* The rate is of the last second; a message over it is refused, and a
   client that sends one is disconnected.                                    *)
ChannelMay == recent["channel"] < MaxRate
ClientMay(c) == recent[c] < ClientRate
Send(p, to) ==
    /\ sending' = [sending EXCEPT ![p] = to]
    /\ missed' = [missed EXCEPT ![p] = to]

Publish(g) ==
    /\ MayCall(g, "publish", FALSE) /\ ChannelMay
    /\ recent' = [recent EXCEPT !["channel"] = @ + 1]
    /\ Send(g, clients)
    /\ guest' = IF clients = {} THEN guest ELSE [guest EXCEPT ![g].call = "publish"]
    /\ UNCHANGED <<guestVars, clients, gone>>

ClientSends(c) ==
    /\ c \in clients /\ sending[c] = {}
    /\ \/ /\ ClientMay(c)
          /\ recent' = [recent EXCEPT ![c] = @ + 1]
          /\ Send(c, clients \ {c}) /\ UNCHANGED <<clients, gone>>
       \/ /\ ~ClientMay(c)
          /\ disconnect(c) /\ UNCHANGED <<sending, missed>>
    /\ UNCHANGED <<guestVars, guest>>

SecondPasses(x) ==
    /\ recent[x] > 0 /\ recent' = [recent EXCEPT ![x] = @ - 1]
    /\ UNCHANGED <<guestVars, guest, clients, gone, sending, missed>>

(* send_text of a client that left raises, and the next one's turn comes.     *)
Sent(p, rest) ==
    /\ sending' = [sending EXCEPT ![p] = rest]
    /\ guest' = IF p \in Guests /\ rest = {}
                  THEN [guest EXCEPT ![p].call = "running"] ELSE guest

FirstFailureEnds(p) ==   \* the exception leaves the loop
    /\ \E c \in sending[p] :
         \/ /\ c \in clients
            /\ missed' = [missed EXCEPT ![p] = @ \ {c}]
            /\ Sent(p, sending[p] \ {c}) /\ UNCHANGED <<clients, gone, recent>>
         \/ disconnect(c) /\ Sent(p, {}) /\ UNCHANGED missed
    /\ UNCHANGED guestVars

SendText(p) ==
    /\ \E c \in sending[p] :
         /\ Sent(p, sending[p] \ {c})
         /\ \/ /\ c \in clients
               /\ missed' = [missed EXCEPT ![p] = @ \ {c}]
               /\ UNCHANGED <<clients, gone, recent>>
            \/ disconnect(c) /\ UNCHANGED missed
    /\ UNCHANGED guestVars

(* Bound: rows besides Source are set where rows are read.                   *)
Settable == IF Permitted("read") \/ Permitted("read_public") THEN Ids ELSE {Source}

Next ==
    \/ \E g \in Guests :
         \/ StartForUser(g) \/ StartPublic(g) \/ StartForSource(g) \/ StartForEvent(g)
         \/ Finish(g) \/ CountRows(g) \/ PayUnattended(g) \/ Fetched(g) \/ Publish(g)
         \/ GetPage(g) \/ GetPublicPage(g) \/ ListWallets(g)
         \/ ReadSource(g) \/ CreateInvoicePublic(g)
         \/ \E id \in Ids : GetRow(g, id) \/ GetPublicRow(g, id) \/ DeleteRow(g, id)
         \/ \E id \in Settable : SetRow(g, id)
         \/ \E id \in Rows : AppendRow(g, id)
         \/ \E w \in Users : PayForUser(g, w) \/ CheckGrant(g, w) \/ Fetch(g, w)
                            \/ WalletBalance(g, w) \/ CreateInvoice(g, w)
    \/ \E u \in Users : Grant(u) \/ Ungrant(u) \/ Watch(u) \/ Unwatch(u)
    \/ \E c \in Clients : Connect(c) \/ Leave(c) \/ ClientSends(c)
    \/ \E x \in Clients \union {"channel"} : SecondPasses(x)
    \/ \E p \in Publishers : SendText(p)

Spec == Init /\ [][Next]_vars
----------------------------------------------------------------------------
TypeOK ==
    /\ permissions \in Kits /\ grants \union watched \subseteq Users
    /\ rows \in [Ids -> [owner : Users \union {NoValue}, source : {Source, NoValue},
                      wallet : Users \union {NoValue}]]
    /\ guest \in [Guests -> [user : Users \union {NoValue}, owner : Users \union {NoValue},
                             event : BOOLEAN, target : Users \union {NoValue},
                             count : 0..Cardinality(Rows),
                             call : {"none", "running", "append", "bill", "pay",
                                     "lnurl", "publish"}]]
    /\ seen \in [Guests -> SUBSET Users] /\ raced \in BOOLEAN
    /\ last.op \in {"nothing", "get", "show", "page", "set", "delete", "append",
                    "wallet", "bill", "pay", "unattended"}
    /\ clients \union gone \subseteq Clients
    /\ recent \in [Clients \union {"channel"} -> Nat]
    /\ recent["channel"] <= MaxRate /\ \A c \in Clients : recent[c] <= ClientRate
    /\ {sending, missed} \subseteq [Publishers -> SUBSET Clients]

(* A guest reads, writes and pays for whom it runs and for nobody else, and
   without a user it pays only from a wallet whose owner had granted that,
   and bills for the wallet the source row names, but for a row that changed
   after it was read (host.py 104-636, background_payments.py 22-124).                         *)
GuestsActForOwners ==
    /\ last.op \in {"get", "set", "delete", "pay", "wallet"} => last.by = last.whose
    /\ last.op = "unattended" => last.whose \in seen[last.guest]
    /\ last.op = "bill" => raced \/ last.whose = rows[Source].wallet

(* A source gets no more public rows than the policy says, but for appends
   that had counted before another one's row was in (host.py 165-193).       *)
AppendsKeepToLimit ==
    raced \/ \A u \in Users : Cardinality(RowsOf(u)) <= MaxRows

(* A client that was there when a message was published and still is when the
   publisher goes on has been sent it, whoever left or failed before its turn
   (websockets.py 80-115, 155-173).                                          *)
ClientsAreSent ==
    \A p \in Publishers : sending[p] = {} => missed[p] \intersect clients = {}
=============================================================================
