------------------------------ MODULE NodeManager ------------------------------
(***************************************************************************)
(* The node behind the funding source (nodes/base.py, lndrest.py, cln.py,  *)
(* phoenixd.py, core/views/node_api.py): its payments or invoices, shown   *)
(* page by page, the newest first, and its channels.  A page of LND is     *)
(* counted back from a cached number of rows, one of CLN cut out of a      *)
(* cached list, one of phoenixd asked for as it is.  The three lists of    *)
(* LND's channels are asked for at once, and answered in any order.        *)
(***************************************************************************)
EXTENDS Naturals, Sequences, FiniteSets

CONSTANTS Others,    \* requests of others than the reader
          MaxRows,   \* bounds: payments of the node,
          MaxPage,   \* pages asked for
          Limit      \* filters.limit

VARIABLES nmKind,    \* what is looked at, of which node
          nmRows,    \* how many payments the node has; the n-th is the n-th made
          nmCache,   \* node:payments_count of LND, the list of CLN: [count, oldest], or Nothing
          nmTask,    \* requests: [at, page, count]
          nmPages,   \* how many pages the first reader has seen
          nmSeen,    \* the rows on them
          nmTotal,   \* the total he was last told
          nmFirst,   \* history: the rows there were on his first page
          nmShifted, \* history: what the pages are counted from has changed under him
          nmChannel, \* a channel, as its node has it
          nmLists,   \* the lists of channels not answered yet
          nmFound,   \* the entries of the channel: [list, state]
          nmWas      \* history: how the channel was since it was asked for

vars == <<nmKind, nmRows, nmCache, nmTask, nmPages, nmSeen, nmTotal, nmFirst, nmShifted,
          nmChannel, nmLists, nmFound, nmWas>>

Reader == 0          \* he who goes through the pages
Requests == {Reader} \union Others
Pagers == {"lnd", "clnPayments", "clnInvoices", "phoenixd"}
Channels == {"lndChannels", "clnChannels", "phoenixdChannels"}
Nothing == [count |-> 0, oldest |-> FALSE]
Task == [at : {"idle", "count", "ask"}, page : 0..MaxPage, count : 0..MaxRows]
Idle == [at |-> "idle", page |-> 0, count |-> 0]
Lesser(a, b) == IF a < b THEN a ELSE b
Newest(count) == [n \in 1..count |-> count + 1 - n]
Oldest(count) == [n \in 1..count |-> n]
Cut(rows, page) == SubSeq(rows, page * Limit + 1, Lesser((page + 1) * Limit, Len(rows)))

ManagerConstants ==
    Reader \notin Others /\ MaxRows \in Nat /\ MaxPage \in Nat /\ Limit \in Nat \ {0}

Init ==
    /\ nmKind \in Pagers \union Channels
    /\ nmRows \in IF nmKind \in Pagers THEN 0..MaxRows ELSE {0}
    /\ nmCache = Nothing /\ nmTask = [t \in Requests |-> Idle]
    /\ nmPages = 0 /\ nmSeen = << >> /\ nmTotal = 0 /\ nmFirst = 0 /\ nmShifted = FALSE
    /\ nmChannel \in IF nmKind \in Channels THEN {"none", "active"} ELSE {"none"}
    /\ nmLists = {} /\ nmFound = {} /\ nmWas = {}

channelVars == <<nmChannel, nmLists, nmFound, nmWas>>
readerVars == <<nmPages, nmSeen, nmTotal, nmFirst>>
IsCln == nmKind \in {"clnPayments", "clnInvoices"}
Reading == nmPages > 0

-----------------------------------------------------------------------------
(* The rows of a page.                                                         *)

(* LndRestNode.get_payments and get_invoices: those before an index, and the   *)
(* last of all if it is 0.                                                     *)
index_offset(page, count) ==
    IF page > 0 /\ count > 0
    THEN IF count + 1 > page * Limit THEN count + 1 - page * Limit ELSE 0
    ELSE 0
LndPage(page, count) ==
    LET last == IF index_offset(page, count) = 0 THEN nmRows ELSE index_offset(page, count) - 1
    IN Cut(Newest(last), 0)
LndTotal(page, count) == IF page = 0 THEN nmRows ELSE count

(* CoreLightningNode.get_invoices turns the cached list itself round, each     *)
(* time it is served.                                                          *)
ClnRows(list) == IF list.oldest THEN Oldest(list.count) ELSE Newest(list.count)
Served(list) == IF nmKind = "clnInvoices" THEN [list EXCEPT !.oldest = ~@] ELSE list

(* PhoenixdNode._history: one row more than is shown, for the total.           *)
HistoryWithoutExtra(page) ==
    [rows |-> Cut(Newest(nmRows), page), total |-> page * Limit + Len(Cut(Newest(nmRows), page))]
History(page) ==
    [rows |-> Cut(Newest(nmRows), page), total |-> Lesser(page * Limit + Limit + 1, nmRows)]

(* The reader goes on to the next page; nobody remembers what others saw.      *)
Shows(t, rows, total, first) ==
    IF t = Reader
    THEN /\ nmPages' = nmPages + 1 /\ nmSeen' = nmSeen \o rows /\ nmTotal' = total
         /\ nmFirst' = IF Reading THEN nmFirst ELSE first
    ELSE UNCHANGED readerVars

Begins(t, page) ==
    /\ nmTask[t] = Idle
    /\ t = Reader => page = nmPages /\ (Reading => page * Limit < nmTotal)

-----------------------------------------------------------------------------
(* LND: a later page needs the count, and asks for the first if there is none. *)
LndBegin(t, page) ==
    /\ nmKind = "lnd" /\ Begins(t, page)
    /\ nmTask' = [nmTask EXCEPT ![t] =
         [at |-> IF page > 0 /\ nmCache.count = 0 THEN "count" ELSE "ask", page |-> page,
          count |-> nmCache.count]]
    /\ UNCHANGED <<nmKind, nmRows, nmCache, readerVars, nmShifted, channelVars>>
LndCount(t) ==
    /\ nmTask[t].at = "count"
    /\ nmCache' = [Nothing EXCEPT !.count = nmRows]
    /\ nmTask' = [nmTask EXCEPT ![t] = [nmTask[t] EXCEPT !.at = "ask", !.count = nmRows]]
    /\ UNCHANGED <<nmKind, nmRows, readerVars, nmShifted, channelVars>>

(* The count a page was cut by is cached again, for as long as a new one: what *)
(* another first page has found meanwhile is lost.                             *)
LndAnswer(t) ==
    LET task == nmTask[t] IN
    /\ nmKind = "lnd" /\ task.at = "ask"
    /\ Shows(t, LndPage(task.page, task.count), LndTotal(task.page, task.count), nmRows)
    /\ nmCache' = [Nothing EXCEPT !.count = LndTotal(task.page, task.count)]
    /\ nmTask' = [nmTask EXCEPT ![t] = Idle]
    /\ nmShifted' = \/ nmShifted
                    \/ t \in Others /\ Reading /\ task.page = 0
                    \/ t = Reader /\ ~Reading /\ \E o \in Others : nmTask[o].page > 0
    /\ UNCHANGED <<nmKind, nmRows, channelVars>>

(* CLN: cache.save_result, which takes an empty list of payments for none.     *)
ClnCached(t, page) ==
    LET list == Served(nmCache) IN
    /\ IsCln /\ nmCache.count > 0 /\ Begins(t, page)
    /\ Shows(t, Cut(ClnRows(list), page), list.count, list.count)
    /\ nmCache' = list
    /\ nmShifted' = (nmShifted \/ nmKind = "clnInvoices")
    /\ UNCHANGED <<nmKind, nmRows, nmTask, channelVars>>
ClnBegin(t, page) ==
    /\ IsCln /\ nmCache.count = 0 /\ Begins(t, page)
    /\ nmTask' = [nmTask EXCEPT ![t] = [at |-> "ask", page |-> page, count |-> 0]]
    /\ UNCHANGED <<nmKind, nmRows, nmCache, readerVars, nmShifted, channelVars>>
ClnAnswer(t) ==
    LET list == Served([count |-> nmRows, oldest |-> nmKind = "clnInvoices"]) IN
    /\ IsCln /\ nmTask[t].at = "ask"
    /\ Shows(t, Cut(ClnRows(list), nmTask[t].page), nmRows, nmRows)
    /\ nmCache' = list /\ nmTask' = [nmTask EXCEPT ![t] = Idle]
    /\ nmShifted' = (nmShifted \/ Reading)
    /\ UNCHANGED <<nmKind, nmRows, channelVars>>

(* phoenixd. *)
PhoenixdAnswer(t, page) ==
    /\ nmKind = "phoenixd" /\ Begins(t, page)
    /\ Shows(t, History(page).rows, History(page).total, nmRows)
    /\ UNCHANGED <<nmKind, nmRows, nmCache, nmTask, nmShifted, channelVars>>

(* A request fails, and is made again or not. *)
Fails(t) ==
    /\ nmTask[t] # Idle /\ nmTask' = [nmTask EXCEPT ![t] = Idle]
    /\ UNCHANGED <<nmKind, nmRows, nmCache, readerVars, nmShifted, channelVars>>

(* The node makes a payment, which moves the pages of phoenixd; ten seconds    *)
(* pass, or another funding source is configured.                              *)
NodePays ==
    /\ nmKind \in Pagers /\ nmRows < MaxRows /\ nmRows' = nmRows + 1
    /\ nmShifted' = (nmShifted \/ (nmKind = "phoenixd" /\ Reading))
    /\ UNCHANGED <<nmKind, nmCache, nmTask, readerVars, channelVars>>
Expire ==
    /\ nmCache # Nothing /\ nmCache' = Nothing
    /\ nmShifted' = (nmShifted \/ Reading)
    /\ UNCHANGED <<nmKind, nmRows, nmTask, readerVars, channelVars>>

-----------------------------------------------------------------------------
(* What a node calls a channel, through its life.                              *)
Lives == {"none", "opening", "active", "inactive", "shutting", "closing", "closed"}
Moves ==
    {<<"none", "opening">>, <<"opening", "active">>, <<"active", "inactive">>,
     <<"inactive", "active">>, <<"active", "shutting">>, <<"shutting", "closing">>,
     <<"active", "closing">>, <<"inactive", "closing">>, <<"closing", "closed">>}
ClnNames == [none |-> {}, opening |-> {"CHANNELD_AWAITING_LOCKIN", "DUALOPEND_AWAITING_LOCKIN"},
             active |-> {"CHANNELD_NORMAL"}, inactive |-> {"CHANNELD_NORMAL"},
             shutting |-> {"CHANNELD_SHUTTING_DOWN", "CLOSINGD_SIGEXCHANGE"},
             closing |-> {"AWAITING_UNILATERAL", "FUNDING_SPEND_SEEN", "CLOSINGD_COMPLETE"},
             closed |-> {"ONCHAIN"}]
PhoenixdNames == [none |-> {}, opening |-> {"WaitForFundingConfirmed", "WaitForChannelReady"},
                  active |-> {"Normal"}, inactive |-> {"Offline", "Syncing"},
                  shutting |-> {"ShuttingDown", "Negotiating"}, closing |-> {"Closing"},
                  closed |-> {"Closed"}]

(* CoreLightningNode._parse_state *)
ClnStateShutting(name) ==
    IF name \in {"CHANNELD_NORMAL", "CHANNELD_SHUTTING_DOWN"} THEN "ACTIVE" ELSE "INACTIVE"
ClnState(name) ==
    CASE name = "CHANNELD_NORMAL" -> "ACTIVE"
      [] name \in {"AWAITING_UNILATERAL", "CHANNELD_SHUTTING_DOWN", "CHANNELD_AWAITING_LOCKIN"} -> "PENDING"
      [] name \in {"CLOSINGD_COMPLETE", "CLOSINGD_SIGEXCHANGE", "ONCHAIN"} -> "CLOSED"
      [] OTHER -> "INACTIVE"

(* PhoenixdNode._channel *)
PhoenixdState(name) ==
    CASE name = "Normal" -> "ACTIVE"
      [] name = "Closed" -> "CLOSED"
      [] name \in PhoenixdNames.opening -> "PENDING"
      [] OTHER -> "INACTIVE"

(* LndRestNode.get_channels: the list a channel is in, and what it is taken for. *)
LndEntries(list) ==
    CASE list = "normal" /\ nmChannel = "active" -> {"ACTIVE"}
      [] list = "normal" /\ nmChannel = "inactive" -> {"INACTIVE"}
      [] list = "pending" /\ nmChannel = "opening" -> {"PENDING"}
      [] list = "pending" /\ nmChannel \in {"shutting", "closing"} -> {"CLOSED"}
      [] list = "closed" /\ nmChannel = "closed" -> {"CLOSED"}
      [] OTHER -> {}
LndLists == {"normal", "pending", "closed"}
AskedLists == IF nmKind = "lndChannels" THEN LndLists ELSE {"all"}
OneOf(names, StateOf(_)) == {{StateOf(name)} : name \in names} \union (IF names = {} THEN {{}} ELSE {})
Entries(list) ==
    CASE nmKind = "lndChannels" -> {LndEntries(list)}
      [] nmKind = "clnChannels" -> OneOf(ClnNames[nmChannel], ClnState)
      [] nmKind = "phoenixdChannels" -> OneOf(PhoenixdNames[nmChannel], PhoenixdState)

pageVars == <<nmKind, nmRows, nmCache, nmTask, readerVars, nmShifted>>
AskChannels ==
    /\ nmKind \in Channels /\ nmWas = {} /\ nmLists' = AskedLists /\ nmFound' = {} /\ nmWas' = {nmChannel}
    /\ UNCHANGED <<pageVars, nmChannel>>
AnswerList(list) ==
    /\ list \in nmLists /\ nmLists' = nmLists \ {list}
    /\ \E states \in Entries(list) :
         nmFound' = nmFound \union {[list |-> list, state |-> s] : s \in states}
    /\ UNCHANGED <<pageVars, nmChannel, nmWas>>

Becomes(to) ==
    /\ nmKind \in Channels /\ nmChannel' = to
    /\ nmWas' = IF nmLists = {} THEN nmWas ELSE nmWas \union {to}
    /\ UNCHANGED <<pageVars, nmLists, nmFound>>

(* open_channel, and close_channel, whose answer LND does not wait for; phoenixd *)
(* opens channels by itself.                                                     *)
OpenChannel == nmChannel = "none" /\ nmKind # "phoenixdChannels" /\ Becomes("opening")
CloseChannel ==
    /\ nmChannel \in {"active", "inactive"}
    /\ \E to \in {"shutting", "closing"} : <<nmChannel, to>> \in Moves /\ Becomes(to)

(* By its peer, by the chain, or by the node itself. *)
Move(to) == <<nmChannel, to>> \in Moves /\ Becomes(to)

Next ==
    /\ ~nmShifted                 \* bound: a behaviour is followed until an excuse
    /\ \/ \E t \in Requests :
            \/ LndCount(t) \/ LndAnswer(t) \/ ClnAnswer(t) \/ Fails(t)
            \/ \E page \in 0..MaxPage : \/ LndBegin(t, page) \/ ClnCached(t, page)
                                        \/ ClnBegin(t, page) \/ PhoenixdAnswer(t, page)
       \/ NodePays \/ Expire \/ AskChannels \/ OpenChannel \/ CloseChannel
       \/ \E list \in LndLists \union {"all"} : AnswerList(list)
       \/ \E to \in Lives : Move(to)

Spec == Init /\ [][Next]_vars

-----------------------------------------------------------------------------
TypeOK ==
    /\ nmKind \in Pagers \union Channels /\ nmRows \in 0..MaxRows
    /\ nmCache \in [count : 0..MaxRows, oldest : BOOLEAN]
    /\ nmTask \in [Requests -> Task]
    /\ nmPages \in Nat /\ nmSeen \in Seq(1..MaxRows) /\ nmTotal \in 0..MaxRows
    /\ nmFirst \in 0..MaxRows /\ nmShifted \in BOOLEAN
    /\ nmChannel \in Lives /\ nmLists \subseteq LndLists \union {"all"} /\ nmWas \subseteq Lives
    /\ nmFound \subseteq [list : LndLists \union {"all"},
                          state : {"ACTIVE", "INACTIVE", "PENDING", "CLOSED"}]

(* Who goes through the pages sees each row of the time of the first page once, *)
(* the newest first, and is told of no end before the last, whatever the node   *)
(* pays meanwhile and others look at; unless a first page of theirs, an older    *)
(* request or ten seconds change what the pages are counted from, a row is added *)
(* to phoenixd's, or CLN's cached invoices are served again.                     *)
PagesAreWhole ==
    ~nmShifted /\ Reading =>
        /\ nmSeen = SubSeq(Newest(nmFirst), 1, Lesser(nmPages * Limit, nmFirst))
        /\ nmPages * Limit < nmTotal \/ Len(nmSeen) = nmFirst

(* ChannelStats.from_list, the channel taken for the unit. *)
total_capacity == Cardinality({e \in nmFound : e.state = "ACTIVE"})

(* A channel is listed as it was while it was asked for, as active only when it *)
(* was open; one that did not change is listed once, LND's three answers in any  *)
(* order, and the capacity of none is counted twice.                             *)
ShownAs == [opening |-> {"PENDING", "INACTIVE"}, active |-> {"ACTIVE"},
            inactive |-> {"ACTIVE", "INACTIVE"}, shutting |-> {"PENDING", "INACTIVE", "CLOSED"},
            closing |-> {"PENDING", "INACTIVE", "CLOSED"}, closed |-> {"CLOSED"}]
ChannelsAreTrue ==
    /\ \A e \in nmFound : \E was \in nmWas \ {"none"} : e.state \in ShownAs[was]
    /\ total_capacity <= 1
    /\ nmWas # {} /\ nmLists = {} /\ Cardinality(nmWas) = 1 /\ nmWas # {"none"} => Cardinality(nmFound) = 1
=============================================================================
