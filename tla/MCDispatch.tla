----------------------------- MODULE MCDispatch -----------------------------
(* How what happened at the node or on the chain reaches those who wait for it. *)
VARIABLES route,   \* the component this behaviour is of
          tmTasks, tmNext, tmCentral, tmQueue, tmRuns, tmGot, tmExcused,
          stKind, stPaid, stPending, stBatch, stAt, stWire, stUp, stHeld, stRaised,
          stRestarts, stBooked, stExcused,
          elCallers, elUpdated, elAt, elSub, elPush, elChain, elSeen, elCloses,
          txQueues, txTask, txSub, txPush, txSeen, txNode, txGot, txMissed, txLate,
          abAdapter, abInvoice, abRow, abStream, abFunds, abCache, abWrong,
          tkKind, tkPaid, tkLate, tkTracked, tkNotices, tkQueue, tkStep, tkDue,
          tkAsked, tkPuts, tkDropped,
          ncUp, ncDrops, ncNotes, ncTable, ncFuture, ncCaller, ncDue, ncInfo, ncForsaken

L == INSTANCE Listeners
S == INSTANCE InvoiceStreams
E == INSTANCE AddressTracker
X == INSTANCE TxTracker
B == INSTANCE AdapterAccounts
K == INSTANCE TrackedInvoices
N == INSTANCE NwcConnection

Routes == {"L", "S", "E", "X", "B", "K", "N"}
lVars == <<tmTasks, tmNext, tmCentral, tmQueue, tmRuns, tmGot, tmExcused>>
sVars == <<stKind, stPaid, stPending, stBatch, stAt, stWire, stUp, stHeld, stRaised,
          stRestarts, stBooked, stExcused>>
eVars == <<elCallers, elUpdated, elAt, elSub, elPush, elChain, elSeen, elCloses>>
xVars == <<txQueues, txTask, txSub, txPush, txSeen, txNode, txGot, txMissed, txLate>>
bVars == <<abAdapter, abInvoice, abRow, abStream, abFunds, abCache, abWrong>>
kVars == <<tkKind, tkPaid, tkLate, tkTracked, tkNotices, tkQueue, tkStep, tkDue,
           tkAsked, tkPuts, tkDropped>>
nVars == <<ncUp, ncDrops, ncNotes, ncTable, ncFuture, ncCaller, ncDue, ncInfo, ncForsaken>>
dispatchVars == <<route, lVars, sVars, eVars, xVars, bVars, kVars, nVars>>

DispatchInit ==
    /\ route \in Routes
    /\ L!Init /\ S!Init /\ E!Init /\ X!Init /\ B!Init /\ K!Init /\ N!Init
    /\ route # "S" => stKind = "push"
    /\ route # "B" => abAdapter = "LndRest"
    /\ route # "K" => tkKind = "nwc"

(* A step of one part leaves the others alone. *)
Rest(p, q, partVars) == IF p = q THEN TRUE ELSE UNCHANGED partVars
Step(p, step) ==
    /\ route = p /\ step /\ UNCHANGED route
    /\ Rest(p, "L", lVars) /\ Rest(p, "S", sVars) /\ Rest(p, "E", eVars) /\ Rest(p, "X", xVars)
    /\ Rest(p, "B", bVars) /\ Rest(p, "K", kVars) /\ Rest(p, "N", nVars)
LStep(step) == Step("L", step)
SStep(step) == Step("S", step)
EStep(step) == Step("E", step)
XStep(step) == Step("X", step)
BStep(step) == Step("B", step)
KStep(step) == Step("K", step)
NStep(step) == Step("N", step)

DispatchNext == \/ LStep(L!Next) \/ SStep(S!Next) \/ EStep(E!Next) \/ XStep(X!Next)
        \/ BStep(B!Next) \/ KStep(K!Next) \/ NStep(N!Next)

(* Every task of the event loop is scheduled, a wait with a timeout ends, and *)
(* a handler ends one way or the other; no server fails for ever, and the     *)
(* consumer of a stream does not raise for ever.  A behaviour is of one part, *)
(* so that a disjunction over parts asks for fairness of each of its actions. *)
DispatchFairness ==
    /\ WF_dispatchVars(\/ LStep(L!Works("core")) \/ SStep(S!StreamReads) \/ EStep(E!Loop)
               \/ XStep(X!Subscribe) \/ KStep(K!GoesOn) \/ BStep(B!Check(abInvoice))
               \/ NStep(N!HandleTimeouts))
    /\ WF_dispatchVars(\/ LStep(L!Works("ext")) \/ SStep(S!Ends) \/ EStep(E!OnStatusChange)
               \/ XStep(X!Answers) \/ NStep(N!Age))
    /\ WF_dispatchVars(LStep(L!Consume("invoice")) \/ XStep(X!EndOfWait))
    /\ WF_dispatchVars(LStep(L!Consume("internal")) \/ XStep(X!Removed))
    /\ WF_dispatchVars(LStep(L!HeartBeat))
    /\ SF_dispatchVars(SStep(S!PollAgain) \/ XStep(X!Looks) \/ KStep(K!FoundPaid))
    /\ SF_dispatchVars(SStep(S!PollPaid) \/ KStep(K!LooksAtAll))
    /\ SF_dispatchVars(SStep(S!Book))

DispatchSpec == DispatchInit /\ [][DispatchNext]_dispatchVars /\ DispatchFairness

(* Type correctness of every component. *)
DispatchTypes ==
    /\ route \in Routes
    /\ L!TypeOK
    /\ S!TypeOK
    /\ E!TypeOK
    /\ X!TypeOK
    /\ B!TypeOK
    /\ K!TypeOK
    /\ N!TypeOK

(* A payment reaches every queue, and a call to NWC ends unless its subscription
   was dropped with its future open (CLOSED, a malformed answer) or a cancelled
   call is due: Listeners.ListenersAreTold (task_manager.py 444-450, 485-493),
   NwcConnection.CallsEnd (wallets/nwc.py 946-984). *)
ListenersAreTold == L!ListenersAreTold /\ N!CallsEnd

(* What the node has settled is booked, over every kind of stream
   (wallets/base.py 188-200, payments.py 1155-1167); the queues of NWC and
   Blink get what is paid, NWC's once (nwc.py 186-409, blink.py 443-581):
   InvoiceStreams.SettledIsBooked, TrackedInvoices.PaidIsQueued, NoneTwice. *)
SettledIsBooked == S!SettledIsBooked /\ [](route = "K" => K!NoneTwice) /\ K!PaidIsQueued

(* A change of an address and the confirmation of a transaction reach those
   who track them: AddressTracker.ChangesAreReported,
   TxTracker.ConfirmationIsReported (utils/electrum.py 743-842, 900-991). *)
TrackersReport == E!ChangesAreReported /\ X!ConfirmationIsReported

(* What the node has received is credited (services/payments.py 389-436,
   1127-1152), and what is shown as its balance is the node's own
   (services/funding_source.py 20-67):
   AdapterAccounts.ReceivedIsCredited, BalanceIsTheNodes. *)
NodeIsBelieved == B!ReceivedIsCredited /\ [](route = "B" => B!BalanceIsTheNodes)

=============================================================================
