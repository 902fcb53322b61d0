---------------------------- MODULE NwcConnection ----------------------------
(***************************************************************************)
(* The connection of the NWC adapter to its relay (wallets/nwc.py,         *)
(* class NWCConnection).  A call registers a subscription and waits on a   *)
(* future; a task resolves it with what the relay sends, another gives up  *)
(* on what is older than ten seconds; who waits may be cancelled, as a     *)
(* payment is after lnbits_funding_source_pay_invoice_wait_seconds.        *)
(***************************************************************************)
EXTENDS Naturals, Sequences, SequencesExt

VARIABLES ncUp,      \* self.connected
          ncDrops,   \* how often the connection was lost
          ncNotes,   \* notification subscriptions in the table, of any connection
          ncTable,   \* self.subscriptions of calls, in the order of the dict
          ncFuture,  \* the future of each call
          ncCaller,  \* who awaits it
          ncDue,     \* calls that are older than the timeout
          ncInfo,    \* self.info: the capabilities that are cached
          ncForsaken \* history: calls taken off the table with their future open

vars == <<ncUp, ncDrops, ncNotes, ncTable, ncFuture, ncCaller, ncDue, ncInfo, ncForsaken>>

Calls == {"info", "pay", "look"}   \* "info": the one that get_info makes
MaxDrops == 1      \* bound
tableVars == <<ncTable, ncFuture, ncCaller, ncDue, ncInfo, ncForsaken>>
linkVars == <<ncUp, ncDrops, ncNotes>>

Init ==
    /\ ncUp = FALSE /\ ncDrops = 0 /\ ncNotes = 0
    /\ ncTable = << >> /\ ncFuture = [c \in Calls |-> "none"] /\ ncDue = {}
    /\ ncCaller = [c \in Calls |-> "idle"] /\ ncInfo = "none" /\ ncForsaken = {}

Registered(c) == c \in ToSet(ncTable)

(* _connect_to_relay and _subscribe_to_notifications: two subscriptions for    *)
(* each connection; those of the last one stay in the table.                   *)
Connect ==
    /\ ~ncUp /\ ncUp' = TRUE /\ ncNotes' = ncNotes + 2 /\ UNCHANGED <<ncDrops, tableVars>>
Drop ==
    /\ ncUp /\ ncDrops < MaxDrops /\ ncUp' = FALSE /\ ncDrops' = ncDrops + 1
    /\ UNCHANGED <<ncNotes, tableVars>>

(* call, and get_info when nothing is cached: _wait_for_connection, then the   *)
(* subscription; what is sent may fail, which leaves it there.                 *)
Call(c) ==
    /\ ncUp /\ ncCaller[c] = "idle" /\ ~Registered(c)
    /\ IF c = "info" THEN ncInfo = "none" ELSE ncInfo # "none"
    /\ ncTable' = Append(ncTable, c) /\ ncFuture' = [ncFuture EXCEPT ![c] = "open"]
    /\ \/ ncCaller' = [ncCaller EXCEPT ![c] = "waits"] /\ UNCHANGED ncInfo
       \/ /\ ncCaller' = [ncCaller EXCEPT ![c] = "ended"]
          /\ ncInfo' = IF c = "info" THEN "minimum" ELSE ncInfo
    /\ UNCHANGED ncDue /\ ncForsaken' = ncForsaken \ {c} /\ UNCHANGED linkVars

(* The next call of its kind; what get_info found is cached for good.          *)
Again(c) ==
    /\ ncCaller[c] = "ended" /\ c # "info" /\ ncCaller' = [ncCaller EXCEPT ![c] = "idle"]
    /\ UNCHANGED <<ncTable, ncFuture, ncDue, ncInfo, ncForsaken, linkVars>>

(* A payment that takes too long: wait_for cancels its task, and the future.   *)
Cancel(c) ==
    /\ c = "pay" /\ ncCaller[c] = "waits"
    /\ ncCaller' = [ncCaller EXCEPT ![c] = "ended"]
    /\ ncFuture' = [ncFuture EXCEPT ![c] = IF @ = "open" THEN "cancelled" ELSE @]
    /\ UNCHANGED <<ncTable, ncDue, ncInfo, ncForsaken, linkVars>>

-----------------------------------------------------------------------------
(* The futures of these calls are resolved: who awaits them goes on; get_info  *)
(* takes the least there is for an answer that is an error.                    *)
Resolve(calls, with) ==
    LET open == {c \in calls : ncFuture[c] = "open"} IN
    /\ ncFuture' = [c \in Calls |-> IF c \in open THEN "done" ELSE ncFuture[c]]
    /\ ncCaller' = [c \in Calls |-> IF c \in open THEN "ended" ELSE ncCaller[c]]
    /\ ncInfo' = IF "info" \in open /\ ncCaller["info"] = "waits" THEN with ELSE ncInfo

TakeOff(calls) ==
    ncTable' = SelectSeq(ncTable, LAMBDA c : c \notin calls) /\ ncDue' = ncDue \ calls

(* _on_event_message, _on_ok_message: the subscription is closed first; then   *)
(* the future of a call that was cancelled cannot be resolved, which is logged *)
Answer(c) ==
    /\ ncUp /\ Registered(c) /\ TakeOff({c})
    /\ \/ Resolve({c}, "provided")
       \/ Resolve({c}, "minimum")   \* an error, or the relay rejects the event
    /\ UNCHANGED <<ncForsaken, linkVars>>

(* An answer that cannot be decrypted or parsed, of another method or without  *)
(* a result, and CLOSED by the relay: the subscription is gone, and its future *)
(* is not resolved.                                                            *)
Forsake(c) ==
    /\ ncUp /\ Registered(c) /\ TakeOff({c})
    /\ ncForsaken' = IF ncFuture[c] = "open" THEN ncForsaken \union {c} ELSE ncForsaken
    /\ UNCHANGED <<ncFuture, ncCaller, ncInfo, linkVars>>

-----------------------------------------------------------------------------
(* Ten seconds pass, for the oldest first: the table is in the order of age.   *)
Fresh == SelectSeq(ncTable, LAMBDA c : c \notin ncDue)
Age ==
    /\ Fresh # << >> /\ ncDue' = ncDue \union {Head(Fresh)}
    /\ UNCHANGED <<ncTable, ncFuture, ncCaller, ncInfo, ncForsaken, linkVars>>

(* _handle_timeouts: those before the first whose future cannot be given an    *)
(* exception are given one; without such a one all that are due are closed.    *)
DueWhenUp == SelectSeq(ncTable, LAMBDA c : c \in ncDue /\ ncUp)
Due == SelectSeq(ncTable, LAMBDA c : c \in ncDue)
Blocked == {n \in DOMAIN Due : ncFuture[Due[n]] # "open"}
HandleTimeouts ==
    /\ Due # << >>
    /\ IF Blocked = {}
       THEN Resolve(ToSet(Due), "minimum") /\ TakeOff(ToSet(Due))
       ELSE /\ UNCHANGED <<ncTable, ncDue>>
            /\ Resolve({Due[n] : n \in {m \in DOMAIN Due : \A b \in Blocked : m < b}}, "minimum")
    /\ UNCHANGED <<ncForsaken, linkVars>>

Next ==
    \/ Connect \/ Drop \/ Age \/ HandleTimeouts
    \/ \E c \in Calls : Call(c) \/ Again(c) \/ Cancel(c) \/ Answer(c) \/ Forsake(c)

-----------------------------------------------------------------------------
TypeOK ==
    /\ ncUp \in BOOLEAN /\ ncDrops \in 0..MaxDrops /\ ncNotes \in 0..(2 * (MaxDrops + 1))
    /\ ToSet(ncTable) \subseteq Calls /\ IsInjective(ncTable)
    /\ ncFuture \in [Calls -> {"none", "open", "done", "cancelled"}]
    /\ ncCaller \in [Calls -> {"idle", "waits", "ended"}]
    /\ ncDue \subseteq Calls /\ ncForsaken \subseteq Calls
    /\ ncInfo \in {"none", "minimum", "provided"}

(* Whoever calls is answered or given up on, whatever the relay does and while *)
(* the connection is down (nwc.py 946-984).  Two are not: whose subscription   *)
(* was forsaken, which no timeout finds, waits for ever; and while a call that *)
(* was cancelled is due nobody's timeout is sure.                              *)
Jammed == Blocked # {}
CallsEnd == \A c \in Calls : []<>(ncCaller[c] = "waits" => c \in ncForsaken \/ Jammed)
=============================================================================
