--------------------------- MODULE AddressTracker ---------------------------
(***************************************************************************)
(* utils/electrum.py: the watch on one on-chain address, shared by the     *)
(* callers that track it.  The loop connects to the Electrum server,       *)
(* brings the subscriptions up to date, reporting the address as it        *)
(* subscribes, and waits: for a change of the callers, for the connection  *)
(* to close, or for half a minute.  A push reports the address too, when   *)
(* it is still among the subscribed ones.                                  *)
(***************************************************************************)
EXTENDS Naturals

VARIABLES elCallers,  \* who tracks the address: the reference count and the queues
          elUpdated,  \* the event add and remove set
          elAt,       \* the loop: down | sync | report | drop | wait
          elSub,      \* the address is in the loop's dict of subscriptions
          elPush,     \* a push is on the wire
          elChain,    \* the state of the address: which change of it is the last
          elSeen,     \* the last change each caller has been told, NotTold if none
          elCloses    \* bound: how often the connection closed

vars == <<elCallers, elUpdated, elAt, elSub, elPush, elChain, elSeen, elCloses>>

Callers == {"ws1", "ws2"}
NotTold == 0
Versions == 1..3          \* bound: how often the address changes
MaxCloses == 2            \* bound

Init ==
    /\ elCallers = {} /\ elUpdated = FALSE /\ elAt = "down" /\ elSub = FALSE /\ elPush = FALSE
    /\ elChain = 1 /\ elSeen = [c \in Callers |-> NotTold] /\ elCloses = 0

(* register_queue and add: the first caller sets the event. *)
Track(c) ==
    /\ c \notin elCallers
    /\ elCallers' = elCallers \union {c}
    /\ elUpdated' = (elUpdated \/ elCallers = {})
    /\ elSeen' = [elSeen EXCEPT ![c] = NotTold]
    /\ UNCHANGED <<elAt, elSub, elPush, elChain, elCloses>>

(* unregister_queue and remove: the last caller sets it. *)
Untrack(c) ==
    /\ c \in elCallers
    /\ elCallers' = elCallers \ {c}
    /\ elUpdated' = (elUpdated \/ elCallers = {c})
    /\ UNCHANGED <<elAt, elSub, elPush, elChain, elSeen, elCloses>>

(* The address is paid, or confirms: the server pushes to a subscriber. *)
Change ==
    /\ elChain + 1 \in Versions
    /\ elChain' = elChain + 1
    /\ elPush' = elSub
    /\ UNCHANGED <<elCallers, elUpdated, elAt, elSub, elSeen, elCloses>>

(* _fetch_and_dispatch: what the server says now, to every caller's queue. *)
Report == elSeen' = [c \in Callers |-> IF c \in elCallers THEN elChain ELSE elSeen[c]]

Connect ==
    /\ elAt = "down"
    /\ elAt' = "sync" /\ elSub' = FALSE
    /\ UNCHANGED <<elCallers, elUpdated, elPush, elChain, elSeen, elCloses>>

(* _sync_subscriptions: what is wanted is read once, when it starts. *)
Sync ==
    /\ elAt = "sync" /\ elUpdated' = FALSE
    /\ LET subscribe == elCallers # {} /\ ~elSub
       IN /\ elSub' = (elSub \/ subscribe)
          /\ elAt' = IF subscribe THEN "report" ELSE "drop"
    /\ UNCHANGED <<elCallers, elPush, elChain, elSeen, elCloses>>

ReportFirst ==
    /\ elAt = "report" /\ elAt' = "drop" /\ Report
    /\ UNCHANGED <<elCallers, elUpdated, elSub, elPush, elChain, elCloses>>

(* The subscriptions that are not wanted: an address is looked for among      *)
(* script hashes, so this is every one of them.                               *)
DropUnwanted ==
    /\ elAt = "drop" /\ elAt' = "wait" /\ elSub' = FALSE
    /\ UNCHANGED <<elCallers, elUpdated, elPush, elChain, elSeen, elCloses>>

(* _wait_for_change_or_close: the event, or half a minute. *)
WakesOnChange == elAt = "wait" /\ elUpdated
Wakes == elAt = "wait"
Wake ==
    /\ Wakes /\ elAt' = "sync"
    /\ UNCHANGED <<elCallers, elUpdated, elSub, elPush, elChain, elSeen, elCloses>>

(* on_status_change: a script hash that is not subscribed is nobody's. *)
OnStatusChange ==
    /\ elPush /\ elAt # "down" /\ elPush' = FALSE
    /\ IF elSub THEN Report ELSE UNCHANGED elSeen
    /\ UNCHANGED <<elCallers, elUpdated, elAt, elSub, elChain, elCloses>>

(* The connection closes, or a call on it fails: the loop starts again. *)
Close ==
    /\ elAt # "down" /\ elCloses < MaxCloses
    /\ elAt' = "down" /\ elPush' = FALSE /\ elCloses' = elCloses + 1
    /\ UNCHANGED <<elCallers, elUpdated, elSub, elChain, elSeen>>

Next ==
    \/ \E c \in Callers : Track(c) \/ Untrack(c)
    \/ Change \/ Connect \/ Sync \/ ReportFirst \/ DropUnwanted \/ Wake \/ OnStatusChange \/ Close

(* The loop's next step. *)
Loop == Connect \/ Sync \/ ReportFirst \/ DropUnwanted \/ Wake

TypeOK ==
    /\ elCallers \subseteq Callers /\ elUpdated \in BOOLEAN /\ elSub \in BOOLEAN /\ elPush \in BOOLEAN
    /\ elAt \in {"down", "sync", "report", "drop", "wait"}
    /\ elChain \in Versions /\ elSeen \in [Callers -> Versions \union {NotTold}]
    /\ elCloses \in 0..MaxCloses

(* Whoever tracks an address is told, in the end, of every state it came to   *)
(* or of a later one (electrum.py 743-842), though every pass of the loop     *)
(* drops the subscription it has just made: the passes themselves report.     *)
ChangesAreReported ==
    []<>(\A c \in elCallers : elSeen[c] >= elChain)
=============================================================================
