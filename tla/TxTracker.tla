------------------------------ MODULE TxTracker ------------------------------
(***************************************************************************)
(* utils/electrum.py and task_manager.py: the watch on one transaction,    *)
(* shared by the websockets that asked for it.  Its task subscribes, looks *)
(* once, and waits for a push; it ends when the transaction is confirmed   *)
(* and stays in the list of tasks until the heartbeat removes it.          *)
(***************************************************************************)
EXTENDS Naturals, FiniteSets

VARIABLES txQueues,  \* the registered queues
          txTask,    \* the task "ws_tx_<txid>": none | connect | look | wait | done
          txSub,     \* the connection has subscribed
          txPush,    \* a push is on the wire
          txSeen,    \* confirmed_event of the connection
          txNode,    \* the transaction is confirmed
          txGot,     \* the queues that were told so
          txMissed,  \* history: a look that failed after the last chance of a push
          txLate     \* history: queues registered between that news and the task's removal

vars == <<txQueues, txTask, txSub, txPush, txSeen, txNode, txGot, txMissed, txLate>>

Queues == {"q1", "q2", "q3"}

Init ==
    /\ txQueues = {} /\ txTask = "none" /\ txSub = FALSE /\ txPush = FALSE /\ txSeen = FALSE
    /\ txNode = FALSE /\ txGot = {} /\ txMissed = FALSE /\ txLate = {}

NewConnection == txSub' = FALSE /\ txPush' = FALSE /\ txSeen' = FALSE /\ txMissed' = FALSE

(* register_ws_tx_queue: a task is started unless one of that name is listed. *)
Register(q) ==
    /\ q \notin txQueues \union txGot
    /\ txQueues' = txQueues \union {q}
    /\ IF txTask = "none"
       THEN txTask' = "connect" /\ NewConnection /\ UNCHANGED txLate
       ELSE /\ txLate' = IF txTask = "done" \/ txSeen THEN txLate \union {q} ELSE txLate
            /\ UNCHANGED <<txTask, txSub, txPush, txSeen, txMissed>>
    /\ UNCHANGED <<txNode, txGot>>

(* unregister_ws_tx_queue: with the last queue goes the task. *)
Unregister(q) ==
    /\ q \in txQueues
    /\ txQueues' = txQueues \ {q} /\ txLate' = txLate \ {q}
    /\ txTask' = IF txQueues = {q} THEN "none" ELSE txTask
    /\ UNCHANGED <<txSub, txPush, txSeen, txNode, txGot, txMissed>>

(* _heart_beat. *)
Removed ==
    /\ txTask = "done" /\ txTask' = "none"
    /\ UNCHANGED <<txQueues, txSub, txPush, txSeen, txNode, txGot, txMissed, txLate>>

Confirm ==
    /\ ~txNode /\ txNode' = TRUE /\ txPush' = txSub
    /\ UNCHANGED <<txQueues, txTask, txSub, txSeen, txGot, txMissed, txLate>>

Told == txGot' = IF txNode THEN txGot \union txQueues ELSE txGot

(* _track_once: the subscription comes before the first look. *)
ConnectOnly ==
    /\ txTask = "connect" /\ txTask' = "look" /\ NewConnection
    /\ UNCHANGED <<txQueues, txNode, txGot, txLate>>
Subscribe ==
    /\ txTask = "connect" /\ txTask' = "look"
    /\ txSub' = TRUE /\ txPush' = FALSE /\ txSeen' = FALSE /\ txMissed' = FALSE
    /\ UNCHANGED <<txQueues, txNode, txGot, txLate>>

FirstLook ==
    /\ txTask = "look" /\ Told
    /\ txTask' = IF txNode THEN "done" ELSE "wait"
    /\ txSeen' = (txSeen \/ txNode)
    /\ UNCHANGED <<txQueues, txSub, txPush, txNode, txMissed, txLate>>

(* _fetch_status answers "unconfirmed" when both of its calls fail. *)
FirstLookFails ==
    /\ txTask = "look" /\ txTask' = "wait" /\ txMissed' = TRUE
    /\ UNCHANGED <<txQueues, txSub, txPush, txSeen, txNode, txGot, txLate>>

OnChange ==
    /\ txPush /\ txPush' = FALSE /\ txTask \in {"look", "wait"}
    /\ Told /\ txSeen' = TRUE
    /\ UNCHANGED <<txQueues, txTask, txSub, txNode, txMissed, txLate>>

OnChangeFails ==
    /\ txPush /\ txPush' = FALSE /\ txTask \in {"look", "wait"}
    /\ txMissed' = TRUE
    /\ UNCHANGED <<txQueues, txTask, txSub, txSeen, txNode, txGot, txLate>>

(* The wait looks at confirmed_event every half minute. *)
EndOfWait ==
    /\ txTask = "wait" /\ txSeen /\ txTask' = "done"
    /\ UNCHANGED <<txQueues, txSub, txPush, txSeen, txNode, txGot, txMissed, txLate>>

(* The connection closes, or a call on it fails. *)
Close ==
    /\ txTask \in {"look", "wait"}
    /\ txTask' = IF txSeen THEN "done" ELSE "connect"
    /\ txPush' = FALSE
    /\ UNCHANGED <<txQueues, txSub, txSeen, txNode, txGot, txMissed, txLate>>

Next ==
    \/ \E q \in Queues : Register(q) \/ Unregister(q)
    \/ Confirm \/ Subscribe \/ FirstLook \/ FirstLookFails \/ OnChange \/ OnChangeFails \/ EndOfWait
    \/ Close \/ Removed

(* The first look, and the one a push calls for, whatever they find. *)
Looks == FirstLook \/ FirstLookFails
Answers == OnChange \/ OnChangeFails

TypeOK ==
    /\ txQueues \subseteq Queues /\ txGot \subseteq Queues /\ txLate \subseteq Queues
    /\ txTask \in {"none", "connect", "look", "wait", "done"}
    /\ \A b \in {txSub, txPush, txSeen, txNode, txMissed} : b \in BOOLEAN

(* A websocket that watches a transaction is told that it is confirmed        *)
(* (electrum.py 900-991), unless it registers when the others have been told  *)
(* and the finished task is still listed (task_manager.py 304-315), or the    *)
(* look that the last push calls for fails.                                   *)
ConfirmationIsReported ==
    []<>(txNode /\ ~txMissed => txQueues \subseteq txGot \union txLate)
=============================================================================
