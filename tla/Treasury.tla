------------------------------ MODULE Treasury ------------------------------
(***************************************************************************)
(* What the server owes against what its node holds: the watchdog of       *)
(* core/services/funding_source.py, which compares two balances read one   *)
(* after the other and switches the server to the void wallet, and the     *)
(* balance changes of an administrator (update_wallet_balance), decided on *)
(* a wallet the endpoint has read before.  Payments move both balances     *)
(* between the reads.  Amounts are whole sats.                             *)
(***************************************************************************)
EXTENDS Integers

VARIABLES trLedger,   \* get_total_balance, that of the one wallet
          trNode,     \* the node's balance
          trIn,       \* received at the node and not yet credited
          trOut,      \* debited and not yet sent or failed
          trSource,   \* the funding source in use
          trWatch,    \* the watchdog: [at, node, recv]
          trAdmin,    \* the administrator's request: [at, amount, seen, spent]
          trMade,     \* history: the sum of the administrator's changes
          trGap,      \* history: what payments took while a debit was decided
          trExcess    \* history: what justified the switch

vars == <<trLedger, trNode, trIn, trOut, trSource, trWatch, trAdmin, trMade, trGap, trExcess>>
payments == <<trIn, trOut>>

Start == 1            \* what the wallet and the node begin with
MaxBalance == 2       \* lnbits_wallet_limit_max_balance
Delta == 1            \* lnbits_watchdog_delta
Funds == 2            \* bound: the most the node receives
Changes == {-1, 1}    \* bound: what an administrator asks for
Made == 2             \* bound: the sum of the administrator's changes
Gaps == 2             \* bound: what is spent, or received, between two readings

NoWatch == [at |-> "idle", node |-> 0, recv |-> 0]
NoAdmin == [at |-> "idle", amount |-> 0, seen |-> 0, spent |-> 0]

Init ==
    /\ trLedger = Start /\ trNode = Start /\ trIn = 0 /\ trOut = 0 /\ trSource = "node"
    /\ trWatch = NoWatch /\ trAdmin = NoAdmin /\ trMade = 0 /\ trGap = 0 /\ trExcess = 0

(* A payment is credited after the node has received it, and debited before   *)
(* the node is asked to send it (Payments).                                   *)
Receive ==
    /\ trSource = "node" /\ trNode < Funds /\ trWatch.recv < Gaps
    /\ trNode' = trNode + 1 /\ trIn' = trIn + 1
    /\ trWatch' = (IF trWatch.at = "ledger" THEN [trWatch EXCEPT !.recv = @ + 1] ELSE trWatch)
    /\ UNCHANGED <<trLedger, trOut, trSource, trAdmin, trMade, trGap, trExcess>>

Credit ==
    /\ trIn > 0 /\ trIn' = trIn - 1 /\ trLedger' = trLedger + 1
    /\ UNCHANGED <<trNode, trOut, trSource, trWatch, trAdmin, trMade, trGap, trExcess>>

Debit ==
    /\ trSource = "node" /\ trLedger > 0 /\ trLedger' = trLedger - 1 /\ trOut' = trOut + 1
    /\ trAdmin' = (IF trAdmin.at = "write" THEN [trAdmin EXCEPT !.spent = @ + 1] ELSE trAdmin)
    /\ trAdmin.spent + trGap < Gaps
    /\ UNCHANGED <<trNode, trIn, trSource, trWatch, trMade, trGap, trExcess>>

Sent ==
    /\ trOut > 0 /\ trOut' = trOut - 1
    /\ \/ trNode > 0 /\ trNode' = trNode - 1 /\ UNCHANGED trLedger
       \/ trLedger' = trLedger + 1 /\ UNCHANGED trNode
    /\ UNCHANGED <<trIn, trSource, trWatch, trAdmin, trMade, trGap, trExcess>>

-----------------------------------------------------------------------------
(* check_server_balance_against_node, once a round                            *)
Watch(at) == trWatch.at = at /\ UNCHANGED <<trLedger, trNode, payments, trAdmin, trMade, trGap>>

WatchStarts ==
    /\ Watch("idle") /\ trSource # "void"
    /\ trWatch' = [NoWatch EXCEPT !.at = "status"] /\ UNCHANGED <<trSource, trExcess>>

(* An error message raises, and the task is started again. *)
WatchReadsNode ==
    /\ Watch("status")
    /\ \/ trWatch' = [at |-> "ledger", node |-> trNode, recv |-> 0]
       \/ trWatch' = NoWatch
    /\ UNCHANGED <<trSource, trExcess>>

(* get_total_balance, and switch_to_voidwallet with nothing awaited between. *)
WatchDecides ==
    /\ Watch("ledger") /\ trWatch' = NoWatch
    /\ IF trLedger - trWatch.node >= Delta THEN trSource' = "void" /\ trExcess' = trMade + trWatch.recv
       ELSE UNCHANGED <<trSource, trExcess>>

WatchReads == WatchReadsNode \/ WatchDecides

-----------------------------------------------------------------------------
(* api_update_balance reads the wallet, update_wallet_balance decides on it.  *)
AdminReads(amount) ==
    /\ trAdmin.at = "idle" /\ trMade + amount \in -Made..Made
    /\ trAdmin' = [at |-> "write", amount |-> amount, seen |-> trLedger, spent |-> 0]
    /\ UNCHANGED <<trLedger, trNode, payments, trSource, trWatch, trMade, trGap, trExcess>>

AlwaysAllowed == trAdmin.amount < 0 \/ trAdmin.seen + trAdmin.amount <= MaxBalance
Allowed == IF trAdmin.amount < 0 THEN trAdmin.seen + trAdmin.amount >= 0
           ELSE trAdmin.seen + trAdmin.amount <= MaxBalance

AdminWrites ==
    /\ trAdmin.at = "write" /\ trAdmin' = NoAdmin
    /\ IF Allowed
       THEN /\ trLedger' = trLedger + trAdmin.amount /\ trMade' = trMade + trAdmin.amount
            /\ trGap' = trGap + (IF trAdmin.amount < 0 THEN trAdmin.spent ELSE 0)
       ELSE UNCHANGED <<trLedger, trMade, trGap>>
    /\ UNCHANGED <<trNode, payments, trSource, trWatch, trExcess>>

Next == \/ Receive \/ Credit \/ Debit \/ Sent
        \/ WatchStarts \/ WatchReads
        \/ \E amount \in Changes : AdminReads(amount)
        \/ AdminWrites

(* The node answers the watchdog. *)
WatchLearns == WatchReadsNode /\ trWatch'.at = "ledger"

-----------------------------------------------------------------------------
TypeOK ==
    /\ trLedger \in Int /\ trNode \in 0..Funds /\ trIn \in Nat /\ trOut \in Nat
    /\ trSource \in {"node", "void"} /\ trMade \in Int /\ trGap \in Nat
    /\ trWatch.at \in {"idle", "status", "ledger"} /\ trAdmin.at \in {"idle", "write"}

(* check_server_balance_against_node switches the server to the void wallet   *)
(* only for money that is owed without having been received: what an          *)
(* administrator has credited, and at most what was received and credited     *)
(* between its two readings.                                                  *)
SwitchIsJustified == trSource = "void" => trExcess >= Delta

(* A debt the node cannot cover switches the server, once it stays and the    *)
(* node's balance rests; while payments flow it may be underestimated.        *)
DebtSwitches ==
    <>[](trLedger - trNode >= Delta) /\ <>[][trNode' = trNode]_vars => <>(trSource = "void")

(* The balance an administrator takes may have been spent since it was read:  *)
(* the wallet goes into negative balance by no more than that.                *)
OverdraftIsTheGap == trLedger + trGap >= 0
=============================================================================
