-------------------------------- MODULE Wallets --------------------------------
(***************************************************************************)
(* The rows of the wallets and their lightning addresses                   *)
(* (core/crud/wallets.py, core/services/lightning_address.py,              *)
(* core/views/wallet_api.py).  Every edit reads a row, awaits, and writes  *)
(* all of it, a pay link of core/services/lnurl.py after the requests it   *)
(* took; deleting writes its one column.  Two wallets, the second of which *)
(* may be a mirror of the first: what is read of it has the address of its *)
(* source.  An index keeps addresses apart.  A bound: the second wallet    *)
(* only competes for an address, and is edited when it is a mirror.        *)
(***************************************************************************)
EXTENDS Naturals

CONSTANTS Tasks,     \* requests at once, numbered
          Addresses

VARIABLES waMirror,  \* the second wallet mirrors the first
          waRow,     \* the rows: [key, address, deleted]
          waTask,    \* the requests: [at, op, id, row, stale, free]
          waMeant,   \* history: the key and the deletion last asked for
          waPaid,    \* history: the address each wallet last paid for, None, or CutOff
          waOverlap, \* history: a request wrote what another changed meanwhile
          waTaken    \* history: an address was taken between its check and its write

vars == <<waMirror, waRow, waTask, waMeant, waPaid, waOverlap, waTaken>>

Ids == {1, 2}
None == "none"
CutOff == "cut off"              \* the request that was charged stopped before its write
WalletConstants == 0 \notin Tasks /\ {None, CutOff} \intersect Addresses = {}
Row(key, address, deleted) == [key |-> key, address |-> address, deleted |-> deleted]
Gone == Row(0, None, TRUE)       \* deleted for good: not told from deleted
Rows == [key : {0, 1}, address : Addresses \union {None}, deleted : BOOLEAN]
Idle == [at |-> "idle", op |-> "none", id |-> 1, row |-> Gone, stale |-> FALSE,
         free |-> FALSE]
Meaning(row) == [key |-> row.key, deleted |-> row.deleted]

Init ==
    /\ waMirror \in BOOLEAN
    /\ \E a \in Addresses \union {None} : waRow = [i \in Ids |-> Row(0, IF i = 1 THEN a ELSE None, FALSE)]
    /\ waTask = [t \in Tasks |-> Idle] /\ waMeant = [i \in Ids |-> Meaning(waRow[i])]
    /\ waPaid = [i \in Ids |-> None] /\ waOverlap = FALSE /\ waTaken = FALSE

Mirror(id) == waMirror /\ id = 2
Lightning(id) == ~Mirror(id)

(* get_wallet: not a deleted one; a mirror is read with its source, which     *)
(* has to be there (get_source_wallet, mirror_shared_wallet).                 *)
Found(id) == ~waRow[id].deleted /\ (Mirror(id) => ~waRow[1].deleted)
WalletRead(id) == IF Mirror(id) THEN [waRow[id] EXCEPT !.address = waRow[1].address] ELSE waRow[id]

(* get_wallet_id_by_ln_address, of a deleted wallet as well. *)
TakenBy(address, id) ==
    address # None /\ \E i \in Ids \ {id} : waRow[i].address = address

Begin(t, id, op, at) ==
    /\ Found(id) /\ waTask[t] = Idle /\ \A u \in Tasks : u < t => waTask[u] # Idle
    /\ waTask' = [waTask EXCEPT ![t] =
         [at |-> at, op |-> op, id |-> id, row |-> WalletRead(id),
          stale |-> FALSE, free |-> FALSE]]
    /\ UNCHANGED <<waMirror, waRow, waMeant, waPaid, waOverlap, waTaken>>

(* api_update_wallet and its name, api_put_stored_paylinks, _store_paylink    *)
(* with the wallet of the key check.                                          *)
Edit(t, id) == (id = 1 \/ Mirror(id)) /\ Begin(t, id, "edit", "write")

(* api_reset_wallet_keys. *)
ResetKeys(t, id) == id = 1 /\ Begin(t, id, "reset", "write")

(* set_wallet_lightning_address, charged or set by an administrator; or       *)
(* get_standalone_wallet, which gives an address to a wallet without one.     *)
SetAddress(t, id, op) ==
    /\ Lightning(id) /\ Begin(t, id, op, "check")
    /\ op = "generate" => waRow[id].address = None
    /\ op = "admin" => id = 1

Drop(t) == waTask' = [waTask EXCEPT ![t] = Idle]

(* _validate_local_part, generate_lightning_address_local_part; the same      *)
(* address again is not written, nor charged.                                 *)
Charged(t, address) ==
    waPaid' = [waPaid EXCEPT ![waTask[t].id] = IF waTask[t].op = "charged" THEN address ELSE @]

CheckAnyAddress(t, address) ==
    /\ waTask[t].at = "check" /\ Charged(t, address)
    /\ waTask' = [waTask EXCEPT ![t].at = "write", ![t].row.address = address,
                               ![t].free = ~TakenBy(address, waTask[t].id)]
    /\ UNCHANGED <<waMirror, waRow, waMeant, waOverlap, waTaken>>
CheckAddress(t, address) ==
    LET task == waTask[t] IN
    /\ task.at = "check"
    /\ IF TakenBy(address, task.id) \/ task.row.address = address
       THEN Drop(t) /\ UNCHANGED waPaid
       ELSE /\ waTask' = [waTask EXCEPT ![t] =
                 [task EXCEPT !.at = "write", !.row = [task.row EXCEPT !.address = address], !.free = TRUE]]
            /\ Charged(t, address)
    /\ UNCHANGED <<waMirror, waRow, waMeant, waOverlap, waTaken>>

(* A request goes no further: the address is not valid, the charge fails, the  *)
(* row cannot be written, or the server stops, also between the charge and     *)
(* the write: nothing gives the price back, or sets the address later.         *)
Stops(t) ==
    LET task == waTask[t] IN
    /\ task.at \in {"check", "write"} /\ Drop(t)
    /\ waPaid' = [waPaid EXCEPT ![task.id] =
         IF task.at = "write" /\ task.op = "charged" /\ task.row.address = @ THEN CutOff ELSE @]
    /\ UNCHANGED <<waMirror, waRow, waMeant, waOverlap, waTaken>>

-----------------------------------------------------------------------------
(* A row is replaced: other requests have read what is no more. *)
Put(id, row, t) ==
    /\ waRow' = [waRow EXCEPT ![id] = row]
    /\ waTask' = [u \in Tasks |-> IF u = t THEN Idle
                                  ELSE IF waTask[u] # Idle /\ (waTask[u].id = id \/ Mirror(waTask[u].id))
                                  THEN [waTask[u] EXCEPT !.stale = TRUE] ELSE waTask[u]]

(* update_wallet: all columns, the deletion with them, unless the index        *)
(* refuses the address, of a request that has paid for it or of a mirror.     *)
UpdateWallet(t) ==
    LET task == waTask[t] IN
    /\ task.at = "write"
    /\ IF TakenBy(task.row.address, task.id)
       THEN /\ Drop(t) /\ waTaken' = (waTaken \/ task.free)
            /\ UNCHANGED <<waRow, waMeant, waPaid, waOverlap>>
       ELSE LET row == IF task.op = "reset" THEN [task.row EXCEPT !.key = 1 - @] ELSE task.row IN
            /\ Put(task.id, row, t) /\ UNCHANGED waTaken
            /\ waMeant' = [waMeant EXCEPT ![task.id] =
                 [key |-> IF task.op = "reset" THEN row.key ELSE @.key, deleted |-> @.deleted]]
            /\ waPaid' = [waPaid EXCEPT ![task.id] = IF task.op = "admin" THEN None ELSE @]
            /\ waOverlap' = (waOverlap \/ task.stale)
    /\ UNCHANGED waMirror

(* delete_wallet, delete_wallet_by_id, api_users_undelete_user_wallet.        *)
Delete(id, deleted) ==
    /\ waRow[id].deleted # deleted /\ Put(id, [waRow[id] EXCEPT !.deleted = deleted], 0)
    /\ waMeant' = [waMeant EXCEPT ![id].deleted = deleted]
    /\ UNCHANGED <<waMirror, waPaid, waOverlap, waTaken>>

(* force_delete_wallet, remove_deleted_wallets, delete_unused_wallets: what is *)
(* written later is an UPDATE of no row.                                       *)
Remove(id) ==
    /\ waRow[id].deleted /\ waRow[id] # Gone /\ Put(id, Gone, 0)
    /\ waMeant' = [waMeant EXCEPT ![id] = Meaning(Gone)] /\ waPaid' = [waPaid EXCEPT ![id] = None]
    /\ UNCHANGED <<waMirror, waOverlap, waTaken>>

Steps ==
    \/ \E t \in Tasks, id \in Ids :
          \/ Edit(t, id) \/ ResetKeys(t, id)
          \/ \E op \in {"charged", "admin", "generate"} : SetAddress(t, id, op)
    \/ \E t \in Tasks :
          \/ Stops(t) \/ UpdateWallet(t)
          \/ \E address \in Addresses : CheckAddress(t, address)
    \/ Remove(1) \/ \E deleted \in BOOLEAN : Delete(1, deleted)

Next == ~waOverlap /\ ~waTaken /\ Steps   \* bound: a behaviour is followed until an excuse
Spec == Init /\ [][Next]_vars

-----------------------------------------------------------------------------
TypeOK ==
    /\ waMirror \in BOOLEAN /\ waRow \in [Ids -> Rows]
    /\ waTask \in [Tasks -> [at : {"idle", "check", "write"},
                             op : {"none", "edit", "reset", "charged", "admin", "generate"},
                             id : Ids, row : Rows, stale : BOOLEAN, free : BOOLEAN]]
    /\ waMeant \in [Ids -> [key : {0, 1}, deleted : BOOLEAN]]
    /\ waPaid \in [Ids -> Addresses \union {None, CutOff}]
    /\ waOverlap \in BOOLEAN /\ waTaken \in BOOLEAN

(* Keys that were reset are good for nothing, and a wallet that was deleted   *)
(* stays so until it is asked back, unless two requests overlapped: a pay     *)
(* link stored late, or an edit, writes both back.                            *)
WalletsKeepWrites == ~waOverlap => \A i \in Ids : Meaning(waRow[i]) = waMeant[i]

(* A wallet has the address it has paid for, or a request for it is on its     *)
(* way, unless that request stopped after the charge, requests overlapped, or *)
(* another wallet took the address between its check and its write: the price *)
(* is paid then, and not returned.                                            *)
PaidAddressIsSet ==
    ~waOverlap /\ ~waTaken =>
        \A i \in Ids : waPaid[i] \notin {None, CutOff} =>
            \/ waRow[i].address = waPaid[i]
            \/ \E t \in Tasks : waTask[t].id = i /\ waTask[t].at = "write" /\ waTask[t].op = "charged"
                                   /\ waTask[t].row.address = waPaid[i]
=============================================================================
