-------------------------------- MODULE Releases --------------------------------
(***************************************************************************)
(* Where an extension comes from (core/models/extensions.py,               *)
(* core/services/extensions.py 186-248, core/views/extension_api.py): the  *)
(* catalog merged from the manifests, the releases that are paid for, and  *)
(* the row that remembers the payment, its price for the users and whether *)
(* it is active.  Installing and selling read the row, await, and write    *)
(* all of it.  How an archive is unpacked is in Extensions.                *)
(***************************************************************************)
EXTENDS Naturals, Sequences

CONSTANTS Tasks,       \* the requests
          MaxVersion,  \* bounds: versions of the extension,
          MaxOffers,   \* releases offered,
          MaxPayments, \* payments made,
          MaxPrice     \* prices asked

VARIABLES rlShop,     \* the releases of the manifests gone through, in their order
          rlList,     \* what is listed of the extension: [latest, free, paid, found]
          rlSettled,  \* the payment hashes the seller has been paid for
          rlRow,      \* the installed row: [version, payment, price, active], or NoRow
          rlTask,     \* the requests: [at, op, release, hash, price, row, stale]
          rlBought,   \* history: the payment last used to install, until it is uninstalled
          rlWanted,   \* history: the price and the activation last asked for
          rlOverlap   \* history: a request wrote what another changed meanwhile

vars == <<rlShop, rlList, rlSettled, rlRow, rlTask, rlBought, rlWanted, rlOverlap>>

None == 0
Hashes == 1..MaxPayments
Prices == None..MaxPrice
(* A repository's latest release is taken as compatible and free. *)
Offers ==
    {o \in [kind : {"repo", "explicit"}, version : 1..MaxVersion, compatible : BOOLEAN, paid : BOOLEAN] :
       o.kind = "repo" => o.compatible /\ ~o.paid}
Offered == {rlShop[n] : n \in DOMAIN rlShop}
Rows == [version : 0..MaxVersion, payment : Hashes \union {None}, price : Prices, active : BOOLEAN]
NoRow == [version |-> None, payment |-> None, price |-> None, active |-> FALSE]
Task == [at : {"idle", "read", "write"}, op : {"none", "install", "sell"}, release : Offers,
         hash : Hashes \union {None}, price : Prices, row : Rows, stale : BOOLEAN]
AnyRelease == [kind |-> "repo", version |-> 1, compatible |-> TRUE, paid |-> FALSE]
Idle == [at |-> "idle", op |-> "none", release |-> AnyRelease, hash |-> None, price |-> None,
         row |-> NoRow, stale |-> FALSE]

ReleaseConstants ==
    /\ Tasks \subseteq Nat \ {0} /\ MaxVersion \in Nat \ {0}
    /\ MaxOffers \in Nat /\ MaxPayments \in Nat /\ MaxPrice \in Nat

-----------------------------------------------------------------------------
(* _get_installable_extensions: the first offer makes the entry; it and each   *)
(* that follows is looked at by check_release_updates, but a repository's that *)
(* is the first.                                                               *)
Unlisted == [latest |-> None, free |-> FALSE, paid |-> FALSE, found |-> FALSE]
NewestLast(entry, offer) == offer.version
Newest(entry, offer) ==
    IF entry.latest = None \/ entry.latest < offer.version THEN offer.version ELSE entry.latest
check_release_updates(entry, offer) ==
    IF ~offer.compatible THEN [entry EXCEPT !.found = TRUE]
    ELSE [latest |-> Newest(entry, offer), free |-> entry.free \/ ~offer.paid,
          paid |-> entry.paid \/ offer.paid, found |-> TRUE]
Added(entry, offer) ==
    IF ~entry.found /\ offer.kind = "repo"
    THEN [entry EXCEPT !.latest = offer.version, !.found = TRUE]
    ELSE check_release_updates(entry, offer)

Init ==
    /\ rlShop = << >> /\ rlList = Unlisted /\ rlSettled = {} /\ rlRow = NoRow
    /\ rlTask = [t \in Tasks |-> Idle] /\ rlBought = None
    /\ rlWanted = [price |-> None, active |-> FALSE] /\ rlOverlap = FALSE

(* The manifests are fetched one after the other. *)
List(offer) ==
    /\ Len(rlShop) < MaxOffers
    /\ rlShop' = Append(rlShop, offer) /\ rlList' = Added(rlList, offer)
    /\ UNCHANGED <<rlSettled, rlRow, rlTask, rlBought, rlWanted, rlOverlap>>

(* get_pay_to_install_invoice, and its invoice is paid. *)
Buys(hash) ==
    /\ hash \notin rlSettled /\ \A h \in Hashes : h < hash => h \in rlSettled
    /\ rlSettled' = rlSettled \union {hash}
    /\ UNCHANGED <<rlShop, rlList, rlRow, rlTask, rlBought, rlWanted, rlOverlap>>

-----------------------------------------------------------------------------
Begin(t, op, offer, hash, price) ==
    /\ rlTask[t] = Idle /\ \A u \in Tasks : u < t => rlTask[u] # Idle
    /\ rlTask' = [rlTask EXCEPT ![t] =
         [at |-> IF op = "sell" THEN "write" ELSE "read", op |-> op, release |-> offer,
          hash |-> hash, price |-> price, row |-> IF op = "sell" THEN rlRow ELSE NoRow,
          stale |-> FALSE]]
    /\ UNCHANGED <<rlShop, rlList, rlSettled, rlRow, rlBought, rlWanted, rlOverlap>>
Drop(t) ==
    /\ rlTask' = [rlTask EXCEPT ![t] = Idle]
    /\ UNCHANGED <<rlShop, rlList, rlSettled, rlRow, rlBought, rlWanted, rlOverlap>>

(* api_install_extension: a release that is offered and compatible, with the   *)
(* payment hash the client gives or none; one from a repository is free, too.  *)
Install(t, offer, hash) ==
    /\ offer.compatible /\ offer.kind = "explicit" /\ (hash # None => offer.paid)
    /\ Begin(t, "install", offer, hash, None)

(* install_extension reads the row; download_archive restores the payment it   *)
(* remembers, if a hash was given at all, and the seller wants one it was paid *)
(* for; then it is remembered.  What fails here or later leaves the row.       *)
Restored(t) ==
    IF rlTask[t].hash # None /\ rlRow.payment # None THEN rlRow.payment ELSE rlTask[t].hash
Download(t) ==
    LET task == rlTask[t] IN
    /\ task.at = "read" /\ (task.release.paid => Restored(t) \in rlSettled)
    /\ rlTask' = [rlTask EXCEPT ![t] = [task EXCEPT !.at = "write", !.stale = FALSE,
         !.release = AnyRelease, !.row = [version |-> task.release.version, price |-> None, active |-> FALSE,
                  payment |-> IF task.release.paid THEN Restored(t) ELSE rlRow.payment],
         !.hash = IF task.release.paid THEN Restored(t) ELSE None]]
    /\ UNCHANGED <<rlShop, rlList, rlSettled, rlRow, rlBought, rlWanted, rlOverlap>>

(* api_update_pay_to_enable. *)
Sell(t, price) ==
    rlRow # NoRow /\ price # rlRow.price /\ Begin(t, "sell", AnyRelease, None, price)

Put(row, t) ==
    /\ rlRow' = row
    /\ rlTask' = [u \in Tasks |-> IF u = t THEN Idle
                                  ELSE IF rlTask[u] = Idle THEN Idle
                                  ELSE [rlTask[u] EXCEPT !.stale = TRUE]]

(* create_installed_extension; update_installed_extension, of the whole row,   *)
(* in which an upgrade has no price.                                           *)
WriteRow(t) ==
    LET task == rlTask[t] IN
    /\ task.at = "write"
    /\ Put(IF rlRow = NoRow /\ task.op = "sell" THEN NoRow
           ELSE IF task.op = "sell" THEN [task.row EXCEPT !.price = task.price] ELSE task.row, t)
    /\ rlWanted' = IF rlRow' = NoRow THEN [price |-> None, active |-> FALSE]
                   ELSE IF task.op = "sell" THEN [rlWanted EXCEPT !.price = task.price]
                   ELSE [price |-> None, active |-> FALSE]
    /\ rlBought' = IF task.op = "install" /\ task.hash # None THEN task.hash ELSE rlBought
    /\ rlOverlap' = (rlOverlap \/ task.stale)
    /\ UNCHANGED <<rlShop, rlList, rlSettled>>

(* activate_extension and deactivate_extension: one column. *)
Activate(active) ==
    /\ rlRow # NoRow /\ rlRow.active # active
    /\ Put([rlRow EXCEPT !.active = active], 0)
    /\ rlWanted' = [rlWanted EXCEPT !.active = active]
    /\ UNCHANGED <<rlShop, rlList, rlSettled, rlBought, rlOverlap>>

(* uninstall_extension: what was paid for is forgotten. *)
Uninstall ==
    /\ rlRow # NoRow /\ Put(NoRow, 0) /\ rlBought' = None
    /\ rlWanted' = [price |-> None, active |-> FALSE]
    /\ UNCHANGED <<rlShop, rlList, rlSettled, rlOverlap>>

Steps ==
    \/ Uninstall \/ (\E hash \in Hashes : Buys(hash))
    \/ \E active \in BOOLEAN : Activate(active)
    \/ \E t \in Tasks :
          \/ \E offer \in Offers, hash \in Hashes \union {None} : Install(t, offer, hash)
          \/ \E price \in Prices : Sell(t, price)
          \/ Download(t) \/ Drop(t) \/ WriteRow(t)

(* The catalog guards nothing that is installed: what is offered changes at    *)
(* any time, and is asked for again.  It is listed in a behaviour of its own;  *)
(* the others are followed until an overlap.                                   *)
Untouched == rlSettled = {} /\ rlRow = NoRow /\ rlTask = [t \in Tasks |-> Idle]
Next ==
    \/ Untouched /\ \E offer \in Offers : List(offer)
    \/ rlShop = << >> /\ ~rlOverlap /\ Steps

Spec == Init /\ [][Next]_vars

-----------------------------------------------------------------------------
TypeOK ==
    /\ rlShop \in Seq(Offers) /\ rlSettled \subseteq Hashes
    /\ rlList \in [latest : 0..MaxVersion, free : BOOLEAN, paid : BOOLEAN, found : BOOLEAN]
    /\ rlRow \in Rows /\ rlTask \in [Tasks -> Task]
    /\ rlBought \in Hashes \union {None} /\ rlOverlap \in BOOLEAN
    /\ rlWanted \in [price : Prices, active : BOOLEAN]

(* What is listed is the newest compatible release of the manifests gone      *)
(* through, and that there is a paid one is never left out.                   *)
ListIsNewest ==
    LET fit == {o \in Offered : o.compatible} IN
    /\ fit = {} => rlList.latest = None
    /\ fit # {} => /\ \E o \in fit : rlList.latest = o.version
                   /\ \A o \in fit : o.version <= rlList.latest
    /\ rlList.paid <=> \E o \in fit : o.paid

(* A payment that has installed a release is remembered until the extension is *)
(* uninstalled, whatever is installed after it; its price and its activation   *)
(* are those last asked for, but that installing again ends both; unless two   *)
(* requests overlapped.                                                        *)
RowsRemember ==
    ~rlOverlap => /\ rlRow.payment = rlBought
                  /\ [price |-> rlRow.price, active |-> rlRow.active] = rlWanted
=============================================================================
