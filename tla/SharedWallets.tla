---------------------------- MODULE SharedWallets ----------------------------
(***************************************************************************)
(* Sharing a wallet (core/services/wallets.py).  The owner's wallet row    *)
(* lists what it shares; the guest reaches it through a wallet of his own, *)
(* the mirror, that gets its rights from the list each time it is read.    *)
(* Every operation keeps a copy of the whole row over its awaits and       *)
(* writes all of it (update_wallet), the list with it, so that a write can *)
(* bring back what another one has taken away.  The share keeps the name   *)
(* the guest was invited by, which may cease to lead to his account.  The  *)
(* guest's inbox of invitations guards none of these steps and is left out.*)
(***************************************************************************)
EXTENDS Naturals

CONSTANTS Names,        \* usernames, as positive numbers
          MaxMirrors,   \* bound: the mirrors ever created
          Accepts,      \* the requests of the guest that accept an invitation
          Edits         \* the requests that write the owner's row back

VARIABLES shRow,      \* the share in the owner's row: [status, mirror, name]
          shName,     \* the name that leads to the guest's account, or None
          shMirrors,  \* the guest's mirror wallets
          shTask,     \* where each operation is
          shCopy,     \* the share in the row each operation has read
          shTarget,   \* the mirror an operation has created or found
          shClean,    \* history: the revocation found the only mirror, and nothing was accepted since
          shRevoked   \* history: revoked, with the mirror gone or left, and not shared again since

vars == <<shRow, shName, shMirrors, shTask, shCopy, shTarget, shClean, shRevoked>>

Mirrors == 1..MaxMirrors
None == 0
Tasks == {"invite", "revoke"} \union Accepts \union Edits
ShareConstants ==
    /\ MaxMirrors \in Nat /\ None \notin Names
    /\ {"invite", "revoke"} \intersect (Accepts \union Edits) = {} /\ Accepts \intersect Edits = {}

NotShared == [status |-> "none", mirror |-> None, name |-> None]
Live == {m \in Mirrors : shMirrors[m] = "live"}

Init ==
    /\ shRow = NotShared /\ shName \in Names /\ shMirrors = [m \in Mirrors |-> "new"]
    /\ shTask = [t \in Tasks |-> "idle"] /\ shCopy = [t \in Tasks |-> NotShared]
    /\ shTarget = [t \in Tasks |-> None] /\ shClean = FALSE /\ shRevoked = "no"

Move(t, from, to) == shTask[t] = from /\ shTask' = [shTask EXCEPT ![t] = to]

(* The key check, or get_standalone_wallet, and the guard on the copy; the    *)
(* guest is invited by a name that leads to him.                              *)
Begin(t) ==
    /\ Move(t, "idle", CASE t = "revoke" -> "find" [] t \in Accepts -> "create" [] OTHER -> "write")
    /\ CASE t = "invite" -> shRow.status = "none" /\ shName # None
         [] t = "revoke" -> shRow.status # "none"
         [] t \in Accepts -> shRow.status = "sent"
         [] OTHER -> TRUE
    /\ shCopy' = [shCopy EXCEPT ![t] = IF t = "invite" THEN [shRow EXCEPT !.status = "sent", !.name = shName]
                                       ELSE shRow]
    /\ shClean' = (shClean /\ t \notin Accepts)
    /\ UNCHANGED <<shRow, shName, shMirrors, shTarget, shRevoked>>

(* _accept_invitation_to_shared_wallet: create_wallet *)
Create(t) ==
    /\ t \in Accepts /\ Move(t, "create", "write")
    /\ \E m \in Mirrors :
         /\ shMirrors[m] = "new" /\ \A l \in Mirrors : l < m => shMirrors[l] # "new"
         /\ shMirrors' = [shMirrors EXCEPT ![m] = "live"]
         /\ shTarget' = [shTarget EXCEPT ![t] = m]
    /\ UNCHANGED <<shRow, shName, shCopy, shClean, shRevoked>>

(* update_wallet with the copy: what invite, accept, and every edit of the    *)
(* wallet write.                                                              *)
Written(t) ==
    CASE t \in Accepts -> [shCopy[t] EXCEPT !.status = "approved", !.mirror = shTarget[t]]
      [] t = "revoke" -> NotShared
      [] OTHER -> shCopy[t]

Write(t) ==
    /\ Move(t, "write", "idle") /\ shRow' = Written(t)
    /\ shRevoked' = CASE t = "revoke" -> IF shClean THEN "gone" ELSE "left"
                      [] t \in Accepts \/ (shRevoked = "left" /\ shRow'.status = "approved") -> "no"
                      [] OTHER -> shRevoked
    /\ shCopy' = [shCopy EXCEPT ![t] = NotShared] /\ shTarget' = [shTarget EXCEPT ![t] = None]
    /\ UNCHANGED <<shName, shMirrors, shClean>>

(* delete_wallet_share: the account the name in the share leads to, and in    *)
(* get_wallets of it the first mirror that is not deleted.  The name may lead *)
(* to nobody, or to somebody else who has no mirror of this wallet: then none *)
(* is deleted.                                                                *)
Found == IF shCopy["revoke"].name = shName THEN Live ELSE {}
Find ==
    /\ Move("revoke", "find", IF Found = {} THEN "write" ELSE "delete")
    /\ \/ Found = {} /\ UNCHANGED shTarget
       \/ \E m \in Found : shTarget' = [shTarget EXCEPT !["revoke"] = m]
    /\ shClean' = (/\ Live = Found
                   /\ \A l, m \in Live : l = m
                   /\ \A t \in Accepts : shTask[t] = "idle")
    /\ UNCHANGED <<shRow, shName, shMirrors, shCopy, shRevoked>>

DeletesNothing ==
    /\ Move("revoke", "delete", "write")
    /\ UNCHANGED <<shRow, shName, shMirrors, shCopy, shTarget, shClean, shRevoked>>

(* force_delete_wallet *)
Delete ==
    /\ Move("revoke", "delete", "write")
    /\ shMirrors' = [shMirrors EXCEPT ![shTarget["revoke"]] = "gone"]
    /\ UNCHANGED <<shRow, shName, shCopy, shTarget, shClean, shRevoked>>

(* An exception, or the server, ends an operation between two steps. *)
Abort(t) ==
    /\ shTask[t] # "idle" /\ Move(t, shTask[t], "idle")
    /\ shCopy' = [shCopy EXCEPT ![t] = NotShared] /\ shTarget' = [shTarget EXCEPT ![t] = None]
    /\ UNCHANGED <<shRow, shName, shMirrors, shClean, shRevoked>>

(* The guest is given another name, or one again; or he is deactivated.       *)
Rename ==
    /\ \E name \in Names \union {None} : name # shName /\ shName' = name
    /\ UNCHANGED <<shRow, shMirrors, shTask, shCopy, shTarget, shClean, shRevoked>>

(* The guest deletes a mirror, an administrator brings it back or removes it; *)
(* so does the end of another guest's share whose name leads to this guest.   *)
MirrorChanges(m, from, to) ==
    shMirrors[m] = from /\ shMirrors' = [shMirrors EXCEPT ![m] = to]

DeleteMirror(m) ==
    /\ MirrorChanges(m, "live", "deleted") \/ MirrorChanges(m, "deleted", "gone")
    /\ UNCHANGED <<shRow, shName, shTask, shCopy, shTarget, shClean, shRevoked>>

UndeleteMirror(m) ==
    /\ MirrorChanges(m, "deleted", "live") /\ shRevoked' = "no" /\ shClean' = FALSE
    /\ UNCHANGED <<shRow, shName, shTask, shCopy, shTarget>>

Next == \/ \E t \in Tasks : Begin(t) \/ Create(t) \/ Write(t) \/ Abort(t)
        \/ Find \/ Delete \/ Rename
        \/ \E m \in Mirrors : DeleteMirror(m) \/ UndeleteMirror(m)

Spec == Init /\ [][Next]_vars

-----------------------------------------------------------------------------
Shares == [status : {"none", "sent", "approved"}, mirror : Mirrors \union {None},
           name : Names \union {None}]
TypeOK ==
    /\ shRow \in Shares /\ shName \in Names \union {None}
    /\ shMirrors \in [Mirrors -> {"new", "live", "deleted", "gone"}]
    /\ shTask \in [Tasks -> {"idle", "find", "create", "delete", "write"}]
    /\ shCopy \in [Tasks -> Shares] /\ shTarget \in [Tasks -> Mirrors \union {None}]
    /\ shClean \in BOOLEAN /\ shRevoked \in {"no", "gone", "left"}

(* mirror_shared_wallet and get_share_permissions *)
HasRights(m) == m \in Live /\ shRow.status = "approved" /\ shRow.mirror = m

(* Once delete_wallet_share has ended, the guest has no rights in the wallet  *)
(* until he accepts again or a mirror is undeleted, although a copy read      *)
(* before may write the share back: the mirror it names is gone.  Only when   *)
(* the mirror was left (its name no longer led to the guest, or the guest had *)
(* two, or accepted meanwhile) does such a copy give him his rights back.     *)
RevokedStaysRevoked == shRevoked # "no" => ~ \E m \in Mirrors : HasRights(m)
=============================================================================
