----------------------------- MODULE PlatformProofs ----------------------------
(***************************************************************************)
(* What holds of the services around the ledger, for every number of       *)
(* requests, wallets, accounts and tokens: each is an instance of its      *)
(* module, with an inductive invariant that says what a request in the     *)
(* middle of its awaits may still hold, one lemma for each kind of step,   *)
(* and the theorems that follow.                                           *)
(***************************************************************************)
EXTENDS Integers, Sequences, FiniteSets, FiniteSetTheorems, SequenceTheorems,
        WellFoundedInduction, TLAPS

CONSTANTS ShareNames, MaxMirrors, Accepts, ShareEdits,
          MaxWallets, MaxHashes, UserRequests, Payers, Grants,
          Expiry, MaxEdits, MaxUsers, AccountIds, AccountNames, LightningNames, LoginLimit,
          MaxAccounts, MaxStops, MaxRelease,
          Junk, NoValue, GuestPolicies, MaxEntries, Origins, Targets, Tables, Fields,
          RowsDefault, RowsLimit, RateLimit

VARIABLES shRow, shName, shMirrors, shTask, shCopy, shTarget, shClean, shRevoked,
          ueRow, ueSell, ueInvoices, ueTask, ueRemoved, ueLost,
          acKey, acAge, acIndex, acCheck, acChange, acLapsed, acServed,
          ssState, ssAge, ssIndex, ssCheck, ssChange, ssLapsed, ssServed,
          ssListed, ssEdit, ssWanted, ssOpened, ssLost,
          rgMemory, rgSaved, rgTask, rgAdmin, rgUsers, rgOverlap,
          loFailures, loBlocked, loKept, loGuesses, loAccess, loAdmin, loStray,
          loFirst, loInstall, loInstalled, loRace,
          waMirror, waRow, waTask, waMeant, waPaid, waOverlap, waTaken,
          anRow, anTask, anMeant, anOverlap, anReturned,
          srAt, srEnv, srVersion, srApplied, srMissing, srRows, srMemory, srNew, srMade,
          srClaimed, srFile, srTask, srOwner, srCut, srWiped, srRenewed, srStops,
          exZip, exFiles, exRow, exSchema, exVersion, exCached, exServed, exOff, exOp, exFailed,
          permission, requested, granted, overridden, served

W == INSTANCE SharedWallets WITH Edits <- ShareEdits, Names <- ShareNames
U == INSTANCE UserExtensions WITH Requests <- UserRequests
A == INSTANCE AuthCache
S == INSTANCE Sessions
R == INSTANCE Registrations WITH Requests <- UserRequests
O == INSTANCE Logins WITH Limit <- LoginLimit, Installs <- UserRequests
V == INSTANCE Wallets WITH Addresses <- LightningNames, Tasks <- UserRequests
N == INSTANCE Accounts WITH Ids <- AccountIds, Names <- AccountNames, Tasks <- UserRequests
T == INSTANCE ServerStart
X == INSTANCE Extensions
G == INSTANCE WasmGrants WITH Entries <- GuestPolicies

ASSUME WConstants == W!ShareConstants
ASSUME UConstants == U!UserConstants
ASSUME AConstants == A!CacheConstants
ASSUME SConstants == S!SessionConstants
ASSUME RConstants == R!RegistrationConstants
ASSUME OConstants == O!LoginConstants
ASSUME VConstants == V!WalletConstants
ASSUME NConstants == N!AccountConstants
ASSUME TConstants == T!StartConstants
ASSUME XConstants == X!ExtensionConstants
ASSUME GConstants == G!GrantConstants

-----------------------------------------------------------------------------
(* Sharing a wallet.  The mirrors an approval names, in the owner's row or in *)
(* a copy of it, have been created; while nothing was accepted since the      *)
(* revocation looked for mirrors none but the one it has found is live; after *)
(* a revocation that left none no approval names a live mirror; and after any *)
(* other the owner's row has no approval.                                     *)
Approval(share, m) == share.status = "approved" /\ share.mirror = m
WNames(m) == Approval(shRow, m) \/ \E t \in W!Tasks : Approval(shCopy[t], m)
WNamedExist ==
    /\ \A m \in W!Mirrors : WNames(m) => shMirrors[m] # "new"
    /\ \A t \in Accepts : shTask[t] = "write" =>
         /\ shTarget[t] \in W!Mirrors /\ shMirrors[shTarget[t]] # "new"
WCleanFinds ==
    shClean =>
      /\ \A t \in Accepts : shTask[t] = "idle"
      /\ shTask["revoke"] = "delete" => shTarget["revoke"] \in W!Mirrors /\ W!Live \subseteq {shTarget["revoke"]}
      /\ shTask["revoke"] = "write" => W!Live = {}
WRevokedNames ==
    /\ shRevoked = "gone" => \A m \in W!Live : ~WNames(m)
    /\ shRevoked = "left" => shRow.status # "approved"
WInv == W!TypeOK /\ WNamedExist /\ WCleanFinds /\ WRevokedNames

LEMMA WInit == W!Init => WInv
<1> SUFFICES ASSUME W!Init PROVE WInv
  OBVIOUS
<1> USE DEF W!Init
<1>1. W!TypeOK
  BY DEF W!TypeOK, W!NotShared, W!Shares, W!None
<1>2. WNamedExist /\ WCleanFinds /\ WRevokedNames
  BY DEF WNamedExist, WCleanFinds, WRevokedNames, WNames, Approval, W!NotShared, W!Live, W!Tasks
<1> QED
  BY <1>1, <1>2 DEF WInv

LEMMA WBegin ==
  ASSUME WInv, NEW t \in W!Tasks, W!Begin(t) PROVE WInv'
<1> USE DEF W!Begin, W!Move, WInv
<1>1. W!TypeOK'
  BY DEF W!TypeOK, W!Shares
<1>2. \A m : WNames(m)' => WNames(m)
  BY DEF WNames, W!TypeOK, W!Shares, Approval
<1>3. WNamedExist'
  BY <1>2, WConstants DEF WNamedExist, W!TypeOK, W!ShareConstants, W!Tasks
<1>4. WCleanFinds'
  BY WConstants DEF WCleanFinds, W!TypeOK, W!ShareConstants, W!Tasks, W!Live
<1>5. WRevokedNames'
  BY <1>2 DEF WRevokedNames, W!Live
<1> QED
  BY <1>1, <1>3, <1>4, <1>5

LEMMA WCreate ==
  ASSUME WInv, NEW t \in W!Tasks, W!Create(t) PROVE WInv'
<1> USE DEF W!Create, W!Move, WInv
<1> PICK m \in W!Mirrors :
      /\ shMirrors[m] = "new"
      /\ shMirrors' = [shMirrors EXCEPT ![m] = "live"] /\ shTarget' = [shTarget EXCEPT ![t] = m]
  BY DEF W!Create
<1>0. ~WNames(m) /\ shClean = FALSE /\ shClean' = FALSE
  BY DEF WNamedExist, WCleanFinds, W!TypeOK
<1>1. W!TypeOK'
  BY DEF W!TypeOK
<1>2. \A l : WNames(l)' <=> WNames(l)
  BY DEF WNames
<1>3. WNamedExist'
  BY <1>2, WConstants DEF WNamedExist, W!TypeOK, W!Tasks
<1>4. WCleanFinds'
  BY <1>0 DEF WCleanFinds
<1>5. WRevokedNames'
  BY <1>0, <1>2 DEF WRevokedNames, W!Live, W!TypeOK
<1> QED
  BY <1>1, <1>3, <1>4, <1>5

LEMMA WWrite ==
  ASSUME WInv, NEW t \in W!Tasks, W!Write(t) PROVE WInv'
<1> USE DEF W!Write, W!Move, WInv, W!Written
<1>1. W!TypeOK'
  BY DEF W!TypeOK, W!Shares, W!NotShared, W!None
<1>2. ASSUME NEW m, WNames(m)'
      PROVE  WNames(m) \/ (t \in Accepts /\ m = shTarget[t])
  BY <1>2, WConstants DEF WNames, W!TypeOK, Approval, W!NotShared, W!ShareConstants
<1>3. WNamedExist'
  BY <1>2, WConstants DEF WNamedExist, W!TypeOK, W!Tasks
<1>4. WCleanFinds'
  BY WConstants DEF WCleanFinds, W!TypeOK, W!Tasks, W!Live, W!ShareConstants
<1>5. WRevokedNames'
  <2>1. CASE t \in Accepts
    <3>1. shRevoked' = "no"
      BY <2>1, WConstants DEF W!ShareConstants
    <3> QED
      BY <3>1 DEF WRevokedNames
  <2>2. CASE t = "revoke"
    BY <2>2, WConstants DEF WRevokedNames, WCleanFinds, W!Live, W!ShareConstants, W!NotShared
  <2>3. CASE t \notin Accepts /\ t # "revoke"
    BY <2>3, <1>2 DEF WRevokedNames, W!Live
  <2> QED
    BY <2>1, <2>2, <2>3
<1> QED
  BY <1>1, <1>3, <1>4, <1>5

LEMMA WFind ==
  ASSUME WInv, W!Find PROVE WInv'
<1> USE DEF W!Find, W!Move, WInv
<1>0. "revoke" \in W!Tasks /\ "revoke" \notin Accepts
  BY WConstants DEF W!Tasks, W!ShareConstants
<1>a. W!Live \subseteq W!Mirrors /\ W!Live' = W!Live /\ W!Found \subseteq W!Live
  BY DEF W!Live, W!Found
<1>b. shClean' => W!Live = W!Found /\ (\A l, m \in W!Live : l = m) /\ \A t \in Accepts : shTask[t] = "idle"
  OBVIOUS
<1>c. /\ shTask["revoke"] = "find" /\ \A t \in Accepts : shTask'[t] = shTask[t]
      /\ W!Found = {} => shTask'["revoke"] = "write"
      /\ W!Found # {} => shTask'["revoke"] = "delete" /\ shTarget'["revoke"] \in W!Found
  BY <1>0 DEF W!TypeOK, W!Tasks
<1>1. W!TypeOK'
  <2>1. shTarget' \in [W!Tasks -> W!Mirrors \union {W!None}]
    BY <1>a DEF W!TypeOK
  <2>2. shTask' \in [W!Tasks -> {"idle", "find", "create", "delete", "write"}]
    BY DEF W!TypeOK
  <2> QED
    BY <2>1, <2>2 DEF W!TypeOK
<1>2. \A m : WNames(m)' <=> WNames(m)
  BY DEF WNames
<1>3. WNamedExist'
  <2>1. \A t \in Accepts : shTask'[t] = "write" => shTask[t] = "write" /\ shTarget'[t] = shTarget[t]
    BY <1>0, <1>c DEF W!TypeOK, W!Tasks
  <2>2. shMirrors' = shMirrors
    OBVIOUS
  <2> QED
    BY <1>2, <2>1, <2>2 DEF WNamedExist
<1>4. WCleanFinds'
  <2> HIDE DEF W!Find, W!Move
  <2> QED
    BY <1>a, <1>b, <1>c DEF WCleanFinds
<1>5. WRevokedNames'
  BY <1>2, <1>a DEF WRevokedNames
<1> QED
  BY <1>1, <1>3, <1>4, <1>5

LEMMA WDelete ==
  ASSUME WInv, W!Delete PROVE WInv'
<1> USE DEF W!Delete, W!Move, WInv
<1>0. "revoke" \in W!Tasks /\ "revoke" \notin Accepts
  BY WConstants DEF W!Tasks, W!ShareConstants
<1>1. W!TypeOK'
  BY <1>0 DEF W!TypeOK
<1>2. \A m : WNames(m)' <=> WNames(m)
  BY DEF WNames
<1>3. WNamedExist'
  BY <1>0, <1>2 DEF WNamedExist, W!TypeOK
<1>4. WCleanFinds'
  <2>1. W!Live' = W!Live \ {shTarget["revoke"]}
    BY DEF W!Live, W!TypeOK
  <2> QED
    BY <2>1, <1>0 DEF WCleanFinds, W!TypeOK
<1>5. WRevokedNames'
  BY <1>2 DEF WRevokedNames, W!Live, W!TypeOK
<1> QED
  BY <1>1, <1>3, <1>4, <1>5

LEMMA WAbort ==
  ASSUME WInv, NEW t \in W!Tasks, W!Abort(t) PROVE WInv'
<1> USE DEF W!Abort, W!Move, WInv
<1>1. W!TypeOK'
  BY DEF W!TypeOK, W!Shares, W!NotShared, W!None
<1>2. ASSUME NEW m, WNames(m)' PROVE WNames(m)
  BY <1>2 DEF WNames, W!TypeOK, Approval, W!NotShared
<1>3. WNamedExist'
  BY <1>2, WConstants DEF WNamedExist, W!TypeOK, W!Tasks
<1>4. WCleanFinds'
  BY WConstants DEF WCleanFinds, W!TypeOK, W!Tasks, W!Live
<1>5. WRevokedNames'
  BY <1>2 DEF WRevokedNames, W!Live
<1> QED
  BY <1>1, <1>3, <1>4, <1>5

LEMMA WRename ==
  ASSUME WInv, W!Rename PROVE WInv'
BY DEF W!Rename, WInv, W!TypeOK, WNamedExist, WCleanFinds, WRevokedNames, WNames, W!Live

LEMMA WMirror ==
  ASSUME WInv, NEW m \in W!Mirrors, W!DeleteMirror(m) \/ W!UndeleteMirror(m) PROVE WInv'
<1> USE DEF W!DeleteMirror, W!UndeleteMirror, W!MirrorChanges, WInv
<1>1. W!TypeOK'
  BY DEF W!TypeOK
<1>2. \A l : WNames(l)' <=> WNames(l)
  BY DEF WNames
<1>3. WNamedExist'
  BY <1>2 DEF WNamedExist, W!TypeOK
<1>4. WCleanFinds'
  BY DEF WCleanFinds, W!TypeOK, W!Live
<1>5. WRevokedNames'
  BY <1>2 DEF WRevokedNames, W!Live, W!TypeOK
<1> QED
  BY <1>1, <1>3, <1>4, <1>5

(* The invariant of shared wallets holds (core/services/wallets.py 26-202).  *)
THEOREM WInvHolds == W!Spec => []WInv
<1>1. WInv /\ [W!Next]_(W!vars) => WInv'
  <2> SUFFICES ASSUME WInv, [W!Next]_(W!vars) PROVE WInv'
    OBVIOUS
  <2>1. CASE W!Next
    BY <2>1, WBegin, WCreate, WWrite, WFind, WDelete, WAbort, WRename, WMirror DEF W!Next
  <2>2. CASE UNCHANGED W!vars
    BY <2>2 DEF W!vars, WInv, W!TypeOK, WNamedExist, WCleanFinds, WRevokedNames, WNames, W!Live
  <2> QED
    BY <2>1, <2>2
<1> QED
  BY WInit, <1>1, PTL DEF W!Spec

(* Once delete_wallet_share has ended, the guest has no rights in the wallet *)
(* until he accepts again, a mirror is undeleted or, where a mirror was left *)
(* (the name in the share no longer led to it, he had two, he accepted       *)
(* meanwhile), a copy with the share is written back (services/wallets.py    *)
(* 104-202): any number of his requests, of edits, of mirrors and of names.  *)
THEOREM RevokedStaysRevoked == W!Spec => []W!RevokedStaysRevoked
<1>1. WInv => W!RevokedStaysRevoked
  BY DEF WInv, W!TypeOK, WRevokedNames, WNames, Approval, W!RevokedStaysRevoked, W!HasRights
<1> QED
  BY WInvHolds, <1>1, PTL

-----------------------------------------------------------------------------
(* What a user enables, pays for and grants.  The row a request has read is  *)
(* the user's in what it does not change, unless somebody wrote since; it has *)
(* none of the grants that were removed; and the invoice it has made is paid *)
(* to the wallet it has read.                                                *)
UKnows(q) ==
    /\ q.row.grants \intersect ueRemoved = {} /\ q.row.grants \intersect q.gone = {}
    /\ q.gone # {} => q.at = "write"
    /\ q.at \in {"decide", "ask", "write"} => q.row.made
    /\ q.at \in U!HasRead /\ ~q.old => q.row.hash = ueRow.hash /\ (ueRow.paid => q.row.paid)
    /\ q.hash # 0 => /\ q.at \in {"read", "insert", "write"}
                     /\ ueInvoices[q.hash].state # "new" /\ ueInvoices[q.hash].wallet = q.sell
URowInv == ~ueRow.made => ueRow.hash = 0 /\ ~ueRow.paid /\ ~ueRow.active
UInv == /\ U!TypeOK /\ URowInv /\ \A t \in UserRequests : UKnows(ueTask[t])
        /\ U!RemovedStaysRemoved /\ U!PaidEnables

LEMMA UIdle == U!Idle \in U!Works /\ U!NoRow \in U!Rows /\ U!NewRow \in U!Rows
BY DEF U!Idle, U!Works, U!NoRow, U!NewRow, U!Rows, U!None

LEMMA UIdleKnows == UKnows(U!Idle)
BY DEF U!Idle, U!NoRow, UKnows, U!None, U!HasRead

LEMMA UInit == U!Init => UInv
<1> SUFFICES ASSUME U!Init PROVE UInv
  OBVIOUS
<1> USE DEF U!Init
<1>1. U!TypeOK
  BY UIdle DEF U!TypeOK, U!None
<1>2. URowInv /\ U!RemovedStaysRemoved /\ U!PaidEnables
  BY DEF URowInv, U!RemovedStaysRemoved, U!PaidEnables, U!NoRow, U!None
<1>3. \A t \in UserRequests : UKnows(ueTask[t])
  BY UIdleKnows
<1> QED
  BY <1>1, <1>2, <1>3 DEF UInv

(* A step after which one request knows what it should, and which writes     *)
(* nothing.                                                                  *)
LEMMA UBecomes ==
  ASSUME UInv, NEW t \in UserRequests, NEW q \in U!Works, U!Becomes(t, q),
         UNCHANGED <<ueRow, ueSell, ueInvoices, ueRemoved, ueLost>>, UKnows(q)
  PROVE  UInv'
<1> USE DEF UInv, U!Becomes
<1>1. U!TypeOK'
  BY DEF U!TypeOK
<1>2. URowInv' /\ U!RemovedStaysRemoved' /\ U!PaidEnables'
  BY DEF URowInv, U!RemovedStaysRemoved, U!PaidEnables
<1>3. ASSUME NEW r \in UserRequests PROVE UKnows(ueTask[r])'
  <2>1. ueTask'[r] = IF r = t THEN q ELSE ueTask[r]
    BY DEF U!TypeOK
  <2> QED
    BY <2>1 DEF UKnows
<1> QED
  BY <1>1, <1>2, <1>3

LEMMA UBegin ==
  ASSUME UInv, NEW t \in UserRequests, U!Enable(t) \/ U!Disable(t) \/ U!EditUser(t) \/ U!Invoice(t)
  PROVE  UInv'
<1> USE UIdle DEF UInv
<1>1. ueRow \in U!Rows /\ ueSell \in U!Wallets \union {0}
  BY DEF U!TypeOK, U!None
<1>2. ASSUME NEW row \in U!Rows,
             NEW at \in {"insert", "add", "decide", "create", "write"}, U!Begins(t, at, row),
             UNCHANGED <<ueRow, ueSell, ueInvoices, ueRemoved, ueLost>>,
             row.grants \intersect ueRemoved = {}, at \in {"write", "decide"} => row.made,
             at \in U!HasRead => row.hash = ueRow.hash /\ row.paid = ueRow.paid
      PROVE  UInv'
  <2> DEFINE q == [U!Idle EXCEPT !.at = at, !.row = row,
                       !.sell = IF at \in {"write", "add"} THEN U!None ELSE ueSell]
  <2>1. q \in U!Works /\ q.at = at /\ q.row = row /\ q.gone = {} /\ q.hash = 0
    BY <1>1 DEF U!Works, U!None, U!Idle
  <2>2. U!Becomes(t, q)
    BY <1>2 DEF U!Begins
  <2> HIDE DEF q
  <2>3. UKnows(q)
    BY <1>2, <2>1 DEF UKnows
  <2> QED
    BY <1>2, <2>1, <2>2, <2>3, UBecomes
<1>3. CASE U!Enable(t)
  BY <1>1, <1>2, <1>3 DEF U!Enable, U!history, U!HasRead, U!RemovedStaysRemoved
<1>4. CASE U!Disable(t)
  BY <1>1, <1>2, <1>4 DEF U!Disable, U!history, U!HasRead, U!RemovedStaysRemoved, URowInv, U!Rows
<1>5. CASE U!EditUser(t)
  BY <1>1, <1>2, <1>5 DEF U!EditUser, U!history, U!HasRead, U!RemovedStaysRemoved, U!Rows
<1>6. CASE U!Invoice(t)
  BY <1>1, <1>2, <1>6 DEF U!Invoice, U!history, U!HasRead, U!NoRow
<1> QED
  BY <1>3, <1>4, <1>5, <1>6

LEMMA UGoOn ==
  ASSUME UInv, NEW t \in UserRequests, U!Decide(t) \/ U!Ask(t) \/ U!Read(t) \/ U!Abort(t)
  PROVE  UInv'
<1> DEFINE q == ueTask[t]
<1>1. q \in U!Works /\ q.row \in U!Rows /\ UKnows(q) /\ ueRow \in U!Rows
  BY DEF UInv, U!TypeOK, U!Works
<1>2. UNCHANGED <<ueRow, ueSell, ueInvoices, ueRemoved, ueLost>>
  BY DEF U!Decide, U!Ask, U!Read, U!Abort, U!history
<1>3. CASE U!Ends(t)
  BY <1>2, <1>3, UIdle, UIdleKnows, UBecomes DEF U!Ends
<1>4. ASSUME NEW p \in BOOLEAN, q.row.paid => p, q.at \in {"decide", "ask"}, U!Enables(t, p)
      PROVE  UInv'
  <2> DEFINE w == [q.row EXCEPT !.active = TRUE, !.paid = p]
             n == [q EXCEPT !.at = "write", !.sell = U!None, !.row = w]
  <2>1. w \in U!Rows /\ w.hash = q.row.hash /\ w.grants = q.row.grants /\ w.made = q.row.made /\ w.paid = p
    BY <1>1 DEF U!Rows
  <2> HIDE DEF w
  <2>2. n \in U!Works /\ n.at = "write" /\ n.row = w /\ n.gone = q.gone /\ n.old = q.old /\ n.hash = q.hash
    BY <1>1, <2>1 DEF U!Works, U!None
  <2>3. U!Becomes(t, n)
    BY <1>4 DEF U!Enables, w
  <2> HIDE DEF n
  <2>4. q.row.made
    BY <1>1, <1>4 DEF UKnows
  <2>5. UKnows(n)
    BY <1>1, <1>4, <2>1, <2>2, <2>4 DEF UKnows, U!HasRead
  <2> QED
    BY <1>2, <2>2, <2>3, <2>5, UBecomes
<1>5. CASE U!Decide(t) /\ ~U!Ends(t)
  <2>1. CASE U!Enables(t, q.row.paid)
    <3>1. q.row.paid \in BOOLEAN
      BY <1>1 DEF U!Rows
    <3> QED
      BY <1>4, <1>5, <2>1, <3>1 DEF U!Decide, U!At
  <2>2. CASE U!Becomes(t, [q EXCEPT !.at = "ask"])
    <3> DEFINE n == [q EXCEPT !.at = "ask"]
    <3>1. n \in U!Works /\ n.at = "ask" /\ n.row = q.row /\ n.gone = q.gone /\ n.old = q.old /\ n.hash = q.hash
      BY <1>1 DEF U!Works
    <3> HIDE DEF n
    <3>2. UKnows(n)
      BY <1>1, <1>5, <3>1 DEF UKnows, U!Decide, U!At, U!HasRead
    <3> QED
      BY <1>2, <2>2, <3>1, <3>2, UBecomes DEF n
  <2> QED
    BY <1>5, <2>1, <2>2 DEF U!Decide
<1>6. CASE U!Ask(t) /\ ~U!Ends(t)
  BY <1>4, <1>6 DEF U!Ask, U!At
<1>7. CASE U!Read(t)
  <2> DEFINE n == [q EXCEPT !.at = IF ueRow.made THEN "write" ELSE "insert", !.row = ueRow, !.old = FALSE]
  <2>1. /\ n \in U!Works /\ n.at = IF ueRow.made THEN "write" ELSE "insert"
        /\ n.row = ueRow /\ n.gone = q.gone /\ n.old = FALSE /\ n.hash = q.hash /\ n.sell = q.sell
    BY <1>1 DEF U!Works
  <2>2. U!Becomes(t, n) /\ q.at = "read"
    BY <1>7 DEF U!Read, U!At
  <2> HIDE DEF n
  <2>3. UKnows(n)
    BY <1>1, <2>1, <2>2 DEF UKnows, UInv, U!RemovedStaysRemoved
  <2> QED
    BY <1>2, <2>1, <2>2, <2>3, UBecomes
<1> QED
  BY <1>3, <1>5, <1>6, <1>7 DEF U!Abort

(* The other requests once the row was written: what they have read is old.  *)
UInvoicesStay ==
    \A h \in U!Hashes : /\ ueInvoices'[h].wallet = ueInvoices[h].wallet
                        /\ ueInvoices[h].state # "new" => ueInvoices'[h].state # "new"
LEMMA UOthersKnow ==
  ASSUME UInv, NEW t \in UserRequests,
         ueRemoved' \subseteq ueRemoved \/ U!Alone(t),
         UInvoicesStay,
         NEW r \in UserRequests,
         ueTask'[r] = [ueTask[r] EXCEPT !.old = ueTask[r].old \/ ueTask[r].at \in U!HasRead],
         r # t, U!Alone(t) => ueTask[r] = U!Idle
  PROVE  UKnows(ueTask[r])' /\ ueTask'[r] \in U!Works
<1> DEFINE q == ueTask[r]
           n == [q EXCEPT !.old = q.old \/ q.at \in U!HasRead]
<1>1. q \in U!Works /\ UKnows(q)
  BY DEF UInv, U!TypeOK
<1>2. /\ n \in U!Works /\ n.at = q.at /\ n.row = q.row /\ n.gone = q.gone /\ n.hash = q.hash /\ n.sell = q.sell
      /\ n.old = (q.old \/ q.at \in U!HasRead)
  BY <1>1 DEF U!Works
<1>3. ueTask'[r] = n
  OBVIOUS
<1> HIDE DEF n
<1>4. n.at \in U!HasRead => n.old
  BY <1>2
<1>5. n.hash # 0 => n.hash \in U!Hashes
  BY <1>2 DEF U!Works, U!None
<1>6. n.row.grants \intersect ueRemoved' = {}
  <2>1. CASE ueRemoved' \subseteq ueRemoved
    BY <1>1, <1>2, <2>1 DEF UKnows
  <2>2. CASE q = U!Idle
    BY <1>2, <2>2 DEF U!Idle, U!NoRow
  <2> QED
    BY <2>1, <2>2
<1> QED
  <2>1. n.hash # 0 => ueInvoices'[n.hash].state # "new" /\ ueInvoices'[n.hash].wallet = n.sell
    <3> SUFFICES ASSUME n.hash # 0
                 PROVE  ueInvoices'[n.hash].state # "new" /\ ueInvoices'[n.hash].wallet = n.sell
      OBVIOUS
    <3>1. ueInvoices[n.hash].state # "new" /\ ueInvoices[n.hash].wallet = n.sell
      BY <1>1, <1>2 DEF UKnows
    <3>2. /\ ueInvoices'[n.hash].wallet = ueInvoices[n.hash].wallet
          /\ ueInvoices[n.hash].state # "new" => ueInvoices'[n.hash].state # "new"
      BY <1>5 DEF UInvoicesStay
    <3> QED
      BY <3>1, <3>2
  <2> QED
    BY <1>1, <1>2, <1>3, <1>4, <1>6, <2>1 DEF UKnows

(* A new row of a user who has none.                                         *)
LEMMA UFirst ==
  ASSUME UInv, NEW t \in UserRequests, U!Insert(t) \/ U!Add(t) PROVE UInv'
<1> DEFINE q == ueTask[t]
<1>1. q \in U!Works /\ q.row \in U!Rows /\ UKnows(q) /\ ueRow \in U!Rows
  BY DEF UInv, U!TypeOK, U!Works
<1>2. UNCHANGED <<ueSell, ueInvoices, ueRemoved, ueLost>>
  BY DEF U!Insert, U!Add, U!history
<1>3. CASE ueRow.made
  BY <1>2, <1>3, UIdle, UIdleKnows, UBecomes DEF U!Ends, U!Insert, U!Add
<1>4. ASSUME NEW row \in U!Rows, NEW task \in U!Works, U!Put(t, row, task), ~ueRow.made,
             row.made, row.hash = 0, row.grants = {}, UKnows(task)'
      PROVE  UInv'
  <2>1. \A r \in UserRequests : UKnows(ueTask[r])' /\ ueTask'[r] \in U!Works
    <3> TAKE r \in UserRequests
    <3>1. CASE r = t
      BY <1>4, <3>1 DEF U!Put
    <3>2. CASE r # t
      BY <1>2, <1>4, <3>2, UOthersKnow DEF U!Put, U!Alone, UInvoicesStay
    <3> QED
      BY <3>1, <3>2
  <2>2. U!TypeOK'
    <3>1. ueTask' \in [UserRequests -> U!Works]
      BY <1>4, <2>1 DEF U!Put
    <3> QED
      BY <1>2, <1>4, <3>1 DEF UInv, U!TypeOK, U!Put
  <2>3. URowInv' /\ U!RemovedStaysRemoved'
    BY <1>4 DEF U!Put, URowInv, U!RemovedStaysRemoved
  <2>4. U!PaidEnables'
    <3>1. ueRow.hash = 0 /\ ~ueRow.paid /\ 0 \notin U!Hashes
      BY <1>4 DEF UInv, URowInv, U!Hashes
    <3> QED
      BY <1>2, <3>1 DEF U!PaidEnables, UInv
  <2> QED
    BY <2>1, <2>2, <2>3, <2>4 DEF UInv
<1>5. CASE U!Insert(t) /\ ~ueRow.made
  <2> PICK n : n = [q EXCEPT !.row = U!NewRow, !.old = FALSE,
                       !.at = IF U!InvoiceOf(t) = U!None THEN "decide" ELSE "write"]
    OBVIOUS
  <2>1. /\ n \in U!Works /\ n.row = U!NewRow /\ n.old = FALSE /\ n.gone = q.gone /\ n.hash = q.hash
        /\ n.sell = q.sell /\ n.at = IF q.hash = 0 THEN "decide" ELSE "write"
    BY <1>1, UIdle DEF U!Works, U!InvoiceOf, U!None
  <2>2. U!Put(t, U!NewRow, n) /\ q.at = "insert"
    BY <1>5 DEF U!Insert, U!At
  <2>3. U!NewRow.made /\ U!NewRow.hash = 0 /\ U!NewRow.grants = {} /\ ~U!NewRow.paid
    BY DEF U!NewRow, U!NoRow, U!None
  <2>4. UKnows(n)'
    <3>1. ueRow' = U!NewRow
      BY <2>2 DEF U!Put
    <3> QED
      BY <1>1, <1>2, <2>1, <2>2, <2>3, <3>1 DEF UKnows
  <2> QED
    BY <1>4, <1>5, <2>1, <2>2, <2>3, <2>4, UIdle
<1>6. CASE U!Add(t) /\ ~ueRow.made
  <2> DEFINE row == [U!NewRow EXCEPT !.active = TRUE]
  <2>1. row \in U!Rows /\ row.made /\ row.hash = 0 /\ row.grants = {}
    BY UIdle DEF U!NewRow, U!NoRow, U!None, U!Rows
  <2>2. U!Put(t, row, U!Idle)
    BY <1>6 DEF U!Add
  <2> HIDE DEF row
  <2>3. UKnows(U!Idle)'
    BY DEF U!Idle, U!NoRow, UKnows, U!None, U!HasRead
  <2> QED
    BY <1>4, <1>6, <2>1, <2>2, <2>3, UIdle
<1> QED
  BY <1>3, <1>5, <1>6

LEMMA UWrite ==
  ASSUME UInv, NEW t \in UserRequests, U!Write(t) PROVE UInv'
<1> DEFINE q == ueTask[t]
           row == U!Writes(t)
<1>1. /\ q \in U!Works /\ q.row \in U!Rows /\ UKnows(q) /\ ueRow \in U!Rows /\ q.at = "write"
      /\ ueTask \in [UserRequests -> U!Works]
  BY DEF UInv, U!TypeOK, U!Works, U!Write, U!At
<1>2. /\ row \in U!Rows /\ row.grants = q.row.grants /\ row.made /\ row.paid = q.row.paid
      /\ row.hash = IF q.hash = 0 THEN q.row.hash ELSE q.hash
  BY <1>1 DEF U!Writes, U!InvoiceOf, U!None, U!Rows, U!Works, UKnows
<1>3. U!Put(t, row, U!Idle) /\ ueRow' = row /\ ueSell' = ueSell
  BY DEF U!Write, U!Put
<1> HIDE DEF row
<1>4. \A h \in U!Hashes :
        /\ ueInvoices'[h] \in [wallet : U!Wallets \union {U!None}, state : {"new", "made", "told", "paid"}]
        /\ ueInvoices'[h].wallet = ueInvoices[h].wallet
        /\ h = q.hash => ueInvoices'[h].state = "told"
        /\ h # q.hash => ueInvoices'[h] = ueInvoices[h]
  BY DEF U!Write, U!InvoiceOf, UInv, U!TypeOK
<1>5. ueRemoved' \subseteq ueRemoved \/ U!Alone(t)
  BY DEF U!Write
<1>6. ueRemoved' \subseteq ueRemoved \union q.gone /\ ueRemoved' \subseteq Grants
  BY <1>1 DEF U!Write, U!Works, UInv, U!TypeOK
<1>7. UKnows(U!Idle)'
  BY DEF U!Idle, U!NoRow, UKnows, U!None, U!HasRead
<1>8. \A r \in UserRequests : UKnows(ueTask[r])' /\ ueTask'[r] \in U!Works
  <2> TAKE r \in UserRequests
  <2>1. CASE r = t
    BY <1>3, <1>7, <2>1, UIdle DEF U!Put
  <2>2. CASE r # t
    <3>1. UInvoicesStay
      BY <1>4 DEF UInvoicesStay
    <3>2. ueTask'[r] = [ueTask[r] EXCEPT !.old = ueTask[r].old \/ ueTask[r].at \in U!HasRead]
      BY <1>3, <2>2 DEF U!Put
    <3>3. U!Alone(t) => ueTask[r] = U!Idle
      BY <2>2 DEF U!Alone
    <3> HIDE DEF q
    <3> QED
      BY <1>5, <2>2, <3>1, <3>2, <3>3, UOthersKnow
  <2> QED
    BY <2>1, <2>2
<1>9. ueLost' \subseteq U!Hashes
  <2>1. q.hash # 0 => q.hash \in U!Hashes
    BY <1>1 DEF U!Works, U!None
  <2> QED
    BY <2>1 DEF U!Write, U!Told, U!InvoiceOf, UInv, U!TypeOK, U!None
<1>10. U!TypeOK'
  <2>1. ueTask' \in [UserRequests -> U!Works]
    BY <1>3, <1>8 DEF U!Put
  <2>2. ueInvoices' \in [U!Hashes -> [wallet : U!Wallets \union {U!None}, state : {"new", "made", "told", "paid"}]]
    BY <1>4 DEF U!Write
  <2> QED
    BY <1>2, <1>3, <1>6, <1>9, <2>1, <2>2 DEF UInv, U!TypeOK
<1>11. URowInv' /\ U!RemovedStaysRemoved'
  BY <1>1, <1>2, <1>3, <1>6 DEF URowInv, U!RemovedStaysRemoved, UKnows
<1>12. U!PaidEnables'
  <2> SUFFICES ASSUME NEW h \in U!Hashes, h \notin ueLost', ueInvoices'[h].state \in {"told", "paid"}
               PROVE  row.paid \/ (row.hash = h /\ ueInvoices[h].wallet = ueSell)
    BY <1>3, <1>4 DEF U!PaidEnables
  <2>0. 0 \notin U!Hashes
    BY DEF U!Hashes
  <2>1. ~q.old
    BY DEF U!Write
  <2>2. q.row.hash = ueRow.hash /\ (ueRow.paid => q.row.paid)
    BY <1>1, <2>1 DEF UKnows, U!HasRead
  <2>3. CASE q.hash = 0
    <3>1. ueLost' = ueLost /\ ueInvoices'[h] = ueInvoices[h]
      BY <1>4, <2>0, <2>1, <2>3 DEF U!Write, U!InvoiceOf, U!None
    <3> QED
      BY <1>2, <2>2, <2>3, <3>1 DEF UInv, U!PaidEnables
  <2>4. CASE q.hash # 0
    <3>1. ueLost' = ueLost \union U!Told \union (IF ueSell = q.sell THEN {} ELSE {q.hash})
      BY <2>1, <2>4 DEF U!Write, U!InvoiceOf, U!None
    <3>2. h = q.hash
      BY <1>4, <3>1 DEF U!Told
    <3>3. ueSell = q.sell
      BY <3>1, <3>2
    <3> QED
      BY <1>1, <1>2, <2>4, <3>2, <3>3 DEF UKnows
  <2> QED
    BY <2>3, <2>4
<1> QED
  BY <1>8, <1>10, <1>11, <1>12 DEF UInv

LEMMA UCreate ==
  ASSUME UInv, NEW t \in UserRequests, U!Create(t) PROVE UInv'
<1> DEFINE q == ueTask[t]
<1>1. /\ q \in U!Works /\ UKnows(q) /\ q.at = "create" /\ ueTask \in [UserRequests -> U!Works]
      /\ ueInvoices \in [U!Hashes -> [wallet : U!Wallets \union {U!None}, state : {"new", "made", "told", "paid"}]]
  BY DEF UInv, U!TypeOK, U!Create, U!At
<1> PICK h \in U!Hashes :
      /\ ueInvoices[h].state = "new"
      /\ ueInvoices' = [ueInvoices EXCEPT ![h] = [wallet |-> q.sell, state |-> "made"]]
      /\ U!Becomes(t, [q EXCEPT !.at = "read", !.hash = h])
  BY DEF U!Create
<1> DEFINE n == [q EXCEPT !.at = "read", !.hash = h]
<1>2. /\ n \in U!Works /\ n.at = "read" /\ n.hash = h /\ n.sell = q.sell /\ n.row = q.row
      /\ n.gone = q.gone /\ n.old = q.old
  BY <1>1 DEF U!Works
<1>3. ueTask' = [ueTask EXCEPT ![t] = n]
  BY DEF U!Becomes
<1> HIDE DEF n
<1>4. UNCHANGED <<ueRow, ueSell, ueRemoved, ueLost>>
  BY DEF U!Create, U!history
<1>5. q.sell \in U!Wallets \union {U!None}
  BY <1>1 DEF U!Works
<1>6. /\ ueInvoices'[h] = [wallet |-> q.sell, state |-> "made"]
      /\ \A i \in U!Hashes : i # h => ueInvoices'[i] = ueInvoices[i]
  BY <1>1
<1>7. U!TypeOK'
  BY <1>1, <1>2, <1>3, <1>4, <1>5 DEF UInv, U!TypeOK
<1>8. URowInv' /\ U!RemovedStaysRemoved'
  BY <1>4 DEF UInv, URowInv, U!RemovedStaysRemoved
<1>9. U!PaidEnables'
  BY <1>4, <1>6 DEF UInv, U!PaidEnables
<1>10. ASSUME NEW r \in UserRequests PROVE UKnows(ueTask[r])'
  <2>1. CASE r = t
    <3>1. ueTask'[r] = n
      BY <1>1, <1>3, <2>1
    <3> QED
      BY <1>1, <1>2, <1>4, <1>6, <3>1 DEF UKnows, U!HasRead
  <2>2. CASE r # t
    <3>1. ueTask'[r] = ueTask[r] /\ ueTask[r] \in U!Works /\ UKnows(ueTask[r])
      BY <1>1, <1>3, <2>2 DEF UInv
    <3>2. ueTask[r].hash # 0 => ueTask[r].hash \in U!Hashes /\ ueTask[r].hash # h
      BY <3>1 DEF UKnows, U!Works, U!None
    <3> QED
      BY <1>4, <1>6, <3>1, <3>2 DEF UKnows
  <2> QED
    BY <2>1, <2>2
<1> QED
  BY <1>7, <1>8, <1>9, <1>10 DEF UInv

LEMMA UGrant ==
  ASSUME UInv, NEW t \in UserRequests, NEW g \in Grants, U!Grant(t, g) \/ U!Remove(t, g)
  PROVE  UInv'
<1>1. ueRow \in U!Rows /\ ueSell \in U!Wallets \union {0} /\ ueTask \in [UserRequests -> U!Works]
  BY DEF UInv, U!TypeOK, U!None
<1>2. CASE U!Grant(t, g)
  <2> DEFINE row == [ueRow EXCEPT !.grants = @ \union {g}]
             n == [U!Idle EXCEPT !.at = "write", !.row = row, !.sell = U!None]
  <2>1. /\ row \in U!Rows /\ row.grants = ueRow.grants \union {g} /\ row.hash = ueRow.hash
        /\ row.paid = ueRow.paid /\ row.made = ueRow.made
    BY <1>1 DEF U!Rows
  <2> HIDE DEF row
  <2>2. n \in U!Works /\ n.at = "write" /\ n.row = row /\ n.gone = {} /\ n.hash = 0
    BY <2>1 DEF U!Works, U!Idle, U!None
  <2>3. ueTask' = [ueTask EXCEPT ![t] = n] /\ ueRow.active
    BY <1>2 DEF U!Grant, U!Begins, U!Becomes, row
  <2> HIDE DEF n
  <2>4. UNCHANGED <<ueRow, ueSell, ueInvoices, ueLost>> /\ ueRemoved' = ueRemoved \ {g}
    BY <1>2 DEF U!Grant
  <2>5. U!TypeOK'
    BY <1>1, <2>2, <2>3, <2>4 DEF UInv, U!TypeOK
  <2>6. URowInv' /\ U!RemovedStaysRemoved' /\ U!PaidEnables'
    BY <2>4 DEF UInv, URowInv, U!RemovedStaysRemoved, U!PaidEnables
  <2>7. ASSUME NEW r \in UserRequests PROVE UKnows(ueTask[r])'
    <3>1. CASE r = t
      <4>1. ueTask'[r] = n
        BY <1>1, <2>3, <3>1
      <4> QED
        BY <2>1, <2>2, <2>3, <2>4, <4>1 DEF UKnows, UInv, URowInv, U!RemovedStaysRemoved
    <3>2. CASE r # t
      <4>1. ueTask'[r] = ueTask[r] /\ UKnows(ueTask[r])
        BY <1>1, <2>3, <3>2 DEF UInv
      <4> QED
        BY <2>4, <4>1 DEF UKnows
    <3> QED
      BY <3>1, <3>2
  <2> QED
    BY <2>5, <2>6, <2>7 DEF UInv
<1>3. CASE U!Remove(t, g)
  <2> DEFINE row == [ueRow EXCEPT !.grants = U!Removes(g)]
             n == [U!Idle EXCEPT !.at = "write", !.gone = {g}, !.row = row]
  <2>1. /\ row \in U!Rows /\ row.grants = ueRow.grants \ {g} /\ row.hash = ueRow.hash
        /\ row.paid = ueRow.paid /\ row.made = ueRow.made
    BY <1>1 DEF U!Rows, U!Removes
  <2> HIDE DEF row
  <2>2. n \in U!Works /\ n.at = "write" /\ n.row = row /\ n.gone = {g} /\ n.hash = 0
    BY <2>1 DEF U!Works, U!Idle, U!None
  <2>3. U!Becomes(t, n) /\ ueRow.made
    BY <1>3 DEF U!Remove, row
  <2> HIDE DEF n
  <2>4. UNCHANGED <<ueRow, ueSell, ueInvoices, ueRemoved, ueLost>>
    BY <1>3 DEF U!Remove, U!history
  <2>5. UKnows(n)
    BY <2>1, <2>2, <2>3 DEF UKnows, UInv, U!RemovedStaysRemoved
  <2> QED
    BY <2>2, <2>3, <2>4, <2>5, UBecomes
<1> QED
  BY <1>2, <1>3

LEMMA USellPay ==
  ASSUME UInv, (\E w \in U!Wallets \union {U!None} : U!Sell(w)) \/ (\E h \in U!Hashes : U!Pay(h))
  PROVE  UInv'
<1>1. ASSUME NEW w \in U!Wallets \union {U!None}, U!Sell(w) PROVE UInv'
  <2> USE <1>1 DEF U!Sell, UInv
  <2>1. U!TypeOK'
    BY DEF U!TypeOK, U!Told
  <2>2. URowInv' /\ U!RemovedStaysRemoved' /\ \A r \in UserRequests : UKnows(ueTask[r])'
    BY DEF URowInv, U!RemovedStaysRemoved, UKnows
  <2>3. U!PaidEnables'
    BY DEF U!PaidEnables, U!Told
  <2> QED
    BY <2>1, <2>2, <2>3
<1>2. ASSUME NEW h \in U!Hashes, U!Pay(h) PROVE UInv'
  <2>1. /\ UNCHANGED <<ueRow, ueSell, ueTask, ueRemoved, ueLost>> /\ ueInvoices[h].state = "told"
        /\ ueInvoices' = [ueInvoices EXCEPT ![h].state = "paid"]
    BY <1>2 DEF U!Pay, U!history
  <2>2. ueInvoices' \in [U!Hashes -> [wallet : U!Wallets \union {U!None}, state : {"new", "made", "told", "paid"}]]
    BY <2>1 DEF UInv, U!TypeOK
  <2>3. \A i \in U!Hashes :
          /\ ueInvoices'[i].wallet = ueInvoices[i].wallet
          /\ ueInvoices[i].state # "new" => ueInvoices'[i].state # "new"
          /\ ueInvoices'[i].state \in {"told", "paid"} => ueInvoices[i].state \in {"told", "paid"}
    BY <2>1 DEF UInv, U!TypeOK
  <2>4. U!TypeOK' /\ URowInv' /\ U!RemovedStaysRemoved'
    BY <2>1, <2>2 DEF UInv, U!TypeOK, URowInv, U!RemovedStaysRemoved
  <2>5. U!PaidEnables'
    BY <2>1, <2>3 DEF UInv, U!PaidEnables
  <2>6. ASSUME NEW r \in UserRequests PROVE UKnows(ueTask[r])'
    <3>1. ueTask[r] \in U!Works /\ UKnows(ueTask[r]) /\ ueTask' = ueTask
      BY <2>1 DEF UInv, U!TypeOK
    <3>2. ueTask[r].hash # 0 => ueTask[r].hash \in U!Hashes
      BY <3>1 DEF U!Works, U!None
    <3> QED
      BY <2>1, <2>3, <3>1, <3>2 DEF UKnows
  <2> QED
    BY <2>4, <2>5, <2>6 DEF UInv
<1> QED
  BY <1>1, <1>2

(* The invariant of a user's extensions holds (views/extension_api.py 300-842). *)
THEOREM UInvHolds == U!Spec => []UInv
<1>1. UInv /\ [U!Next]_(U!vars) => UInv'
  <2> SUFFICES ASSUME UInv, [U!Next]_(U!vars) PROVE UInv'
    OBVIOUS
  <2>1. CASE U!Next
    BY <2>1, UBegin, UGoOn, UFirst, UWrite, UCreate, UGrant, USellPay DEF U!Next, U!Steps
  <2>2. CASE UNCHANGED U!vars
    BY <2>2 DEF U!vars, UInv, U!TypeOK, URowInv, UKnows, U!RemovedStaysRemoved, U!PaidEnables
  <2> QED
    BY <2>1, <2>2
<1> QED
  BY UInit, <1>1, PTL DEF U!Spec

(* A grant a user removed while no other request of his was under way does   *)
(* not come back before he asks for it again (extension_api.py 784-842), for *)
(* any number of requests and permissions.                                   *)
THEOREM RemovedStaysRemoved == U!Spec => []U!RemovedStaysRemoved
<1>1. UInv => U!RemovedStaysRemoved
  BY DEF UInv
<1> QED
  BY UInvHolds, <1>1, PTL

(* Whoever paid the invoice he asked for last can enable the extension with  *)
(* it, unless the administrator changed the wallet since or a request that   *)
(* had read the row before wrote it after (extension_api.py 300-455, 530-585), *)
(* for any number of requests, invoices and wallets.                         *)
THEOREM PaidEnables == U!Spec => []U!PaidEnables
<1>1. UInv => U!PaidEnables
  BY DEF UInv
<1> QED
  BY UInvHolds, <1>1, PTL

-----------------------------------------------------------------------------
(* The cache of the key checks.  No entry is younger than the key's last     *)
(* moment, and none is about to be made of a key that lapsed before now.     *)
AInv ==
    /\ A!TypeOK /\ A!StaleKeyExpires
    /\ acKey \in A!Keys => acLapsed[acKey] = 0
    /\ acCheck.at # "idle" => acCheck.key \in A!Keys
    /\ acCheck.at = "cache" => acLapsed[acCheck.key] = 0
    /\ \A k \in A!Keys : A!Cached(k) => acLapsed[k] <= acAge[k]

LEMMA AInit == A!Init => AInv
BY AConstants DEF A!Init, AInv, A!TypeOK, A!StaleKeyExpires, A!Keys, A!Cached, A!Absent, A!Forgotten,
   A!Idle, A!None, A!CacheConstants

LEMMA ACheck ==
  ASSUME AInv, (\E k \in A!Keys : A!CheckBegins(k)) \/ A!CheckReads \/ A!CheckCaches PROVE AInv'
<1> USE AConstants DEF AInv, A!CacheConstants
<1>1. ASSUME NEW k \in A!Keys, A!CheckBegins(k) PROVE AInv'
  BY <1>1 DEF A!CheckBegins, A!Hit, A!Cached, A!TypeOK, A!StaleKeyExpires, A!Idle, A!Absent
<1>2. CASE A!CheckReads
  BY <1>2 DEF A!CheckReads, A!Cached, A!TypeOK, A!StaleKeyExpires, A!Idle, A!None
<1>3. CASE A!CheckCaches
  BY <1>3 DEF A!CheckCaches, A!Cached, A!TypeOK, A!StaleKeyExpires, A!Idle, A!None, A!Absent, A!Forgotten
<1> QED
  BY <1>1, <1>2, <1>3

LEMMA AChange ==
  ASSUME AInv, (\E op \in {"reset", "delete"} : A!ChangeBegins(op)) \/ A!ChangeWrites PROVE AInv'
<1> USE AConstants DEF AInv, A!CacheConstants
<1>1. ASSUME NEW op \in {"reset", "delete"}, A!ChangeBegins(op) PROVE AInv'
  BY <1>1 DEF A!ChangeBegins, A!Cleared, A!Cached, A!TypeOK, A!StaleKeyExpires, A!None, A!Keys, A!Absent
<1>2. CASE A!ChangeWrites
  BY <1>2 DEF A!ChangeWrites, A!Cached, A!TypeOK, A!StaleKeyExpires, A!Idle, A!None, A!Forgotten
<1> QED
  BY <1>1, <1>2

LEMMA ATime ==
  ASSUME AInv, A!Tick \/ A!Invalidate PROVE AInv'
<1> USE AConstants DEF AInv, A!CacheConstants
<1>1. CASE A!Tick
  BY <1>1 DEF A!Tick, A!Cached, A!TypeOK, A!StaleKeyExpires, A!Absent, A!Forgotten
<1>2. CASE A!Invalidate
  BY <1>2 DEF A!Invalidate, A!Cleared, A!Cached, A!TypeOK, A!StaleKeyExpires, A!Absent
<1> QED
  BY <1>1, <1>2

(* A key that was reset, or whose wallet was deleted, is served for less than *)
(* the cache keeps an entry (decorators.py, utils/cache.py), however long    *)
(* that is.                                                                  *)
THEOREM StaleKeysExpire == A!Spec => []AInv
<1>1. AInv /\ [A!Next]_(A!vars) => AInv'
  <2> SUFFICES ASSUME AInv, [A!Next]_(A!vars) PROVE AInv'
    OBVIOUS
  <2>1. CASE A!Next
    BY <2>1, ACheck, AChange, ATime DEF A!Next
  <2>2. CASE UNCHANGED A!vars
    BY <2>2 DEF A!vars, AInv, A!TypeOK, A!Cached, A!StaleKeyExpires
  <2> QED
    BY <2>1, <2>2
<1> QED
  BY AInit, <1>1, PTL DEF A!Spec

-----------------------------------------------------------------------------
(* The tokens of an account.  No entry is younger than the account's last    *)
(* active moment; and as long as no list was written over, the API token is  *)
(* listed only if it was created last, and the copy of a list that is still  *)
(* to be written agrees with it.                                             *)
SCacheInv ==
    /\ ssState = "active" => ssLapsed = 0
    /\ ssCheck.at = "cache" => ssLapsed = 0 /\ ssCheck.token \in S!Tokens
    /\ \A t \in S!Tokens : S!Cached(t) => ssLapsed <= ssAge[t]
SAgrees(q) ==
    q.at = "write" /\ ~q.stale =>
        /\ q.op = "create" => q.listed
        /\ q.op = "delete" => ~q.listed
        /\ q.op = "other" => q.listed = ssListed
        /\ q.op # S!None
SListInv ==
    ~ssLost => /\ ~ssOpened /\ (ssListed => ssWanted)
               /\ \A e \in S!Edits : SAgrees(ssEdit[e])
SInv == S!TypeOK /\ SCacheInv /\ SListInv /\ S!SessionsEnd

LEMMA SInit == S!Init => SInv
<1> SUFFICES ASSUME S!Init PROVE SInv
  OBVIOUS
<1> USE SConstants DEF S!Init, S!SessionConstants
<1>1. S!TypeOK
  <2>1. S!NoEdit \in S!Works
    BY DEF S!NoEdit, S!Works, S!None
  <2>2. ssCheck \in [at : {"idle", "cache"}, token : S!Tokens \union {S!None}]
    BY DEF S!Idle, S!None
  <2>3. ssChange \in [at : {"idle", "write", "clear"}, to : {"active", "inactive", "deleted"}]
    BY DEF S!NoChange
  <2>4. ssAge \in [S!Tokens -> S!Absent..Expiry] /\ ssLapsed \in 0..S!Forgotten
    BY DEF S!Absent, S!Forgotten
  <2> QED
    BY <2>1, <2>2, <2>3, <2>4 DEF S!TypeOK
<1>2. SCacheInv /\ SListInv /\ S!SessionsEnd
  <2>1. SCacheInv /\ S!SessionsEnd
    BY DEF SCacheInv, S!SessionsEnd, S!Cached, S!Absent, S!Idle
  <2>2. SListInv
    BY DEF SListInv, SAgrees, S!NoEdit
  <2> QED
    BY <2>1, <2>2
<1> QED
  BY <1>1, <1>2 DEF SInv

LEMMA SCheck ==
  ASSUME SInv, (\E t \in S!Tokens : S!CheckBegins(t)) \/ S!CheckCaches PROVE SInv'
<1> USE SConstants DEF SInv, S!SessionConstants, S!accountVars, S!cacheVars, S!listVars
<1>1. ASSUME NEW t \in S!Tokens, S!CheckBegins(t) PROVE SInv'
  <2>1. S!TypeOK'
    BY <1>1 DEF S!CheckBegins, S!TypeOK
  <2>2. SCacheInv' /\ S!SessionsEnd'
    BY <1>1 DEF S!CheckBegins, S!TypeOK, SCacheInv, S!SessionsEnd, S!Cached, S!Idle, S!Absent
  <2>3. S!Listed(t)
    BY <1>1 DEF S!CheckBegins
  <2>4. SListInv'
    BY <1>1, <2>3 DEF S!CheckBegins, SListInv, SAgrees, S!Listed
  <2> QED
    BY <2>1, <2>2, <2>4
<1>2. CASE S!CheckCaches
  <2>1. S!TypeOK' /\ SCacheInv' /\ S!SessionsEnd'
    BY <1>2 DEF S!CheckCaches, S!TypeOK, SCacheInv, S!SessionsEnd, S!Cached, S!Idle, S!Absent, S!None, S!Forgotten
  <2>2. SListInv'
    BY <1>2 DEF S!CheckCaches, SListInv, SAgrees
  <2> QED
    BY <2>1, <2>2
<1> QED
  BY <1>1, <1>2

LEMMA SChange ==
  ASSUME SInv,
         (\E to \in {"active", "inactive", "deleted"} : S!ChangeBegins(to)) \/ S!ChangeWrites
           \/ S!ChangeClears \/ S!IndexLapses \/ S!Tick \/ S!Invalidate
  PROVE  SInv'
<1> USE SConstants DEF SInv, S!SessionConstants, S!accountVars, S!cacheVars, S!listVars, S!servedVars
<1>1. UNCHANGED <<ssListed, ssEdit, ssWanted, ssLost, ssOpened, ssServed>>
  BY DEF S!ChangeBegins, S!ChangeWrites, S!ChangeClears, S!IndexLapses, S!Tick, S!Invalidate
<1>2. SListInv' /\ S!SessionsEnd'
  BY <1>1 DEF SListInv, SAgrees, S!SessionsEnd
<1>3. ASSUME NEW to \in {"active", "inactive", "deleted"}, S!ChangeBegins(to) PROVE S!TypeOK' /\ SCacheInv'
  BY <1>3 DEF S!ChangeBegins, S!TypeOK, SCacheInv, S!Cached
<1>4. CASE S!ChangeWrites
  BY <1>2, <1>4 DEF S!ChangeWrites, S!TypeOK, SCacheInv, S!Cached, S!Forgotten
<1>5. CASE S!ChangeClears
  BY <1>2, <1>5 DEF S!ChangeClears, S!TypeOK, SCacheInv, S!Cached, S!NoChange, S!None, S!Absent
<1>6. CASE S!IndexLapses
  BY <1>2, <1>6 DEF S!IndexLapses, S!TypeOK, SCacheInv, S!Cached
<1>7. CASE S!Tick
  BY <1>2, <1>7 DEF S!Tick, S!TypeOK, SCacheInv, S!Cached, S!Absent, S!Forgotten, S!Idle
<1>8. CASE S!Invalidate
  BY <1>2, <1>8 DEF S!Invalidate, S!TypeOK, SCacheInv, S!Cached, S!Absent
<1> QED
  BY <1>2, <1>3, <1>4, <1>5, <1>6, <1>7, <1>8

LEMMA SEdit ==
  ASSUME SInv, NEW e \in S!Edits,
         S!EditWrites(e) \/ \E op \in {"create", "delete", "other"} : S!EditReads(e, op)
  PROVE  SInv'
<1> USE DEF SInv, S!accountVars, S!cacheVars, S!servedVars
<1>1. UNCHANGED <<ssState, ssAge, ssIndex, ssCheck, ssChange, ssLapsed, ssServed, ssOpened>>
  BY DEF S!EditWrites, S!EditReads
<1>2. SCacheInv' /\ S!SessionsEnd'
  BY <1>1 DEF SCacheInv, S!SessionsEnd, S!Cached
<1>3. ASSUME NEW op \in {"create", "delete", "other"}, S!EditReads(e, op) PROVE SInv'
  <2> DEFINE q == [at |-> "write", op |-> op, stale |-> FALSE,
                   listed |-> CASE op = "create" -> TRUE [] op = "delete" -> FALSE [] OTHER -> ssListed]
  <2>1. q \in S!Works /\ SAgrees(q) /\ ~ q.stale
    BY <1>3 DEF S!Works, SAgrees, S!TypeOK, S!None
  <2>2. ssEdit' = [ssEdit EXCEPT ![e] = q] /\ UNCHANGED <<ssListed, ssWanted, ssLost>>
    BY <1>3 DEF S!EditReads
  <2> HIDE DEF q
  <2>3. S!TypeOK'
    BY <1>1, <2>1, <2>2 DEF S!TypeOK
  <2>4. SListInv'
    BY <1>1, <2>1, <2>2 DEF SListInv, SAgrees, S!TypeOK
  <2> QED
    BY <1>2, <2>3, <2>4
<1>4. CASE S!EditWrites(e)
  <2> DEFINE old(d) == [ssEdit[d] EXCEPT !.stale = TRUE]
  <2>1. \A d \in S!Edits : ssEdit[d] \in S!Works /\ old(d) \in S!Works /\ old(d).stale
    BY DEF S!TypeOK, S!Works
  <2>2. S!NoEdit \in S!Works /\ S!NoEdit.at = "idle"
    BY DEF S!NoEdit, S!Works, S!None
  <2>3. \A d \in S!Edits : ssEdit'[d] \in {S!NoEdit, old(d)}
    BY <1>4 DEF S!EditWrites
  <2> HIDE DEF old
  <2>4. S!TypeOK'
    <3>1. ssEdit' \in [S!Edits -> S!Works]
      BY <1>4, <2>1, <2>2, <2>3 DEF S!EditWrites
    <3>2. ssListed' \in BOOLEAN /\ ssWanted' \in BOOLEAN /\ ssLost' \in BOOLEAN
      BY <1>4, <2>1 DEF S!EditWrites, S!TypeOK, S!Works
    <3> QED
      BY <1>1, <3>1, <3>2 DEF S!TypeOK
  <2>5. SListInv'
    <3> SUFFICES ASSUME ~ssLost' PROVE ~ssOpened /\ (ssListed' => ssWanted')
                                       /\ \A d \in S!Edits : SAgrees(ssEdit[d])'
      BY <1>1 DEF SListInv
    <3>1. ~ssLost /\ ~ssEdit[e].stale /\ ssEdit[e].at = "write"
      BY <1>4 DEF S!EditWrites
    <3>2. ~ssOpened /\ (ssListed => ssWanted) /\ SAgrees(ssEdit[e])
      BY <3>1 DEF SListInv
    <3>3. ssListed' => ssWanted'
      <4>1. CASE ssEdit[e].op = "other"
        BY <1>4, <3>1, <3>2, <4>1 DEF S!EditWrites, SAgrees
      <4>2. CASE ssEdit[e].op = "create"
        BY <1>4, <3>1, <3>2, <4>2 DEF S!EditWrites, SAgrees
      <4>3. CASE ssEdit[e].op = "delete"
        BY <1>4, <3>1, <3>2, <4>3 DEF S!EditWrites, SAgrees
      <4> QED
        BY <2>1, <3>1, <3>2, <4>1, <4>2, <4>3 DEF S!Works, SAgrees
    <3>4. \A d \in S!Edits : SAgrees(ssEdit[d])'
      BY <2>1, <2>2, <2>3 DEF SAgrees
    <3> QED
      BY <3>2, <3>3, <3>4
  <2> QED
    BY <1>2, <2>4, <2>5
<1> QED
  BY <1>3, <1>4

(* The invariant of sessions holds (decorators.py 232-580, auth_api.py 279-398). *)
THEOREM SInvHolds == S!Spec => []SInv
<1>1. SInv /\ [S!Next]_(S!vars) => SInv'
  <2> SUFFICES ASSUME SInv, [S!Next]_(S!vars) PROVE SInv'
    OBVIOUS
  <2>1. CASE S!Next
    BY <2>1, SCheck, SChange, SEdit DEF S!Next, S!Steps
  <2>2. CASE UNCHANGED S!vars
    BY <2>2 DEF S!vars, SInv, S!TypeOK, SCacheInv, SListInv, SAgrees, S!Cached, S!SessionsEnd
  <2> QED
    BY <2>1, <2>2
<1> QED
  BY SInit, <1>1, PTL DEF S!Spec

(* An account that is deactivated or deleted is opened by a cached token for *)
(* less than the cache keeps it, and an API token that was deleted opens     *)
(* nothing unless somebody wrote the list back (decorators.py, auth_api.py), *)
(* for any number of edits at a time and however long entries are kept.      *)
THEOREM SessionsEnd == S!Spec => [](S!SessionsEnd /\ S!DeletedTokensAreRefused)
<1>1. SInv => S!SessionsEnd /\ S!DeletedTokensAreRefused
  BY DEF SInv, SListInv, S!DeletedTokensAreRefused
<1> QED
  BY SInvHolds, <1>1, PTL
-----------------------------------------------------------------------------
(* Registering with a one-time code.  Unless an update overlapped: one request *)
(* at most has taken the code, which is listed nowhere once it is saved, no    *)
(* update has a copy that lists it, and no user was made before.              *)
RBusy(r) == rgTask[r] # "idle"
ROne == ~rgOverlap => \A r, s \in UserRequests : RBusy(r) /\ RBusy(s) => r = s
RNotListed ==
    ~rgOverlap =>
      /\ rgUsers <= 1
      /\ \A r \in UserRequests : RBusy(r) => ~rgMemory /\ rgUsers = 0
      /\ \A r \in UserRequests : rgTask[r] = "create" => ~rgSaved
      /\ rgUsers # 0 => ~rgMemory /\ ~rgSaved
RCopy ==
    ~rgOverlap /\ rgAdmin.at # "idle" =>
      /\ \A r \in UserRequests : RBusy(r) => rgTask[r] = "create" /\ ~rgAdmin.copy
      /\ rgUsers # 0 => ~rgAdmin.copy
RInv == R!TypeOK /\ ROne /\ RNotListed /\ RCopy

(* The code is used once: what Registrations keeps (services/users.py,        *)
(* crud/settings.py), for any number of registrations at once.                *)
THEOREM RInvHolds == R!Spec => []RInv
<1> USE RConstants DEF R!RegistrationConstants
<1>1. R!Init => RInv
  <2> SUFFICES ASSUME R!Init PROVE RInv
    OBVIOUS
  <2>1. R!TypeOK
    <3>1. rgUsers \in 0..MaxUsers /\ rgTask \in [UserRequests -> {"idle", "save", "create"}]
      BY DEF R!Init
    <3>2. rgMemory \in BOOLEAN /\ rgSaved \in BOOLEAN /\ rgOverlap \in BOOLEAN
      BY DEF R!Init
    <3>3. rgAdmin \in [at : {"idle", "write", "read", "load"}, copy : BOOLEAN]
      BY DEF R!Init
    <3> QED
      BY <3>1, <3>2, <3>3 DEF R!TypeOK
  <2>2. ROne /\ RNotListed /\ RCopy
    BY DEF R!Init, ROne, RNotListed, RCopy, RBusy
  <2> QED
    BY <2>1, <2>2 DEF RInv
<1>2. ASSUME RInv, [R!Next]_(R!vars) PROVE RInv'
  <2> USE <1>2 DEF RInv, ROne, RNotListed, RCopy, RBusy
  <2>1. CASE UNCHANGED R!vars
    BY <2>1 DEF R!vars, R!TypeOK
  <2>2. ASSUME NEW r \in UserRequests, R!TakeCode(r) PROVE RInv'
    <3>1. R!TypeOK'
      BY <2>2 DEF R!TakeCode, R!Step, R!TypeOK
    <3>2. ROne' /\ RNotListed' /\ RCopy'
      BY <2>2 DEF R!TakeCode, R!Step, R!TypeOK
    <3> QED
      BY <3>1, <3>2
  <2>3. ASSUME NEW r \in UserRequests, R!SaveCodes(r) PROVE RInv'
    <3>1. R!TypeOK'
      BY <2>3 DEF R!SaveCodes, R!Step, R!TypeOK
    <3>2. ROne' /\ RNotListed' /\ RCopy'
      BY <2>3 DEF R!SaveCodes, R!Step, R!TypeOK
    <3> QED
      BY <3>1, <3>2
  <2>4. ASSUME NEW r \in UserRequests, R!CreateUser(r) PROVE RInv'
    <3>1. R!TypeOK'
      BY <2>4 DEF R!CreateUser, R!Step, R!TypeOK
    <3>2. ROne' /\ RNotListed' /\ RCopy'
      BY <2>4 DEF R!CreateUser, R!Step, R!TypeOK
    <3> QED
      BY <3>1, <3>2
  <2>5. CASE R!AdminBegins
    <3>1. R!TypeOK'
      BY <2>5 DEF R!AdminBegins, R!Admin, R!TypeOK
    <3>2. PICK copy \in {rgMemory, rgSaved} : R!Admin("idle", "write", copy)
      BY <2>5 DEF R!AdminBegins
    <3>3. /\ rgAdmin'.copy = copy
          /\ ~rgMemory /\ ~rgSaved => ~copy
      BY <3>2 DEF R!Admin
    <3>4. rgOverlap' = (rgOverlap \/ \E r \in UserRequests : rgTask[r] = "save")
      BY <2>5 DEF R!AdminBegins
    <3>5. ROne' /\ RNotListed'
      BY <2>5, <3>2, <3>4 DEF R!AdminBegins, R!Admin
    <3>6. RCopy'
      BY <2>5, <3>2, <3>3, <3>4 DEF R!AdminBegins, R!Admin, R!TypeOK
    <3> QED
      BY <3>1, <3>5, <3>6
  <2>6. CASE R!AdminWrites
    BY <2>6 DEF R!AdminWrites, R!Admin, R!TypeOK
  <2>7. CASE R!AdminReads
    BY <2>7 DEF R!AdminReads, R!Admin, R!TypeOK
  <2>8. CASE R!AdminLoads
    BY <2>8 DEF R!AdminLoads, R!Admin, R!TypeOK
  <2>9. CASE R!Restart
    BY <2>9 DEF R!Restart, R!TypeOK
  <2> QED
    BY <2>1, <2>2, <2>3, <2>4, <2>5, <2>6, <2>7, <2>8, <2>9 DEF R!Next
<1> QED
  BY <1>1, <1>2, PTL DEF R!Spec

(* One invitation code makes one user, however many requests race for it and   *)
(* wherever the server stops, unless an update of the settings overlapped      *)
(* (services/users.py check_register_activation_settings).                     *)
THEOREM CodesAreUsedOnce == R!Spec => []R!CodeIsUsedOnce
<1>1. RInv => R!CodeIsUsedOnce
  BY DEF RInv, RNotListed, R!TypeOK, R!CodeIsUsedOnce
<1> QED
  BY <1>1, RInvHolds, PTL
-----------------------------------------------------------------------------
(* Getting in.  The passwords tried within a window are counted by the entry,  *)
(* which is gone only when they are out of the window; and its last cooldown   *)
(* outlasts it, so that the count ends two beyond the limit.                   *)
OTried == loGuesses[0] + loGuesses[1] + loGuesses[2] + loGuesses[3]
OCounts ==
    /\ loFailures \in 0..(LoginLimit + 2) /\ loBlocked \in 0..4 /\ loKept \in 0..4
    /\ \A ago \in 0..3 : loGuesses[ago] \in 0..(LoginLimit + 2)
    /\ loGuesses \in [0..3 -> 0..(LoginLimit + 2)]
    /\ OTried <= loFailures
    /\ \A ago \in 0..3 : loGuesses[ago] # 0 => loKept >= 4 - ago
    /\ loKept = 0 => loFailures = 0
    /\ loFailures = LoginLimit + 2 => loBlocked >= loKept
OCookies ==
    /\ loAccess \in O!Users \union {O!None, "admin"} /\ loAdmin \in {O!None, "admin"} /\ loStray \in BOOLEAN
    /\ O!AdminIsSetAside
OInstalls ==
    /\ loFirst \in BOOLEAN /\ loRace \in BOOLEAN
    /\ loInstall \in [UserRequests -> {"idle", "write"}] /\ loInstalled \in Nat
    /\ loInstalled # 0 => ~loFirst
    /\ ~loRace => /\ loInstalled <= 1
                  /\ \A i, j \in UserRequests : loInstall[i] = "write" /\ loInstall[j] = "write" => i = j
                  /\ \A i \in UserRequests : loInstall[i] = "write" => loInstalled = 0
OInv == OCounts /\ OCookies /\ OInstalls

LEMMA OCountsStep ==
  ASSUME OCounts, [O!Next]_(O!vars) PROVE OCounts'
<1> USE OConstants DEF O!LoginConstants
<1>1. CASE O!GuessWrong
  <2>1. loFailures < LoginLimit + 2
    BY <1>1 DEF OCounts, O!GuessWrong
  <2>2. /\ O!Cooldown(loFailures + 1) \in 0..4
        /\ loFailures + 1 = LoginLimit + 2 => O!Cooldown(loFailures + 1) = 4
    <3>1. loFailures + 1 < LoginLimit \/ loFailures + 1 = LoginLimit \/ loFailures + 1 = LoginLimit + 1 \/ loFailures + 1 = LoginLimit + 2
      BY <2>1 DEF OCounts
    <3>2. CASE loFailures + 1 < LoginLimit
      BY <3>2 DEF OCounts, O!Cooldown
    <3>3. CASE loFailures + 1 = LoginLimit
      <4>1. loFailures + 1 - LoginLimit = 0 /\ 2 ^ 0 = 1
        BY <3>3 DEF OCounts
      <4>2. 2 ^ (loFailures + 1 - LoginLimit) = 1
        BY <4>1
      <4> QED
        BY <3>3, <4>2 DEF OCounts, O!Cooldown, O!Cap
    <3>4. CASE loFailures + 1 = LoginLimit + 1
      <4>1. loFailures + 1 - LoginLimit = 1 /\ 2 ^ 1 = 2
        BY <3>4 DEF OCounts
      <4>2. 2 ^ (loFailures + 1 - LoginLimit) = 2
        BY <4>1
      <4> QED
        BY <3>4, <4>2 DEF OCounts, O!Cooldown, O!Cap
    <3>5. CASE loFailures + 1 = LoginLimit + 2
      <4>1. loFailures + 1 - LoginLimit = 2 /\ 2 ^ 2 = 4
        BY <3>5 DEF OCounts
      <4>2. 2 ^ (loFailures + 1 - LoginLimit) = 4
        BY <4>1
      <4> QED
        BY <3>5, <4>2 DEF OCounts, O!Cooldown, O!Cap
    <3> QED
      BY <3>1, <3>2, <3>3, <3>4, <3>5
  <2>3. /\ loFailures' = loFailures + 1 /\ loBlocked' = O!Cooldown(loFailures + 1) /\ loKept' = 4
        /\ loGuesses' = [loGuesses EXCEPT ![0] = loGuesses[0] + 1]
    BY <1>1 DEF O!GuessWrong, O!Window
  <2>4. loGuesses'[0] = loGuesses[0] + 1 /\ \A ago \in 1..3 : loGuesses'[ago] = loGuesses[ago]
    BY <2>3 DEF OCounts
  <2>5. OTried' = OTried + 1 /\ OTried' <= loFailures' /\ loGuesses[0] + 1 \in 0..(LoginLimit + 2)
    <3>1. loGuesses[0] \in Nat /\ loGuesses[1] \in Nat /\ loGuesses[2] \in Nat /\ loGuesses[3] \in Nat
      BY DEF OCounts
    <3>2. OTried <= loFailures /\ loFailures \in Nat
      BY DEF OCounts
    <3>3. OTried' = OTried + 1
      BY <2>4, <3>1 DEF OTried
    <3> QED
      BY <2>1, <2>3, <3>1, <3>2, <3>3 DEF OTried
  <2> QED
    BY <2>1, <2>2, <2>3, <2>4, <2>5 DEF OCounts
<1>2. CASE \E who \in O!Users \union {"admin"} : O!Login(who)
  BY <1>2 DEF O!Login, OCounts, OTried
<1>3. CASE O!Tick
  <2>1. /\ loGuesses' \in [0..3 -> 0..(LoginLimit + 2)]
        /\ loGuesses'[0] = 0 /\ loGuesses'[1] = loGuesses[0]
        /\ loGuesses'[2] = loGuesses[1] /\ loGuesses'[3] = loGuesses[2]
    BY <1>3 DEF O!Tick, OCounts
  <2>2. /\ loBlocked' = (IF loBlocked = 0 THEN 0 ELSE loBlocked - 1)
        /\ loKept' = (IF loKept = 0 THEN 0 ELSE loKept - 1)
        /\ loFailures' = (IF loKept <= 1 THEN 0 ELSE loFailures)
    BY <1>3 DEF O!Tick, O!Less
  <2>3. \A ago \in 0..3 : loGuesses'[ago] # 0 => loKept' >= 4 - ago
    BY <2>1, <2>2 DEF OCounts
  <2>4. OTried' <= loFailures'
    BY <2>1, <2>2, <2>3 DEF OCounts, OTried
  <2> QED
    BY <2>1, <2>2, <2>3, <2>4 DEF OCounts
<1>4. CASE UNCHANGED <<loFailures, loBlocked, loKept, loGuesses>>
  BY <1>4 DEF OCounts, OTried
<1> QED
  BY <1>1, <1>2, <1>3, <1>4 DEF O!Next, O!vars, O!Impersonate, O!StopImpersonating, O!Logout,
     O!InstallBegins, O!Install, O!throttleVars

(* Wrong passwords are slowed down, an administrator's token is set aside only *)
(* while he acts for a user, and who installs first is the only one, as long   *)
(* as no two installations overlap (views/auth_api.py).                        *)
THEOREM OInvHolds == O!Spec => []OInv
<1>1. O!Init => OInv
  <2> SUFFICES ASSUME O!Init PROVE OInv
    OBVIOUS
  <2>1. OCounts
    BY OConstants DEF O!Init, OCounts, OTried, O!LoginConstants, O!Window
  <2>2. OCookies
    BY DEF O!Init, OCookies, O!AdminIsSetAside
  <2>3. OInstalls
    <3>1. loFirst \in BOOLEAN /\ loRace \in BOOLEAN
      BY DEF O!Init
    <3>2. loInstalled = 0 /\ loInstall \in [UserRequests -> {"idle", "write"}]
          /\ \A i \in UserRequests : loInstall[i] = "idle"
      BY DEF O!Init
    <3> QED
      BY <3>1, <3>2 DEF OInstalls
  <2> QED
    BY <2>1, <2>2, <2>3 DEF OInv
<1>2. ASSUME OInv, [O!Next]_(O!vars) PROVE OInv'
  <2>1. OCounts'
    BY <1>2, OCountsStep DEF OInv
  <2>2. OCookies'
    BY <1>2 DEF OInv, OCookies, O!AdminIsSetAside, O!Next, O!vars, O!GuessWrong, O!Tick, O!Login,
       O!Impersonate, O!StopImpersonating, O!Logout, O!InstallBegins, O!Install, O!cookieVars, O!Users, O!None
  <2>3. OInstalls'
    <3>1. CASE UNCHANGED <<loFirst, loInstall, loInstalled, loRace>>
      BY <1>2, <3>1 DEF OInv, OInstalls
    <3>2. ASSUME NEW i \in UserRequests, O!InstallBegins(i) PROVE OInstalls'
      BY <1>2, <3>2 DEF OInv, OInstalls, O!InstallBegins
    <3>3. ASSUME NEW i \in UserRequests, O!Install(i) PROVE OInstalls'
      <4>1. CASE loInstalled' = loInstalled + 1 /\ loFirst' = FALSE
        <5>1. loInstall[i] = "write" /\ loInstall' = [loInstall EXCEPT ![i] = "idle"] /\ loRace' = loRace
          BY <3>3 DEF O!Install
        <5>2. loInstall' \in [UserRequests -> {"idle", "write"}] /\ loInstalled' \in Nat
              /\ loFirst' \in BOOLEAN /\ loRace' \in BOOLEAN /\ ~loFirst'
          <6>1. loInstall' \in [UserRequests -> {"idle", "write"}] /\ loInstalled' \in Nat
            BY <1>2, <4>1, <5>1 DEF OInv, OInstalls
          <6>2. loFirst' \in BOOLEAN /\ ~loFirst'
            BY <4>1
          <6>3. loRace' \in BOOLEAN
            BY <1>2, <5>1 DEF OInv, OInstalls
          <6> QED
            BY <6>1, <6>2, <6>3
        <5>3. ASSUME ~loRace
              PROVE  loInstalled' = 1 /\ \A j \in UserRequests : loInstall'[j] # "write"
          BY <1>2, <4>1, <5>1, <5>3 DEF OInv, OInstalls
        <5> QED
          BY <5>1, <5>2, <5>3 DEF OInstalls
      <4>2. CASE UNCHANGED <<loInstalled, loFirst>>
        BY <1>2, <3>3, <4>2 DEF OInv, OInstalls, O!Install
      <4> QED
        BY <3>3, <4>1, <4>2 DEF O!Install
    <3> QED
      BY <1>2, <3>1, <3>2, <3>3 DEF O!Next, O!vars, O!GuessWrong, O!Tick, O!Login, O!Impersonate,
         O!StopImpersonating, O!Logout, O!installVars
  <2> QED
    BY <2>1, <2>2, <2>3 DEF OInv
<1> QED
  BY <1>1, <1>2, PTL DEF O!Spec

LEMMA OTypes == OInv => O!TypeOK
<1> SUFFICES ASSUME OInv PROVE O!TypeOK
  OBVIOUS
<1>1. LoginLimit + 2 \in Nat
  BY OConstants DEF O!LoginConstants
<1>2. loFailures \in Nat /\ loBlocked \in 0..4 /\ loKept \in 0..4 /\ loGuesses \in [0..3 -> Nat]
  BY <1>1 DEF OInv, OCounts
<1>3. {loAccess, loAdmin} \subseteq O!Users \union {O!None, "admin"} /\ loStray \in BOOLEAN
  BY DEF OInv, OCookies
<1> QED
  BY <1>2, <1>3 DEF OInv, OInstalls, O!TypeOK, O!Cap, O!Window

(* No more wrong passwords are tried within a window than the limit and two,   *)
(* whatever the limit; and an administrator's token outlives his acting for a  *)
(* user only by a logout or a login (auth_api.py 88-156, impersonate_user).    *)
THEOREM AccessIsLimited == O!Spec => [](O!GuessesAreLimited /\ O!AdminIsSetAside)
<1>1. OInv => O!GuessesAreLimited /\ O!AdminIsSetAside
  BY OConstants DEF OInv, OCounts, OCookies, OTried, O!GuessesAreLimited, O!Guesses, O!LoginConstants
<1> QED
  BY <1>1, OInvHolds, PTL

(* The first installation is done once, unless two overlapped (first_install). *)
THEOREM InstalledIsOnce == O!Spec => []O!InstalledOnce
<1>1. OInv => O!InstalledOnce
  BY DEF OInv, OInstalls, O!InstalledOnce
<1> QED
  BY <1>1, OInvHolds, PTL
-----------------------------------------------------------------------------
(* The rows of the wallets.  A request whose row nobody changed meanwhile has  *)
(* the key and the deletion of the wallet and, unless it brings one, its       *)
(* address; and the address a wallet has paid for is in the row or with the    *)
(* request that was charged for it, also while another such request waits,     *)
(* unless the request that was charged for it has stopped.                     *)
VJudged == ~waOverlap /\ ~waTaken
VCharged(q) == q.at = "write" /\ q.op = "charged"
VWorks == [at : {"idle", "check", "write"},
           op : {"none", "edit", "reset", "charged", "admin", "generate"},
           id : V!Ids, row : V!Rows, stale : BOOLEAN, free : BOOLEAN]
VOnItsWay(i) == \E t \in UserRequests : waTask[t].id = i /\ VCharged(waTask[t]) /\ waTask[t].row.address = waPaid[i]
VShape(q) ==
    /\ q.op = "none" => q.at = "idle"
    /\ q.at = "check" => q.op \in {"charged", "admin", "generate"}
    /\ q.op \in {"charged", "admin", "generate"} => ~V!Mirror(q.id)
    /\ VCharged(q) => q.free
VFresh(q) ==
    q.at # "idle" /\ ~q.stale =>
      /\ q.row.key = waRow[q.id].key /\ q.row.deleted = waRow[q.id].deleted
      /\ q.op = "generate" => waRow[q.id].address = V!None
      /\ q.op \in {"edit", "reset"} /\ ~V!Mirror(q.id) => q.row.address = waRow[q.id].address
      /\ VCharged(q) => waPaid[q.id] = V!CutOff \/ VOnItsWay(q.id)
VKnow == VJudged => \A t \in UserRequests : VShape(waTask[t]) /\ VFresh(waTask[t])
VPaid == VJudged => \A i \in V!Ids : /\ V!Mirror(i) => waPaid[i] = V!None
                                     /\ \/ waPaid[i] = V!None
                                        \/ waRow[i].address = waPaid[i]
                                        \/ waPaid[i] = V!CutOff \/ VOnItsWay(i)
VInv == V!TypeOK /\ VKnow /\ VPaid /\ V!WalletsKeepWrites

(* One request goes on that is not charged, and no row changes.              *)
LEMMA VStill ==
  ASSUME VInv, NEW t \in UserRequests, NEW n \in VWorks,
         waTask' = [waTask EXCEPT ![t] = n], UNCHANGED <<waMirror, waRow, waMeant, waPaid, waOverlap, waTaken>>,
         ~VCharged(waTask[t]), ~VCharged(n), VShape(n), VFresh(n)
  PROVE  VInv'
<1>1. V!TypeOK' /\ V!WalletsKeepWrites'
  BY DEF VInv, V!TypeOK, V!WalletsKeepWrites, VWorks
<1>2. \A i : VOnItsWay(i) => VOnItsWay(i)'
  BY DEF VOnItsWay, VInv, V!TypeOK
<1>3. VPaid'
  BY <1>2 DEF VInv, VPaid, VJudged, V!Mirror
<1>4. VKnow'
  <2> SUFFICES ASSUME VJudged, NEW u \in UserRequests PROVE VShape(waTask[u])' /\ VFresh(waTask[u])'
    BY DEF VKnow, VJudged
  <2>1. CASE u = t
    <3>1. waTask'[u] = n
      BY <2>1 DEF VInv, V!TypeOK
    <3> QED
      BY <3>1 DEF VShape, VFresh, V!Mirror, VCharged
  <2>2. CASE u # t
    <3>1. waTask'[u] = waTask[u] /\ VShape(waTask[u]) /\ VFresh(waTask[u])
      BY <2>2 DEF VInv, V!TypeOK, VKnow
    <3> QED
      BY <1>2, <3>1 DEF VShape, VFresh, V!Mirror, VCharged
  <2> QED
    BY <2>1, <2>2
<1> QED
  BY <1>1, <1>3, <1>4 DEF VInv

(* A request is charged for the address it is about to write.                *)
LEMMA VCharge ==
  ASSUME VInv, VJudged, NEW t \in UserRequests, NEW n \in VWorks,
         waTask' = [waTask EXCEPT ![t] = n], UNCHANGED <<waMirror, waRow, waMeant, waOverlap, waTaken>>,
         ~VCharged(waTask[t]), VCharged(n), VShape(n), n.row.address \in LightningNames,
         n.stale \/ (n.row.key = waRow[n.id].key /\ n.row.deleted = waRow[n.id].deleted),
         waPaid' = [waPaid EXCEPT ![n.id] = n.row.address]
  PROVE  VInv'
<1>1. V!TypeOK' /\ V!WalletsKeepWrites'
  BY DEF VInv, V!TypeOK, V!WalletsKeepWrites, VWorks
<1>2. waTask'[t] = n /\ n.id \in V!Ids /\ waPaid'[n.id] = n.row.address
  BY DEF VInv, V!TypeOK, VWorks
<1>3. VOnItsWay(n.id)'
  BY <1>2 DEF VOnItsWay, VCharged
<1>4. \A i \in V!Ids : VOnItsWay(i) => VOnItsWay(i)'
  <2> TAKE i \in V!Ids
  <2>1. CASE i = n.id
    BY <1>3, <2>1
  <2>2. CASE i # n.id
    BY <2>2 DEF VOnItsWay, VInv, V!TypeOK
  <2> QED
    BY <2>1, <2>2
<1>5. VPaid'
  <2>1. ~V!Mirror(n.id)
    BY DEF VShape, VCharged
  <2>2. \A i \in V!Ids : i # n.id => waPaid'[i] = waPaid[i]
    BY DEF VInv, V!TypeOK
  <2> QED
    BY <1>3, <1>4, <2>1, <2>2 DEF VInv, VPaid, VJudged, V!Mirror
<1>6. VKnow'
  <2> SUFFICES ASSUME NEW u \in UserRequests PROVE VShape(waTask[u])' /\ VFresh(waTask[u])'
    BY DEF VKnow
  <2>1. CASE u = t
    <3>1. waTask'[u] = n /\ VShape(n)'
      BY <1>2, <2>1 DEF VShape, V!Mirror, VCharged
    <3>2. n.op = "charged" /\ VOnItsWay(n.id)'
      BY <1>3 DEF VCharged
    <3>3. VShape(waTask[u])'
      BY <3>1 DEF VShape, VCharged, V!Mirror
    <3>4. VFresh(waTask[u])'
      <4> SUFFICES ASSUME ~n.stale
                   PROVE  /\ n.row.key = waRow'[n.id].key /\ n.row.deleted = waRow'[n.id].deleted
                          /\ n.op = "charged" /\ VOnItsWay(n.id)'
        BY <3>1, <3>2 DEF VFresh
      <4> QED
        BY <3>2
    <3> QED
      BY <3>3, <3>4
  <2>2. CASE u # t
    <3>1. waTask'[u] = waTask[u] /\ VShape(waTask[u]) /\ VFresh(waTask[u]) /\ waTask[u].id \in V!Ids
      BY <2>2 DEF VInv, V!TypeOK, VKnow
    <3>2. VShape(waTask[u])'
      BY <3>1 DEF VShape, VCharged, V!Mirror
    <3>3. waPaid[waTask[u].id] = V!CutOff \/ VOnItsWay(waTask[u].id)
          => waPaid'[waTask[u].id] = V!CutOff \/ VOnItsWay(waTask[u].id)'
      <4>1. CASE waTask[u].id = n.id
        BY <1>3, <4>1
      <4>2. CASE waTask[u].id # n.id
        <5>1. waPaid'[waTask[u].id] = waPaid[waTask[u].id]
          BY <3>1, <4>2 DEF VInv, V!TypeOK
        <5> QED
          BY <1>4, <3>1, <5>1
      <4> QED
        BY <4>1, <4>2
    <3>4. VFresh(waTask[u])'
      BY <3>1, <3>3 DEF VFresh, VCharged, V!Mirror
    <3> QED
      BY <3>2, <3>4
  <2> QED
    BY <2>1, <2>2
<1> QED
  BY <1>1, <1>5, <1>6 DEF VInv

(* A row is replaced: who has read the wallet has read what is no more.      *)
LEMMA VPut ==
  ASSUME VInv, VJudged, NEW id \in V!Ids, NEW row \in V!Rows, NEW t, V!Put(id, row, t),
         t \in UserRequests => waTask[t].id = id, UNCHANGED waMirror,
         waMeant' \in [V!Ids -> [key : {0, 1}, deleted : BOOLEAN]],
         waPaid' \in [V!Ids -> LightningNames \union {V!None, V!CutOff}],
         \A i \in V!Ids : i # id => waMeant'[i] = waMeant[i] /\ waPaid'[i] = waPaid[i],
         waOverlap' \in BOOLEAN, waTaken' \in BOOLEAN,
         ~waOverlap' =>
           /\ V!Meaning(row) = waMeant'[id]
           /\ V!Mirror(id) => waPaid'[id] = V!None
           /\ \/ waPaid'[id] = V!None
              \/ row.address = waPaid'[id] \/ waPaid'[id] = V!CutOff
              \/ /\ waPaid'[id] = waPaid[id]
                 /\ \E u \in UserRequests : u # t /\ waTask[u].id = id /\ VCharged(waTask[u])
                                        /\ waTask[u].row.address = waPaid[id]
  PROVE  VInv'
<1>1. \A u \in UserRequests : u # t =>
         \/ waTask'[u] = waTask[u] /\ waTask[u].at = "idle"
         \/ waTask'[u] = waTask[u] /\ waTask[u].id # id /\ ~V!Mirror(waTask[u].id)
         \/ waTask'[u] = [waTask[u] EXCEPT !.stale = TRUE]
  BY DEF V!Put, V!Idle
<1>2. \A u \in UserRequests : u = t => waTask'[u] = V!Idle
  BY DEF V!Put
<1>3. ASSUME NEW u \in UserRequests
      PROVE  LET n == [waTask[u] EXCEPT !.stale = TRUE] IN
             /\ waTask[u] \in VWorks /\ n \in VWorks /\ n.stale /\ n.id = waTask[u].id /\ n.row = waTask[u].row
             /\ n.at = waTask[u].at /\ n.op = waTask[u].op /\ n.free = waTask[u].free
  <2>1. waTask[u] \in VWorks
    BY DEF VInv, V!TypeOK, VWorks
  <2> QED
    BY <2>1 DEF VWorks
<1>4. waRow'[id] = row /\ \A i \in V!Ids : i # id => waRow'[i] = waRow[i]
  BY DEF V!Put, VInv, V!TypeOK
<1>5. V!Idle \in VWorks
  BY DEF V!Idle, VWorks, V!Gone, V!Row, V!Rows, V!Ids, V!None
<1>6. V!TypeOK'
  <2>1. \A u \in UserRequests : waTask'[u] \in VWorks
    BY <1>1, <1>2, <1>3, <1>5
  <2>2. waTask' \in [UserRequests -> VWorks]
    BY <2>1 DEF V!Put
  <2>3. waRow' \in [V!Ids -> V!Rows]
    BY DEF V!Put, VInv, V!TypeOK
  <2> QED
    BY <2>2, <2>3 DEF VInv, V!TypeOK, VWorks
<1>7. V!WalletsKeepWrites'
  <2> SUFFICES ASSUME ~waOverlap', NEW i \in V!Ids PROVE V!Meaning(waRow'[i]) = waMeant'[i]
    BY DEF V!WalletsKeepWrites, V!Meaning
  <2> QED
    BY <1>4 DEF VInv, VJudged, V!WalletsKeepWrites
<1>8. \A u \in UserRequests : u # t => /\ waTask'[u].id = waTask[u].id
                                   /\ waTask'[u].row = waTask[u].row /\ waTask'[u].at = waTask[u].at
                                   /\ waTask'[u].op = waTask[u].op /\ waTask'[u].free = waTask[u].free
  BY <1>1, <1>3
<1>9. \A i \in V!Ids : i # id /\ VOnItsWay(i) => VOnItsWay(i)'
  BY <1>8 DEF VOnItsWay, VCharged
<1>10. VPaid'
  <2> SUFFICES ASSUME VJudged', NEW i \in V!Ids
               PROVE  /\ V!Mirror(i) => waPaid'[i] = V!None
                      /\ waPaid'[i] = V!None \/ waRow'[i].address = waPaid'[i] \/ waPaid'[i] = V!CutOff \/ VOnItsWay(i)'
    BY DEF VPaid, V!Mirror
  <2>1. CASE i # id
    BY <1>4, <1>9, <2>1 DEF VInv, VPaid
  <2>2. CASE i = id
    BY <1>4, <1>8, <2>2 DEF VJudged, VOnItsWay, VCharged
  <2> QED
    BY <2>1, <2>2
<1>11. VKnow'
  <2> SUFFICES ASSUME NEW u \in UserRequests PROVE VShape(waTask[u])' /\ VFresh(waTask[u])'
    BY DEF VKnow
  <2>1. CASE u = t
    BY <1>2, <2>1 DEF VShape, VFresh, VCharged, V!Idle
  <2>2. CASE u # t
    <3>1. VShape(waTask[u]) /\ VFresh(waTask[u]) /\ waTask[u].id \in V!Ids
      BY DEF VInv, VKnow, V!TypeOK
    <3>2. VShape(waTask[u])'
      BY <1>8, <2>2, <3>1 DEF VShape, V!Mirror, VCharged
    <3>3. CASE waTask'[u] = waTask[u] /\ waTask[u].at = "idle"
      BY <3>2, <3>3 DEF VFresh
    <3>4. CASE waTask'[u] = waTask[u] /\ waTask[u].id # id
      BY <1>4, <1>9, <3>1, <3>2, <3>4 DEF VFresh, V!Mirror, VCharged
    <3>5. CASE waTask'[u] = [waTask[u] EXCEPT !.stale = TRUE]
      <4>1. waTask'[u].stale
        BY <3>5 DEF VInv, V!TypeOK
      <4> QED
        BY <3>2, <4>1 DEF VFresh
    <3> QED
      BY <1>1, <2>2, <3>3, <3>4, <3>5
  <2> QED
    BY <2>1, <2>2
<1> QED
  BY <1>6, <1>7, <1>10, <1>11 DEF VInv

(* A request begins with what it reads.                                      *)
LEMMA VBegins ==
  ASSUME VInv, NEW t \in UserRequests, NEW id \in V!Ids,
         V!Edit(t, id) \/ V!ResetKeys(t, id) \/ \E op \in {"charged", "admin", "generate"} : V!SetAddress(t, id, op)
  PROVE  VInv'
<1>1. /\ V!WalletRead(id) \in V!Rows /\ V!WalletRead(id).key = waRow[id].key
      /\ V!WalletRead(id).deleted = waRow[id].deleted
      /\ ~V!Mirror(id) => V!WalletRead(id) = waRow[id]
  <2>1. waRow[id] \in V!Rows /\ waRow[1] \in V!Rows
    BY DEF VInv, V!TypeOK, V!Ids
  <2> QED
    BY <2>1 DEF V!WalletRead, V!Rows
<1>2. ASSUME NEW op \in {"edit", "reset", "charged", "admin", "generate"}, NEW at \in {"check", "write"},
             V!Begin(t, id, op, at), at = "check" <=> op \in {"charged", "admin", "generate"},
             op \in {"charged", "admin", "generate"} => ~V!Mirror(id),
             op = "generate" => waRow[id].address = V!None
      PROVE  VInv'
  <2> PICK n : n = [at |-> at, op |-> op, id |-> id, row |-> V!WalletRead(id),
                    stale |-> FALSE, free |-> FALSE]
    OBVIOUS
  <2>1. n \in VWorks /\ n.at = at /\ n.op = op /\ n.id = id /\ n.row = V!WalletRead(id) /\ ~n.stale
    <3> DEFINE read == V!WalletRead(id)
    <3>1. read \in V!Rows
      BY <1>1
    <3> HIDE DEF read
    <3>2. n = [at |-> at, op |-> op, id |-> id, row |-> read, stale |-> FALSE, free |-> FALSE]
      BY DEF read
    <3>3. n \in VWorks /\ n.at = at /\ n.op = op /\ n.id = id /\ n.row = read /\ n.stale = FALSE
      BY <3>1, <3>2 DEF VWorks
    <3> QED
      BY <3>3 DEF read
  <2>2. waTask' = [waTask EXCEPT ![t] = n] /\ waTask[t].at = "idle"
        /\ UNCHANGED <<waMirror, waRow, waMeant, waPaid, waOverlap, waTaken>>
    BY <1>2 DEF V!Begin, V!Idle
  <2>3. ~VCharged(n) /\ ~VCharged(waTask[t]) /\ VShape(n)
    BY <1>2, <2>1, <2>2 DEF VCharged, VShape
  <2>4. VFresh(n)
    BY <1>1, <1>2, <2>1, <2>3 DEF VFresh
  <2> QED
    BY <2>1, <2>2, <2>3, <2>4, VStill
<1>3. CASE V!Edit(t, id)
  BY <1>2, <1>3 DEF V!Edit
<1>4. CASE V!ResetKeys(t, id)
  BY <1>2, <1>4 DEF V!ResetKeys
<1>5. ASSUME NEW op \in {"charged", "admin", "generate"}, V!SetAddress(t, id, op) PROVE VInv'
  BY <1>2, <1>5 DEF V!SetAddress, V!Lightning
<1> QED
  BY <1>3, <1>4, <1>5

(* An address is looked for, and charged.                                    *)
LEMMA VChecks ==
  ASSUME VInv, VJudged, NEW t \in UserRequests,
         NEW address \in LightningNames, V!CheckAddress(t, address)
  PROVE  VInv'
<1> DEFINE q == waTask[t]
<1>1. q \in VWorks /\ VShape(q) /\ VFresh(q)
  BY DEF VInv, V!TypeOK, VWorks, VKnow
<1>2. q.at = "check" /\ ~VCharged(q)
  BY DEF V!CheckAddress, VCharged
<1>3. CASE V!Drop(t) /\ UNCHANGED <<waMirror, waRow, waMeant, waPaid, waOverlap, waTaken>>
  <2>1. V!Idle \in VWorks /\ ~VCharged(V!Idle) /\ VShape(V!Idle) /\ VFresh(V!Idle)
    BY DEF V!Idle, VWorks, V!Gone, V!Row, V!Rows, V!Ids, V!None, VCharged, VShape, VFresh
  <2> QED
    BY <1>2, <1>3, <2>1, VStill DEF V!Drop
<1>4. CASE ~(V!TakenBy(address, q.id) \/ q.row.address = address)
  <2> DEFINE w == [q.row EXCEPT !.address = address]
             m == [q EXCEPT !.at = "write", !.row = w, !.free = TRUE]
  <2>1. w \in V!Rows /\ w.key = q.row.key /\ w.deleted = q.row.deleted /\ w.address = address
    BY <1>1 DEF VWorks, V!Rows
  <2> HIDE DEF w
  <2> PICK n : n = m
    OBVIOUS
  <2>2. n \in VWorks /\ n.at = "write" /\ n.row = w /\ n.free /\ n.op = q.op /\ n.id = q.id /\ n.stale = q.stale
    BY <1>1, <2>1 DEF VWorks
  <2>3. waTask' = [waTask EXCEPT ![t] = n] /\ V!Charged(t, address)
        /\ UNCHANGED <<waMirror, waRow, waMeant, waOverlap, waTaken>>
    BY <1>4 DEF V!CheckAddress, w
  <2>4. VShape(n) /\ n.op \in {"charged", "admin", "generate"}
    BY <1>1, <1>2, <2>2 DEF VShape
  <2>5. CASE q.op = "charged"
    <3>1. waPaid' = [waPaid EXCEPT ![n.id] = n.row.address] /\ n.row.address \in LightningNames
      BY <2>1, <2>2, <2>3, <2>5 DEF V!Charged
    <3>2. VCharged(n) /\ (n.stale \/ (n.row.key = waRow[n.id].key /\ n.row.deleted = waRow[n.id].deleted))
      BY <1>1, <1>2, <2>1, <2>2, <2>5 DEF VFresh, VCharged
    <3> QED
      BY <1>2, <2>2, <2>3, <2>4, <3>1, <3>2, VCharge
  <2>6. CASE q.op # "charged"
    <3>1. waPaid' = waPaid
      BY <1>1, <2>3, <2>6 DEF V!Charged, VInv, V!TypeOK, VWorks
    <3>2. ~VCharged(n) /\ VFresh(n)
      BY <1>1, <1>2, <2>1, <2>2, <2>4, <2>6 DEF VFresh, VCharged
    <3> QED
      BY <1>2, <2>2, <2>3, <2>4, <3>1, <3>2, VStill
  <2> QED
    BY <2>5, <2>6
<1> QED
  BY <1>3, <1>4 DEF V!CheckAddress

(* A request stops, perhaps after it was charged.                            *)
LEMMA VStops ==
  ASSUME VInv, VJudged, NEW t \in UserRequests, V!Stops(t) PROVE VInv'
<1> DEFINE q == waTask[t]
<1>1. /\ waTask' = [waTask EXCEPT ![t] = V!Idle] /\ \A i \in V!Ids : waPaid'[i] \in {waPaid[i], V!CutOff}
      /\ VCharged(q) /\ q.row.address = waPaid[q.id] => waPaid'[q.id] = V!CutOff
      /\ ~(VCharged(q) /\ q.row.address = waPaid[q.id]) => waPaid' = waPaid
      /\ \A i \in V!Ids : i # q.id => waPaid'[i] = waPaid[i]
      /\ waPaid' \in [V!Ids -> LightningNames \union {V!None, V!CutOff}]
      /\ UNCHANGED <<waMirror, waRow, waMeant, waOverlap, waTaken>>
  BY DEF VInv, V!TypeOK, V!Stops, V!Drop, VCharged
<1>2. V!Idle \in VWorks /\ ~VCharged(V!Idle) /\ VShape(V!Idle)
  BY DEF V!Idle, VWorks, V!Gone, V!Row, V!Rows, V!Ids, V!None, VCharged, VShape
<1>3. V!TypeOK' /\ V!WalletsKeepWrites'
  BY <1>1, <1>2 DEF VInv, V!TypeOK, V!WalletsKeepWrites, VWorks
<1>4. \A i \in V!Ids : VOnItsWay(i) => waPaid'[i] = V!CutOff \/ VOnItsWay(i)'
  <2> SUFFICES ASSUME NEW i \in V!Ids, VOnItsWay(i), waPaid'[i] # V!CutOff PROVE VOnItsWay(i)'
    OBVIOUS
  <2>1. PICK u \in UserRequests :
          waTask[u].id = i /\ VCharged(waTask[u]) /\ waTask[u].row.address = waPaid[i]
    BY DEF VOnItsWay
  <2>2. u # t /\ waPaid'[i] = waPaid[i]
    BY <1>1, <2>1
  <2>3. waTask'[u] = waTask[u]
    BY <1>1, <2>2 DEF VInv, V!TypeOK
  <2> QED
    BY <2>1, <2>2, <2>3 DEF VOnItsWay, VCharged
<1>5. VPaid'
  <2> SUFFICES ASSUME NEW i \in V!Ids
               PROVE  /\ V!Mirror(i)' => waPaid'[i] = V!None
                      /\ \/ waPaid'[i] = V!None \/ waRow'[i].address = waPaid'[i]
                         \/ waPaid'[i] = V!CutOff \/ VOnItsWay(i)'
    BY DEF VPaid
  <2>1. /\ V!Mirror(i) => waPaid[i] = V!None
        /\ waPaid[i] = V!None \/ waRow[i].address = waPaid[i] \/ waPaid[i] = V!CutOff \/ VOnItsWay(i)
    BY DEF VInv, VPaid
  <2>2. waPaid'[i] \in {waPaid[i], V!CutOff} /\ waRow'[i] = waRow[i] /\ (V!Mirror(i)' <=> V!Mirror(i))
    BY <1>1 DEF V!Mirror
  <2>3. V!Mirror(i) => waPaid'[i] = waPaid[i]
    BY <1>1 DEF VInv, VKnow, VJudged, VShape, VCharged
  <2> QED
    BY <1>4, <2>1, <2>2, <2>3
<1>6. VKnow'
  <2> SUFFICES ASSUME NEW u \in UserRequests PROVE VShape(waTask[u])' /\ VFresh(waTask[u])'
    BY DEF VKnow
  <2>1. CASE u = t
    BY <1>1, <1>2, <2>1 DEF VShape, VFresh, V!Mirror, VCharged, VInv, V!TypeOK, V!Idle
  <2>2. CASE u # t
    <3>1. waTask'[u] = waTask[u] /\ VShape(waTask[u]) /\ VFresh(waTask[u]) /\ waTask[u].id \in V!Ids
      BY <1>1, <2>2 DEF VInv, V!TypeOK, VKnow
    <3> QED
      BY <1>1, <1>4, <3>1 DEF VShape, VFresh, V!Mirror, VCharged
  <2> QED
    BY <2>1, <2>2
<1> QED
  BY <1>3, <1>5, <1>6 DEF VInv

(* The whole row is written, or the index refuses its address.               *)
LEMMA VUpdates ==
  ASSUME VInv, VJudged, NEW t \in UserRequests, V!UpdateWallet(t) PROVE VInv'
<1> DEFINE q == waTask[t]
<1>1. q \in VWorks /\ VShape(q) /\ VFresh(q) /\ q.id \in V!Ids /\ q.row \in V!Rows /\ waRow[q.id] \in V!Rows
  BY DEF VInv, V!TypeOK, VWorks, VKnow
<1>2. q.at = "write"
  BY DEF V!UpdateWallet
<1>3. CASE V!TakenBy(q.row.address, q.id)
  <2>1. /\ waTask' = [waTask EXCEPT ![t] = V!Idle] /\ waTaken' = (waTaken \/ q.free)
        /\ UNCHANGED <<waMirror, waRow, waMeant, waPaid, waOverlap>>
    BY <1>3 DEF V!UpdateWallet, V!Drop
  <2>2. V!Idle \in VWorks /\ ~VCharged(V!Idle) /\ VShape(V!Idle) /\ VFresh(V!Idle)
    BY DEF V!Idle, VWorks, V!Gone, V!Row, V!Rows, V!Ids, V!None, VCharged, VShape, VFresh
  <2>3. CASE q.free
    <3>1. waTaken' = TRUE
      BY <2>1, <2>3 DEF VInv, V!TypeOK
    <3>2. V!TypeOK' /\ V!WalletsKeepWrites'
      BY <2>1, <2>2, <3>1 DEF VInv, V!TypeOK, V!WalletsKeepWrites, VWorks
    <3> QED
      BY <3>1, <3>2 DEF VInv, VKnow, VPaid, VJudged
  <2>4. CASE ~q.free
    <3>1. waTaken' = waTaken
      BY <1>1, <2>1, <2>4 DEF VInv, V!TypeOK
    <3> QED
      BY <1>1, <2>1, <2>2, <2>4, <3>1, VStill DEF VShape
  <2> QED
    BY <2>3, <2>4
<1>4. CASE ~V!TakenBy(q.row.address, q.id)
  <2> DEFINE row == IF q.op = "reset" THEN [q.row EXCEPT !.key = 1 - q.row.key] ELSE q.row
  <2>1. row \in V!Rows /\ row.address = q.row.address /\ row.deleted = q.row.deleted
        /\ row.key = IF q.op = "reset" THEN 1 - q.row.key ELSE q.row.key
    BY <1>1 DEF V!Rows
  <2>2. /\ V!Put(q.id, row, t) /\ UNCHANGED <<waTaken, waMirror>>
        /\ waMeant' = [waMeant EXCEPT ![q.id] =
             [key |-> IF q.op = "reset" THEN row.key ELSE waMeant[q.id].key, deleted |-> waMeant[q.id].deleted]]
        /\ waPaid' = [waPaid EXCEPT ![q.id] = IF q.op = "admin" THEN V!None ELSE waPaid[q.id]]
        /\ waOverlap' = (waOverlap \/ q.stale)
    BY <1>4 DEF V!UpdateWallet
  <2> HIDE DEF row
  <2>3. waMeant[q.id] \in [key : {0, 1}, deleted : BOOLEAN] /\ waPaid[q.id] \in LightningNames \union {V!None, V!CutOff}
        /\ row.key \in {0, 1}
    BY <1>1, <2>1 DEF VInv, V!TypeOK, V!Rows
  <2>4. /\ waMeant' \in [V!Ids -> [key : {0, 1}, deleted : BOOLEAN]]
        /\ \A i \in V!Ids : i # q.id => waMeant'[i] = waMeant[i]
        /\ waMeant'[q.id] = [key |-> IF q.op = "reset" THEN row.key ELSE waMeant[q.id].key,
                             deleted |-> waMeant[q.id].deleted]
    BY <1>1, <2>2, <2>3 DEF VInv, V!TypeOK
  <2>5. /\ waPaid' \in [V!Ids -> LightningNames \union {V!None, V!CutOff}]
        /\ \A i \in V!Ids : i # q.id => waPaid'[i] = waPaid[i]
        /\ waPaid'[q.id] = IF q.op = "admin" THEN V!None ELSE waPaid[q.id]
    BY <1>1, <2>2, <2>3 DEF VInv, V!TypeOK
  <2>6. waOverlap' \in BOOLEAN /\ waTaken' \in BOOLEAN /\ (~waOverlap' => ~q.stale)
    BY <1>1, <2>2 DEF VInv, V!TypeOK, VWorks
  <2>7. ASSUME ~q.stale
        PROVE  /\ V!Meaning(row) = waMeant'[q.id]
               /\ V!Mirror(q.id) => waPaid'[q.id] = V!None
               /\ \/ waPaid'[q.id] = V!None
                  \/ row.address = waPaid'[q.id] \/ waPaid'[q.id] = V!CutOff
                  \/ /\ waPaid'[q.id] = waPaid[q.id]
                     /\ \E u \in UserRequests : u # t /\ waTask[u].id = q.id /\ VCharged(waTask[u])
                                            /\ waTask[u].row.address = waPaid[q.id]
    <3>1. q.row.key = waRow[q.id].key /\ q.row.deleted = waRow[q.id].deleted
      BY <1>1, <1>2, <2>7 DEF VFresh
    <3>2. V!Meaning(waRow[q.id]) = waMeant[q.id]
      BY <1>1 DEF VInv, V!WalletsKeepWrites, VJudged
    <3>3. V!Meaning(row) = waMeant'[q.id]
      BY <2>1, <2>4, <3>1, <3>2 DEF V!Meaning
    <3>4. /\ V!Mirror(q.id) => waPaid[q.id] = V!None
          /\ waPaid[q.id] = V!None \/ waRow[q.id].address = waPaid[q.id] \/ waPaid[q.id] = V!CutOff
             \/ VOnItsWay(q.id)
      BY <1>1 DEF VInv, VPaid
    <3>5. CASE VOnItsWay(q.id)
      BY <2>1, <2>5, <3>3, <3>4, <3>5 DEF VOnItsWay
    <3>6. CASE ~VOnItsWay(q.id) /\ waPaid[q.id] # V!CutOff
      <4>1. q.op \in {"edit", "reset", "generate", "admin", "none"}
        BY <1>1, <1>2, <2>7, <3>6 DEF VFresh, VCharged, VWorks
      <4>2. CASE q.op \in {"edit", "reset"}
        BY <1>1, <1>2, <2>1, <2>5, <2>7, <3>3, <3>4, <3>6, <4>2 DEF VFresh
      <4>3. CASE q.op = "generate"
        BY <1>1, <1>2, <2>5, <2>7, <3>3, <3>4, <3>6, <4>3 DEF VFresh
      <4>4. CASE q.op = "admin"
        BY <2>5, <3>3, <4>4
      <4>5. CASE q.op = "none"
        BY <1>1, <1>2, <4>5 DEF VShape
      <4> QED
        BY <4>1, <4>2, <4>3, <4>4, <4>5
    <3> QED
      BY <3>3, <3>4, <3>5, <3>6, <2>5
  <2> QED
    BY <1>1, <2>1, <2>2, <2>4, <2>5, <2>6, <2>7, VPut
<1> QED
  BY <1>3, <1>4

(* A wallet is deleted, asked back or removed for good.                      *)
LEMMA VDeletes ==
  ASSUME VInv, VJudged, NEW id \in V!Ids, V!Remove(id) \/ \E deleted \in BOOLEAN : V!Delete(id, deleted)
  PROVE  VInv'
<1>1. 0 \notin UserRequests
  BY VConstants DEF V!WalletConstants
<1>2. waRow[id] \in V!Rows /\ waMeant[id] = V!Meaning(waRow[id])
  BY DEF VInv, V!TypeOK, V!WalletsKeepWrites, VJudged
<1>3. ASSUME NEW deleted \in BOOLEAN, V!Delete(id, deleted) PROVE VInv'
  <2> DEFINE row == [waRow[id] EXCEPT !.deleted = deleted]
  <2>1. row \in V!Rows /\ row.address = waRow[id].address /\ row.key = waRow[id].key /\ row.deleted = deleted
    BY <1>2 DEF V!Rows
  <2>2. V!Put(id, row, 0) /\ UNCHANGED <<waMirror, waPaid, waOverlap, waTaken>>
        /\ waMeant' = [waMeant EXCEPT ![id] = [waMeant[id] EXCEPT !.deleted = deleted]]
    BY <1>3 DEF V!Delete
  <2> HIDE DEF row
  <2>3. [waMeant[id] EXCEPT !.deleted = deleted] = [key |-> waRow[id].key, deleted |-> deleted]
    BY <1>2 DEF V!Meaning
  <2>4. waMeant' \in [V!Ids -> [key : {0, 1}, deleted : BOOLEAN]] /\ waMeant'[id] = V!Meaning(row)
        /\ \A i \in V!Ids : i # id => waMeant'[i] = waMeant[i]
    BY <1>2, <2>1, <2>2, <2>3 DEF VInv, V!TypeOK, V!Meaning, V!Rows
  <2>5. /\ V!Mirror(id) => waPaid[id] = V!None
        /\ \/ waPaid[id] = V!None
           \/ row.address = waPaid[id] \/ waPaid[id] = V!CutOff
           \/ \E u \in UserRequests : u # 0 /\ waTask[u].id = id /\ VCharged(waTask[u])
                                  /\ waTask[u].row.address = waPaid[id]
    BY <1>1, <2>1 DEF VInv, VPaid, VOnItsWay
  <2>6. /\ waPaid' \in [V!Ids -> LightningNames \union {V!None, V!CutOff}] /\ waPaid' = waPaid
        /\ waOverlap' \in BOOLEAN /\ waTaken' \in BOOLEAN
    BY <2>2 DEF VInv, V!TypeOK
  <2> QED
    BY <1>1, <2>1, <2>2, <2>4, <2>5, <2>6, VPut
<1>4. CASE V!Remove(id)
  <2> DEFINE row == V!Gone
  <2>1. row \in V!Rows
    BY DEF V!Gone, V!Row, V!Rows, V!None
  <2>2. V!Put(id, row, 0) /\ UNCHANGED <<waMirror, waOverlap, waTaken>>
        /\ waMeant' = [waMeant EXCEPT ![id] = V!Meaning(row)] /\ waPaid' = [waPaid EXCEPT ![id] = V!None]
    BY <1>4 DEF V!Remove
  <2> HIDE DEF row
  <2>3. V!Meaning(row) \in [key : {0, 1}, deleted : BOOLEAN]
    BY <2>1 DEF V!Meaning, V!Rows
  <2>4. /\ waMeant' \in [V!Ids -> [key : {0, 1}, deleted : BOOLEAN]] /\ waMeant'[id] = V!Meaning(row)
        /\ waPaid' \in [V!Ids -> LightningNames \union {V!None, V!CutOff}] /\ waPaid'[id] = V!None
        /\ \A i \in V!Ids : i # id => waMeant'[i] = waMeant[i] /\ waPaid'[i] = waPaid[i]
        /\ waOverlap' \in BOOLEAN /\ waTaken' \in BOOLEAN
    BY <2>2, <2>3 DEF VInv, V!TypeOK
  <2> QED
    BY <1>1, <2>1, <2>2, <2>4, VPut
<1> QED
  BY <1>3, <1>4

(* The rows of the wallets and their addresses, for any number of requests    *)
(* and addresses (crud/wallets.py, lightning_address.py, wallet_api.py).       *)
THEOREM VInvHolds == V!Spec => []VInv
<1>1. V!Init => VInv
  <2> SUFFICES ASSUME V!Init PROVE VInv
    OBVIOUS
  <2>1. PICK a \in LightningNames \union {V!None} :
           waRow = [i \in V!Ids |-> V!Row(0, IF i = 1 THEN a ELSE V!None, FALSE)]
    BY DEF V!Init
  <2>2. \A i \in V!Ids : waRow[i] \in V!Rows
    BY <2>1 DEF V!Row, V!Rows
  <2>3. V!Idle \in VWorks
    BY DEF V!Idle, VWorks, V!Gone, V!Row, V!Rows, V!Ids, V!None
  <2>4. waRow \in [V!Ids -> V!Rows] /\ waTask \in [UserRequests -> VWorks] /\ waPaid \in [V!Ids -> LightningNames \union {V!None, V!CutOff}]
    BY <2>1, <2>2, <2>3 DEF V!Init
  <2>5. waMeant \in [V!Ids -> [key : {0, 1}, deleted : BOOLEAN]]
    BY <2>2 DEF V!Init, V!Meaning, V!Rows
  <2>6. V!TypeOK
    BY <2>4, <2>5 DEF V!Init, V!TypeOK, VWorks
  <2>7. VKnow /\ VPaid /\ V!WalletsKeepWrites
    BY DEF V!Init, V!Idle, VKnow, VPaid, V!WalletsKeepWrites, VShape, VFresh, VCharged
  <2> QED
    BY <2>6, <2>7 DEF VInv
<1>2. ASSUME VInv, [V!Next]_(V!vars) PROVE VInv'
  <2>1. CASE UNCHANGED V!vars
    BY <1>2, <2>1 DEF V!vars, VInv, V!TypeOK, VKnow, VPaid, V!WalletsKeepWrites, VJudged, VShape, VFresh,
       VCharged, VOnItsWay, V!Mirror, V!Meaning
  <2>2. CASE V!Next
    <3>1. VJudged
      BY <2>2 DEF V!Next, VJudged
    <3>2. V!Steps /\ 1 \in V!Ids
      BY <2>2 DEF V!Next, V!Ids
    <3> QED
      BY <1>2, <3>1, <3>2, VBegins, VChecks, VStops, VUpdates, VDeletes DEF V!Steps
  <2> QED
    BY <1>2, <2>1, <2>2
<1> QED
  BY <1>1, <1>2, PTL DEF V!Spec

(* Keys that were reset and a deletion stay as they were asked for, and the    *)
(* address that was paid for is set, unless requests overlapped, the address   *)
(* was taken between its check and its write, or the request stopped between   *)
(* the charge and the write (crud/wallets.py 60-140, lightning_address.py).    *)
THEOREM WalletsAreKept == V!Spec => [](V!WalletsKeepWrites /\ V!PaidAddressIsSet)
<1>1. VInv => V!WalletsKeepWrites /\ V!PaidAddressIsSet
  BY DEF VInv, VPaid, VJudged, VOnItsWay, VCharged, V!PaidAddressIsSet
<1> QED
  BY <1>1, VInvHolds, PTL
-----------------------------------------------------------------------------
(* The rows of the accounts.  A request whose rows nobody changed meanwhile    *)
(* keeps the password and the activation it does not set, and the name it is   *)
(* about to write is not held.                                                *)
NWorks == [at : {"idle", "create", "again", "check", "write"},
           op : {"none", "create", "secret", "edit", "toggle"},
           id : AccountIds, row : N!Rows, stale : BOOLEAN]
NShape(q) ==
    /\ q.at = "again" => q.op = "edit"
    /\ q.at = "check" => q.op \in {"secret", "edit"}
    /\ q.at = "write" => q.op \in {"secret", "edit", "toggle"}
    /\ q.op \in {"secret", "edit"} => q.row.active
NFresh(q) ==
    q.at \in {"check", "write"} /\ ~q.stale =>
      /\ q.op \in {"secret", "edit"} => anRow[q.id].active
      /\ q.op \in {"edit", "toggle"} => q.row.secret = anRow[q.id].secret
      /\ q.op = "toggle" => anRow[q.id] # N!Gone
      /\ q.at = "write" /\ q.op \in {"secret", "edit"} => ~N!Held(q.row.name, q.id)
NKnow == N!Judged => \A t \in UserRequests : NShape(anTask[t]) /\ NFresh(anTask[t])
NInv == N!TypeOK /\ NKnow /\ N!AccountsKeepWrites /\ N!NamesBelongToOne

LEMMA NIdle == N!Idle \in NWorks /\ NShape(N!Idle) /\ NFresh(N!Idle) /\ N!Gone \in N!Rows
BY NConstants DEF N!Idle, NWorks, N!Gone, N!Row, N!Rows, NShape, NFresh, N!AccountConstants

(* One request goes on, and no row changes.                                  *)
LEMMA NStill ==
  ASSUME NInv, NEW t \in UserRequests, NEW n \in NWorks, anTask' = [anTask EXCEPT ![t] = n],
         UNCHANGED <<anRow, anMeant, anOverlap, anReturned>>, NShape(n), NFresh(n)
  PROVE  NInv'
<1>1. N!TypeOK' /\ N!AccountsKeepWrites' /\ N!NamesBelongToOne'
  BY DEF NInv, N!TypeOK, N!AccountsKeepWrites, N!NamesBelongToOne, N!Judged, NWorks
<1>2. NKnow'
  <2> SUFFICES ASSUME N!Judged, NEW u \in UserRequests PROVE NShape(anTask[u])' /\ NFresh(anTask[u])'
    BY DEF NKnow, N!Judged
  <2>1. CASE u = t
    <3>1. anTask'[u] = n
      BY <2>1 DEF NInv, N!TypeOK
    <3> QED
      BY <3>1 DEF NShape, NFresh, N!Held
  <2>2. CASE u # t
    <3>1. anTask'[u] = anTask[u] /\ NShape(anTask[u]) /\ NFresh(anTask[u])
      BY <2>2 DEF NInv, N!TypeOK, NKnow
    <3> QED
      BY <3>1 DEF NShape, NFresh, N!Held
  <2> QED
    BY <2>1, <2>2
<1> QED
  BY <1>1, <1>2 DEF NInv

(* A row is replaced, and what the others have read is no more.              *)
LEMMA NPut ==
  ASSUME NInv, N!Judged, NEW id \in AccountIds, NEW row \in N!Rows, NEW tasks, N!Put(id, row, tasks),
         anMeant' \in [AccountIds -> [secret : {0, 1}, active : BOOLEAN]],
         \A i \in AccountIds : i # id => anMeant'[i] = anMeant[i],
         anOverlap' \in BOOLEAN, anReturned' \in BOOLEAN,
         ~anOverlap' => N!Meaning(row) = anMeant'[id],
         N!Judged' /\ row.active => ~N!Held(row.name, id)
  PROVE  NInv'
<1>1. anRow' \in [AccountIds -> N!Rows] /\ anRow'[id] = row /\ \A i \in AccountIds : i # id => anRow'[i] = anRow[i]
  BY DEF NInv, N!TypeOK, N!Put
<1>2. ASSUME NEW u \in UserRequests
      PROVE  anTask'[u] \in NWorks /\ NShape(anTask[u])' /\ (anTask'[u].at = "idle" \/ anTask'[u].stale)
  <2> DEFINE n == [anTask[u] EXCEPT !.stale = TRUE]
  <2>1. anTask[u] \in NWorks /\ NShape(anTask[u])
    BY DEF NInv, N!TypeOK, NWorks, NKnow
  <2>2. /\ n \in NWorks /\ n.stale /\ n.at = anTask[u].at /\ n.op = anTask[u].op /\ n.row = anTask[u].row
    BY <2>1 DEF NWorks
  <2>3. anTask'[u] = N!Idle \/ anTask'[u] = n
    BY DEF N!Put
  <2> HIDE DEF n
  <2>4. CASE anTask'[u] = N!Idle
    BY <2>4, NIdle DEF NShape, N!Idle
  <2>5. CASE anTask'[u] = n
    BY <2>1, <2>2, <2>5 DEF NShape
  <2> QED
    BY <2>3, <2>4, <2>5
<1>3. N!TypeOK'
  <2>1. anTask' \in [UserRequests -> NWorks]
    BY <1>2 DEF N!Put
  <2> QED
    BY <1>1, <2>1 DEF N!TypeOK, NWorks
<1>4. NKnow'
  BY <1>2 DEF NKnow, NFresh
<1>5. N!AccountsKeepWrites'
  <2> SUFFICES ASSUME ~anOverlap', NEW i \in AccountIds PROVE N!Meaning(anRow'[i]) = anMeant'[i]
    BY DEF N!AccountsKeepWrites, N!Meaning
  <2> QED
    BY <1>1 DEF NInv, N!Judged, N!AccountsKeepWrites
<1>6. N!NamesBelongToOne'
  <2> SUFFICES ASSUME N!Judged', NEW i \in AccountIds, NEW j \in AccountIds, i # j, anRow'[i].active, anRow'[j].active
               PROVE  anRow'[i].name # anRow'[j].name
    BY DEF N!NamesBelongToOne
  <2>1. CASE i = id
    BY <1>1, <2>1 DEF N!Held
  <2>2. CASE j = id
    BY <1>1, <2>2 DEF N!Held
  <2>3. CASE i # id /\ j # id
    BY <1>1, <2>3 DEF NInv, N!NamesBelongToOne
  <2> QED
    BY <2>1, <2>2, <2>3
<1> QED
  BY <1>3, <1>4, <1>5, <1>6 DEF NInv

(* A request begins.                                                         *)
LEMMA NBegins ==
  ASSUME NInv, N!Judged, NEW t \in UserRequests, NEW id \in AccountIds, NEW name,
         \/ /\ name \in AccountNames
            /\ \/ N!Register(t, id, name) \/ N!Update(t, id, name)
               \/ N!UpdateUser(t, id, name) \/ N!UpdatePassword(t, id, name)
         \/ N!ResetPassword(t, id) \/ N!Toggle(t, id)
  PROVE  NInv'
<1>1. anRow[id] \in N!Rows /\ N!Other(id) \in {0, 1}
  BY DEF NInv, N!TypeOK, N!Rows, N!Other
<1>2. ASSUME NEW op \in {"create", "secret", "edit", "toggle"}, NEW at \in {"create", "again", "check", "write"},
             NEW row \in N!Rows, N!Begin(t, op, id, row, at),
             LET n == [at |-> at, op |-> op, id |-> id, row |-> row, stale |-> FALSE] IN NShape(n) /\ NFresh(n)
      PROVE  NInv'
  <2> DEFINE n == [at |-> at, op |-> op, id |-> id, row |-> row, stale |-> FALSE]
  <2>1. n \in NWorks
    BY <1>2 DEF NWorks
  <2>2. anTask' = [anTask EXCEPT ![t] = n] /\ UNCHANGED <<anRow, anMeant, anOverlap, anReturned>>
    BY <1>2 DEF N!Begin
  <2> HIDE DEF n
  <2> QED
    BY <1>2, <2>1, <2>2, NStill DEF n
<1>3. name \in AccountNames => \A s \in {0, 1} : N!Row(name, s, TRUE) \in N!Rows /\ N!Row(name, s, TRUE).active
  BY DEF N!Row, N!Rows
<1>4. CASE name \in AccountNames /\ N!Register(t, id, name)
  BY <1>2, <1>3, <1>4 DEF N!Register, NShape, NFresh
<1>5. CASE name \in AccountNames /\ N!Update(t, id, name)
  <2>1. LET w == [anRow[id] EXCEPT !.name = name] IN w \in N!Rows /\ w.active = anRow[id].active
    BY <1>1, <1>5 DEF N!Rows
  <2> QED
    BY <1>2, <1>5, <2>1 DEF N!Update, NShape, NFresh
<1>6. CASE name \in AccountNames /\ N!UpdateUser(t, id, name)
  BY <1>2, <1>3, <1>6 DEF N!UpdateUser, NShape, NFresh
<1>7. CASE name \in AccountNames /\ N!UpdatePassword(t, id, name)
  <2> DEFINE w == N!Row(name, N!Other(id), TRUE)
  <2>1. w \in N!Rows /\ w.active /\ w.name = name
    BY <1>1, <1>3, <1>7 DEF N!Row
  <2>2. anRow[id].active /\ N!Begin(t, "secret", id, w, IF name = anRow[id].name THEN "write" ELSE "check")
    BY <1>7 DEF N!UpdatePassword
  <2>3. name = anRow[id].name => ~N!Held(name, id)
    BY <2>2 DEF NInv, N!NamesBelongToOne, N!Held
  <2> HIDE DEF w
  <2>4. CASE name = anRow[id].name
    BY <1>2, <2>1, <2>2, <2>3, <2>4 DEF NShape, NFresh
  <2>5. CASE name # anRow[id].name
    BY <1>2, <2>1, <2>2, <2>5 DEF NShape, NFresh
  <2> QED
    BY <2>4, <2>5
<1>8. CASE N!ResetPassword(t, id)
  <2> DEFINE w == [anRow[id] EXCEPT !.secret = N!Other(id)]
  <2>1. w \in N!Rows /\ w.active = anRow[id].active /\ w.name = anRow[id].name
    BY <1>1 DEF N!Rows
  <2>2. anRow[id].active /\ N!Begin(t, "secret", id, w, "write")
    BY <1>8 DEF N!ResetPassword
  <2>3. ~N!Held(w.name, id)
    BY <2>1, <2>2 DEF NInv, N!NamesBelongToOne, N!Held
  <2> HIDE DEF w
  <2> QED
    BY <1>2, <2>1, <2>2, <2>3 DEF NShape, NFresh
<1>9. CASE N!Toggle(t, id)
  <2> DEFINE w == [anRow[id] EXCEPT !.active = ~anRow[id].active]
  <2>1. w \in N!Rows /\ w.secret = anRow[id].secret
    BY <1>1 DEF N!Rows
  <2>2. anRow[id] # N!Gone /\ N!Begin(t, "toggle", id, w, "write")
    BY <1>9 DEF N!Toggle
  <2> HIDE DEF w
  <2> QED
    BY <1>2, <2>1, <2>2 DEF NShape, NFresh
<1> QED
  BY <1>4, <1>5, <1>6, <1>7, <1>8, <1>9

(* A request checks its name and keeps what it does not set.                 *)
LEMMA NChecks ==
  ASSUME NInv, N!Judged, NEW t \in UserRequests, N!Keep(t) \/ N!CheckName(t)
  PROVE  NInv'
<1> DEFINE q == anTask[t]
<1>1. q \in NWorks /\ NShape(q) /\ NFresh(q) /\ q.row \in N!Rows /\ anRow[q.id] \in N!Rows
  BY DEF NInv, N!TypeOK, NWorks, NKnow
<1>2. CASE N!Refused(t)
  BY <1>2, NStill, NIdle DEF N!Refused
<1>3. CASE N!Keep(t) /\ anRow[q.id].active
  <2> DEFINE w == [q.row EXCEPT !.secret = anRow[q.id].secret]
             n == [q EXCEPT !.at = "check", !.row = w]
  <2>1. w \in N!Rows /\ w.secret = anRow[q.id].secret /\ w.active = q.row.active
    BY <1>1 DEF N!Rows
  <2>2. q.at = "again" /\ anTask' = [anTask EXCEPT ![t] = n] /\ UNCHANGED <<anRow, anMeant, anOverlap, anReturned>>
    BY <1>3 DEF N!Keep
  <2> HIDE DEF w
  <2>3. n \in NWorks /\ n.at = "check" /\ n.op = q.op /\ n.row = w /\ n.id = q.id
    BY <1>1, <2>1 DEF NWorks
  <2> HIDE DEF n
  <2>4. NShape(n) /\ NFresh(n)
    BY <1>1, <1>3, <2>1, <2>2, <2>3 DEF NShape, NFresh
  <2> QED
    BY <2>2, <2>3, <2>4, NStill
<1>4. CASE N!CheckName(t) /\ ~N!Held(q.row.name, q.id)
  <2> DEFINE n == [q EXCEPT !.at = "write"]
  <2>1. q.at = "check" /\ anTask' = [anTask EXCEPT ![t] = n] /\ UNCHANGED <<anRow, anMeant, anOverlap, anReturned>>
    BY <1>4 DEF N!CheckName
  <2>2. n \in NWorks /\ n.at = "write" /\ n.op = q.op /\ n.row = q.row /\ n.id = q.id /\ n.stale = q.stale
    BY <1>1 DEF NWorks
  <2> HIDE DEF n
  <2>3. NShape(n) /\ NFresh(n)
    BY <1>1, <1>4, <2>1, <2>2 DEF NShape, NFresh
  <2> QED
    BY <2>1, <2>2, <2>3, NStill
<1> QED
  BY <1>2, <1>3, <1>4 DEF N!Keep, N!CheckName

(* An account is made or deleted.                                            *)
LEMMA NInserts ==
  ASSUME NInv, N!Judged, NEW id \in AccountIds, NEW row \in N!Rows, NEW tasks,
         \/ N!Insert(id, row, tasks) /\ tasks \subseteq UserRequests
         \/ N!Delete(id) /\ row = N!Gone
  PROVE  NInv'
<1>1. N!Meaning(row) \in [secret : {0, 1}, active : BOOLEAN]
  BY DEF N!Meaning, N!Rows
<1>2. anMeant' = [anMeant EXCEPT ![id] = N!Meaning(row)]
  BY DEF N!Insert, N!Delete
<1>3. /\ anMeant' \in [AccountIds -> [secret : {0, 1}, active : BOOLEAN]] /\ anMeant'[id] = N!Meaning(row)
      /\ \A i \in AccountIds : i # id => anMeant'[i] = anMeant[i]
  BY <1>1, <1>2 DEF NInv, N!TypeOK
<1>4. \A u \in UserRequests : anTask[u].stale \in BOOLEAN
  BY DEF NInv, N!TypeOK
<1>5. CASE N!Insert(id, row, tasks) /\ tasks \subseteq UserRequests
  <2>1. N!Put(id, row, tasks) /\ ~N!Held(row.name, id) /\ anReturned' \in BOOLEAN
    BY <1>5 DEF N!Insert, NInv, N!TypeOK
  <2>2. anOverlap' \in BOOLEAN
    BY <1>5 DEF N!Insert, NInv, N!TypeOK
  <2> QED
    BY <1>3, <2>1, <2>2, NPut
<1>6. CASE N!Delete(id) /\ row = N!Gone
  <2>1. N!Put(id, row, {}) /\ ~row.active /\ anReturned' \in BOOLEAN /\ anOverlap' \in BOOLEAN
    BY <1>6 DEF N!Delete, NInv, N!TypeOK, N!Gone, N!Row
  <2> QED
    BY <1>3, <2>1, NPut
<1> QED
  BY <1>5, <1>6

(* The whole row is written.                                                 *)
LEMMA NUpdates ==
  ASSUME NInv, N!Judged, NEW t \in UserRequests, N!UpdateAccount(t) PROVE NInv'
<1> DEFINE q == anTask[t]
           old == anRow[q.id]
           row == IF old = N!Gone THEN N!Gone ELSE q.row
           meant == IF old = N!Gone THEN anMeant[q.id]
                    ELSE [secret |-> IF q.op = "secret" THEN q.row.secret ELSE anMeant[q.id].secret,
                          active |-> IF q.op = "toggle" THEN q.row.active ELSE anMeant[q.id].active]
<1>1. q \in NWorks /\ NShape(q) /\ NFresh(q) /\ q.row \in N!Rows /\ old \in N!Rows /\ q.id \in AccountIds
  BY DEF NInv, N!TypeOK, NWorks, NKnow
<1>2. /\ q.at = "write" /\ N!Put(q.id, row, {t}) /\ anMeant' = [anMeant EXCEPT ![q.id] = meant]
      /\ anOverlap' = (anOverlap \/ q.stale)
      /\ anReturned' = (anReturned \/ (q.op = "toggle" /\ q.row.active /\ N!Held(q.row.name, q.id)))
  BY DEF N!UpdateAccount
<1>3. row \in N!Rows
  BY <1>1, NIdle
<1>4. anMeant[q.id] = N!Meaning(old) /\ anMeant[q.id] \in [secret : {0, 1}, active : BOOLEAN]
  BY <1>1 DEF NInv, N!TypeOK, N!AccountsKeepWrites, N!Judged
<1>5. meant \in [secret : {0, 1}, active : BOOLEAN]
  BY <1>1, <1>4 DEF N!Rows
<1>6. ~q.stale => N!Meaning(row) = meant
  BY <1>1, <1>2, <1>4 DEF NShape, NFresh, N!Meaning, N!Rows
<1>7. ~q.stale /\ row.active => (q.op = "toggle" /\ row = q.row) \/ ~N!Held(row.name, q.id)
  BY <1>1, <1>2 DEF NShape, NFresh, N!Gone, N!Row
<1> HIDE DEF row, meant
<1>8. /\ anMeant' \in [AccountIds -> [secret : {0, 1}, active : BOOLEAN]] /\ anMeant'[q.id] = meant
      /\ \A i \in AccountIds : i # q.id => anMeant'[i] = anMeant[i]
  BY <1>1, <1>2, <1>5 DEF NInv, N!TypeOK
<1>9. /\ anOverlap' \in BOOLEAN /\ anReturned' \in BOOLEAN
      /\ ~anOverlap' => ~q.stale
  BY <1>1, <1>2 DEF NWorks, NInv, N!TypeOK
<1>10. N!Judged' /\ row.active => ~N!Held(row.name, q.id)
  BY <1>2, <1>7, <1>9 DEF N!Judged
<1> QED
  BY <1>1, <1>2, <1>3, <1>6, <1>8, <1>9, <1>10, NPut

(* The rows of the accounts, for any number of accounts, names and requests   *)
(* (auth_api.py, user_api.py, services/users.py, crud/users.py).               *)
THEOREM NInvHolds == N!Spec => []NInv
<1>1. N!Init => NInv
  <2> SUFFICES ASSUME N!Init PROVE NInv
    OBVIOUS
  <2>1. PICK name \in AccountNames : anRow = [i \in AccountIds |-> IF i = 1 THEN N!Row(name, 0, TRUE) ELSE N!Gone]
    BY DEF N!Init
  <2>2. N!Row(name, 0, TRUE) \in N!Rows
    BY DEF N!Row, N!Rows
  <2>3. anRow \in [AccountIds -> N!Rows] /\ anTask \in [UserRequests -> NWorks]
    BY <2>1, <2>2, NIdle DEF N!Init
  <2>4. anMeant \in [AccountIds -> [secret : {0, 1}, active : BOOLEAN]]
    BY <2>3 DEF N!Init, N!Meaning, N!Rows
  <2>5. N!TypeOK
    BY <2>3, <2>4 DEF N!Init, N!TypeOK, NWorks
  <2>6. NKnow /\ N!AccountsKeepWrites
    BY NIdle DEF N!Init, NKnow, N!AccountsKeepWrites
  <2>7. N!NamesBelongToOne
    BY <2>1 DEF N!NamesBelongToOne, N!Gone, N!Row
  <2> QED
    BY <2>5, <2>6, <2>7 DEF NInv
<1>2. ASSUME NInv, [N!Next]_(N!vars) PROVE NInv'
  <2>1. CASE UNCHANGED N!vars
    BY <1>2, <2>1 DEF N!vars, NInv, N!TypeOK, NKnow, N!AccountsKeepWrites, N!NamesBelongToOne, N!Judged,
       NShape, NFresh, N!Held, N!Meaning
  <2>2. CASE N!Next
    <3>1. N!Judged /\ N!Steps
      BY <2>2 DEF N!Next
    <3>2. ASSUME NEW t \in UserRequests, N!CreateAccount(t) PROVE NInv'
      <4>1. anTask[t].id \in AccountIds /\ anTask[t].row \in N!Rows
        BY <1>2 DEF NInv, N!TypeOK
      <4>2. CASE N!Insert(anTask[t].id, anTask[t].row, {t})
        BY <1>2, <3>1, <4>1, <4>2, NInserts
      <4>3. CASE N!Refused(t)
        BY <1>2, <4>3, NStill, NIdle DEF N!Refused
      <4> QED
        BY <3>2, <4>2, <4>3 DEF N!CreateAccount
    <3>3. ASSUME NEW id \in AccountIds, NEW name \in AccountNames, N!CreateUser(id, name) PROVE NInv'
      <4> DEFINE row == N!Row(name, 0, TRUE)
                 none == {}
      <4>1. row \in N!Rows /\ none \subseteq UserRequests
        BY DEF N!Row, N!Rows
      <4>2. N!Insert(id, row, none)
        BY <3>3 DEF N!CreateUser
      <4> HIDE DEF row, none
      <4> QED
        BY <1>2, <3>1, <4>1, <4>2, NInserts
    <3>4. ASSUME NEW id \in AccountIds, N!Delete(id) PROVE NInv'
      BY <1>2, <3>1, <3>4, NInserts, NIdle
    <3> QED
      BY <1>2, <3>1, <3>2, <3>3, <3>4, NBegins, NChecks, NUpdates DEF N!Steps
  <2> QED
    BY <1>2, <2>1, <2>2
<1> QED
  BY <1>1, <1>2, PTL DEF N!Spec

(* A name leads to one account, and passwords and activations are those last   *)
(* asked for, unless requests overlapped or a name was given away              *)
(* (auth_api.py, services/users.py update_user_account).                       *)
THEOREM NamesAndSecretsLast == N!Spec => [](N!NamesBelongToOne /\ N!AccountsKeepWrites)
<1>1. NInv => N!NamesBelongToOne /\ N!AccountsKeepWrites
  BY DEF NInv
<1> QED
  BY <1>1, NInvHolds, PTL
-----------------------------------------------------------------------------
(* The start of the server.  A migration is begun again only where that is     *)
(* possible, unless one was cut; a start knows by which way it came; the rows  *)
(* of the settings name the superuser the settings object names, unless they   *)
(* were deleted behind it; and so does the promise that was made to him.       *)
TRenews == {"renew", "super again", "funding again", "token again"}
TSchema ==
    /\ srAt \notin {"off", "migrate", "stuck"} => srVersion = T!Last
    /\ srVersion = T!Last => srApplied = 0
    /\ srAt = "off" /\ srApplied # 0 => srCut
    /\ srMissing # {} => srCut
    /\ srAt = "stuck" => srCut \/ srWiped
TPath ==
    /\ srTask.at # "idle" => srAt = "on"
    /\ srTask.at = "edit" => srTask.funding # T!Absent
    /\ srAt \in {"super", "super again", "funding", "funding again", "token", "token again"} => srNew # T!None
    /\ srAt \in {"funding", "funding again", "token", "token again"} => srRows.super = srNew
    /\ srAt \in {"cache", "renew", "super again"} => srRows.super # T!None
    /\ srAt = "on" => srMemory.super # T!None
    /\ srAt \in TRenews => srRenewed
    /\ srAt = "on" /\ ~srRenewed => srFile = srMemory.super
TWhole ==
    ~srWiped =>
      /\ srRows.super = T!None =>
           /\ srRows.funding = T!Absent /\ srRows.token = T!Absent
           /\ srAt \in {"off", "migrate", "settings", "init", "super", "stuck"} \/ srTask.at = "super"
      /\ srRows.token # T!Absent => srRows.funding # T!Absent
      /\ srAt \in {"token", "cache"} \union TRenews => srRows.funding # T!Absent
      /\ srAt = "on" => /\ srTask.at # "super" => srRows.super = srMemory.super
                        /\ srTask.at \notin {"super", "funding"} => srRows.funding # T!Absent
      /\ srTask.at \in {"delete", "super", "funding"} =>
           srTask.super = srMemory.super /\ srTask.funding # T!Absent
TOwner ==
    /\ srWiped => srOwner = T!None
    /\ srOwner # T!None =>
         /\ srAt \notin TRenews \union {"init", "super", "funding", "token"}
         /\ srAt = "on" => srMemory.super = srOwner
         /\ srTask.at # "super" => srRows.super = srOwner
         /\ srTask.at \notin {"super", "funding"} => srRows.funding # T!Absent
TInv == T!TypeOK /\ TSchema /\ TPath /\ TWhole /\ TOwner

(* Every migration can be begun, and the longest has seven statements.       *)
TMigration == [steps : 0..7, again : {a \in SUBSET Nat : 0 \in a}, caught : BOOLEAN]
LEMMA TMigrations ==
  /\ T!Last \in Nat
  /\ \A n \in 1..T!Last : T!Migrations[n] \in TMigration
<1> DEFINE Lists == Seq(TMigration)
<1>1. /\ \A n \in 0..7 : T!Makes(n) \in TMigration /\ T!Alters(n) \in TMigration /\ T!Tries(n) \in TMigration
      /\ T!View \in TMigration /\ T!Initial \in TMigration /\ T!MovesSettings \in TMigration
  BY DEF TMigration, T!Makes, T!Alters, T!Tries, T!View, T!Initial, T!MovesSettings
<1>2. \A s, t \in Lists : s \o t \in Lists
  OBVIOUS
<1>3. T!From001 \in Lists
  BY <1>1 DEF T!From001
<1>4. T!From004 \in Lists
  BY <1>1 DEF T!From004
<1>5. T!From011 \in Lists
  BY <1>1 DEF T!From011
<1>6. T!From017 \in Lists
  BY <1>1 DEF T!From017
<1>7. T!From023 \in Lists
  BY <1>1 DEF T!From023
<1>8. T!From029 \in Lists
  <2>1. <<T!Makes(1)>> \in Lists /\ <<T!Makes(1), T!Alters(1), T!Makes(1), T!Makes(1)>> \in Lists
    BY <1>1
  <2>2. [i \in 1..7 |-> T!Alters(1)] \in Lists
    BY <1>1
  <2> QED
    BY <1>2, <2>1, <2>2 DEF T!From029
<1>9. T!From042 \in Lists
  BY <1>1 DEF T!From042
<1>10. T!Migrations \in Lists
  BY <1>2, <1>3, <1>4, <1>5, <1>6, <1>7, <1>8, <1>9 DEF T!Migrations
<1> QED
  BY <1>10 DEF T!Last

(* What a step leaves alone keeps its type.                                  *)
TSchemaTyped == srVersion \in 0..T!Last /\ srApplied \in 0..7 /\ srMissing \subseteq 1..T!Last /\ srCut \in BOOLEAN
TAccountsTyped ==
    /\ srNew \in T!Ids \union {T!None} /\ srMade \in 0..MaxAccounts /\ srClaimed \subseteq T!Ids
    /\ srFile \in T!Ids \union {T!None} /\ srRenewed \in BOOLEAN
TEndsTyped ==
    /\ srEnv \in [super : T!Ids \union {T!None}, token : T!Tokens]
    /\ srStops \in 0..MaxStops /\ srWiped \in BOOLEAN
TMemories == [super : T!Ids \union {T!None}, funding : T!Fundings, token : T!Tokens, first : BOOLEAN]
TTasks == [at : {"idle", "confirm", "edit", "load", "delete", "super", "funding"},
           super : T!Ids \union {T!None}, funding : T!Fundings \union {T!Absent},
           token : T!Tokens \union {T!Absent}]
TOthersTyped ==
    /\ srRows \in T!Settings /\ srMemory \in TMemories
    /\ srTask \in TTasks /\ srOwner \in T!Ids \union {T!None}
LEMMA TTyped ==
  /\ T!TypeOK => srAt \in T!Points /\ TSchemaTyped /\ TAccountsTyped /\ TEndsTyped /\ TOthersTyped
  /\ srAt' \in T!Points /\ TSchemaTyped' /\ TAccountsTyped' /\ TEndsTyped' /\ TOthersTyped' => T!TypeOK'
BY DEF T!TypeOK, TSchemaTyped, TAccountsTyped, TEndsTyped, TOthersTyped, TMemories, TTasks
LEMMA TSame ==
  /\ TSchemaTyped /\ UNCHANGED T!schemaVars => TSchemaTyped'
  /\ TAccountsTyped /\ UNCHANGED T!accountVars => TAccountsTyped'
  /\ TEndsTyped /\ UNCHANGED T!endVars => TEndsTyped'
BY DEF TSchemaTyped, TAccountsTyped, TEndsTyped, T!schemaVars, T!accountVars, T!endVars

LEMMA TStarts ==
  ASSUME TInv, T!Start \/ T!Migrate PROVE TInv'
<1> USE DEF TInv, T!schemaVars, T!accountVars, T!endVars
<1>1. /\ T!Last \in Nat /\ srVersion \in 0..T!Last /\ srApplied \in 0..7
      /\ srVersion # T!Last => T!Current \in TMigration /\ srVersion + 1 \in 1..T!Last
  BY TMigrations DEF T!TypeOK, T!Current
<1>2. ASSUME NEW at \in {"settings", "migrate"}, NEW version \in 0..T!Last, NEW missing \in SUBSET (1..T!Last),
             T!Starts(at, version, missing), srAt = "off", missing # {} => srCut,
             at = "settings" => version = T!Last
      PROVE  TInv'
  <2> USE <1>2 DEF T!Starts
  <2>1. T!TypeOK'
    <3>1. srAt' \in T!Points /\ TSchemaTyped'
      <4>1. srAt' \in T!Points /\ srApplied' \in 0..7
        <5>1. srAt' = at /\ srApplied' = 0
          OBVIOUS
        <5>2. at \in T!Points
          BY DEF T!Points
        <5> QED
          BY <5>1, <5>2
      <4>3. srVersion' \in 0..T!Last /\ srMissing' \subseteq 1..T!Last
        OBVIOUS
      <4>2. srCut' \in BOOLEAN
        BY TTyped DEF TSchemaTyped
      <4> QED
        BY <4>1, <4>2, <4>3 DEF TSchemaTyped
    <3>2. TAccountsTyped' /\ TEndsTyped'
      BY TTyped DEF TAccountsTyped, TEndsTyped
    <3>3. srMemory' \in TMemories
      <4>1. srEnv.super \in T!Ids \union {T!None}
        BY TTyped DEF TEndsTyped
      <4> QED
        BY <4>1 DEF TMemories, T!Fundings, T!Tokens
    <3>4. TOthersTyped'
      BY <3>3, TTyped DEF TOthersTyped
    <3> QED
      BY <3>1, <3>2, <3>4, TTyped
  <2>2. TSchema' /\ TPath'
    BY DEF TSchema, TPath, TRenews
  <2>3. TWhole' /\ TOwner'
    BY DEF TWhole, TOwner, TPath, TRenews
  <2> QED
    BY <2>1, <2>2, <2>3
<1>3. CASE T!Start
  <2>1. CASE srVersion = T!Last /\ T!Starts("settings", srVersion, srMissing)
    BY <1>1, <1>2, <1>3, <2>1 DEF T!Start, T!TypeOK, TSchema
  <2>2. CASE T!Starts("migrate", srVersion, srMissing)
    BY <1>1, <1>2, <1>3, <2>2 DEF T!Start, T!TypeOK, TSchema
  <2>3. CASE srVersion < T!Last /\ srApplied \notin T!Current.again
    <3>1. srCut
      BY <1>1, <1>3, <2>3 DEF T!Start, TSchema, TMigration
    <3>2. ASSUME NEW missing \in SUBSET (1..T!Last), T!Starts("migrate", srVersion + 1, missing) PROVE TInv'
      BY <1>1, <1>2, <1>3, <2>3, <3>1, <3>2 DEF T!Start
    <3>3. srMissing \union (IF srApplied < T!Current.steps THEN {srVersion + 1} ELSE {}) \in SUBSET (1..T!Last)
      <4>1. srVersion + 1 \in 1..T!Last /\ srMissing \subseteq 1..T!Last
        BY <1>1, <2>3, TTyped DEF TSchemaTyped
      <4> QED
        BY <4>1
    <3>4. CASE srAt' = "stuck" /\ UNCHANGED <<T!schemaVars, T!accountVars, T!endVars, srRows, srMemory, srTask, srOwner>>
      <4>1. T!TypeOK'
        BY <3>4, TTyped, TSame DEF T!Points, TOthersTyped
      <4>2. TSchema' /\ TPath' /\ TWhole' /\ TOwner'
        BY <1>3, <3>1, <3>4 DEF T!Start, TSchema, TPath, TWhole, TOwner, TRenews
      <4> QED
        BY <4>1, <4>2
    <3>5. CASE T!Starts("migrate", srVersion + 1,
                 srMissing \union (IF srApplied < T!Current.steps THEN {srVersion + 1} ELSE {}))
      <4> DEFINE missing == srMissing \union (IF srApplied < T!Current.steps THEN {srVersion + 1} ELSE {})
      <4>1. missing \in SUBSET (1..T!Last) /\ T!Starts("migrate", srVersion + 1, missing)
        BY <3>3, <3>5
      <4> HIDE DEF missing
      <4> QED
        BY <3>2, <4>1
    <3>6. srVersion # T!Last
      BY <1>1, <2>3
    <3> QED
      BY <1>3, <2>3, <3>4, <3>5, <3>6 DEF T!Start
  <2> QED
    BY <1>1, <1>3, <2>1, <2>2, <2>3 DEF T!Start
<1>4. CASE T!Migrate
  <2>1. srVersion' \in 0..T!Last /\ srApplied' \in 0..7
    BY <1>1, <1>4 DEF T!Migrate, TMigration
  <2>2. T!TypeOK'
    <3>1. srAt' \in T!Points /\ TSchemaTyped'
      BY <1>4, <2>1, TTyped DEF T!Migrate, T!Points, TSchemaTyped
    <3>2. TAccountsTyped' /\ TEndsTyped' /\ TOthersTyped'
      BY <1>4, TTyped, TSame DEF T!Migrate, TOthersTyped
    <3> QED
      BY <3>1, <3>2, TTyped
  <2>3. TSchema'
    BY <1>1, <1>4 DEF T!Migrate, TSchema
  <2>4. TPath' /\ TWhole' /\ TOwner'
    BY <1>4 DEF T!Migrate, TPath, TWhole, TOwner, TRenews
  <2> QED
    BY <2>2, <2>3, <2>4
<1> QED
  BY <1>3, <1>4

(* An account more is made.                                                  *)
LEMMA TMade ==
  ASSUME T!TypeOK
  PROVE  /\ srMade \in 0..MaxAccounts /\ srMade + 1 # T!None
         /\ srMade < MaxAccounts => srMade + 1 \in 0..MaxAccounts /\ srMade + 1 \in T!Ids
<1>1. srMade \in 0..MaxAccounts /\ MaxAccounts \in Nat
  BY TConstants DEF T!TypeOK, T!StartConstants
<1> QED
  BY <1>1 DEF T!None, T!Ids

(* Settings are looked for, and the superuser of the environment is saved.  *)
LEMMA TCheckSettings ==
  ASSUME TInv, T!CheckSettings PROVE TInv'
<1> USE DEF TInv, T!CheckSettings, T!Broken, T!Data
<1>1. T!TypeOK'
  <2>1. srAt' \in T!Points /\ TSchemaTyped' /\ TAccountsTyped' /\ TEndsTyped'
    BY TTyped, TSame DEF T!Points
  <2>2. srRows' \in T!Settings
    BY TTyped DEF TOthersTyped, TAccountsTyped, TEndsTyped, T!Settings, TMemories, TTasks, T!Fundings, T!Tokens, T!Ids, T!None, T!Absent
  <2>3. TOthersTyped'
    BY <2>1, <2>2, TTyped DEF TOthersTyped
  <2> QED
    BY <2>1, <2>2, <2>3, TTyped
<1>2. TSchema'
  BY DEF T!schemaVars, T!accountVars, T!endVars, T!TypeOK, TSchema, TPath, TWhole
<1>3. TPath'
  BY DEF T!schemaVars, T!accountVars, T!endVars, T!TypeOK, T!Points, T!Settings, T!Fundings, T!Tokens, T!Ids, T!None, T!Absent, TPath, TRenews, TWhole
<1>4. TWhole'
  BY DEF T!schemaVars, T!accountVars, T!endVars, T!TypeOK, T!Points, T!Settings, T!Fundings, T!Tokens, T!Ids, T!None, T!Absent, TPath, TRenews, TWhole
<1>5. TOwner'
  BY DEF T!schemaVars, T!accountVars, T!endVars, T!TypeOK, T!Points, T!Settings, T!Fundings, T!Tokens, T!Ids, T!None, T!Absent, TPath, TRenews, TWhole, TOwner
<1> QED
  BY <1>1, <1>2, <1>3, <1>4, <1>5

(* An account is made the superuser's.                                      *)
LEMMA TMakeAccount ==
  ASSUME TInv, T!MakeAccount PROVE TInv'
<1> USE DEF TInv, T!MakeAccount
<1>1. T!TypeOK'
  <2>1. srAt' \in T!Points /\ TSchemaTyped' /\ TEndsTyped'
    BY TTyped, TSame DEF T!Points
  <2>2. TAccountsTyped'
    <3>1. srNew' \in T!Ids \union {T!None} /\ srMade' \in 0..MaxAccounts
      <4>1. srMemory.super \in T!Ids \union {T!None}
        BY TTyped DEF TOthersTyped, TMemories
      <4> QED
        BY <4>1, TMade
    <3>2. UNCHANGED <<srClaimed, srFile, srRenewed>>
      OBVIOUS
    <3> QED
      BY <3>1, <3>2, TTyped DEF TAccountsTyped
  <2>3. TOthersTyped'
    BY <2>1, <2>2, TTyped DEF TOthersTyped
  <2> QED
    BY <2>1, <2>2, <2>3, TTyped
<1>6. srMade + 1 # T!None
  BY TMade
<1>2. TSchema'
  BY <1>6 DEF T!schemaVars, T!accountVars, T!endVars, T!TypeOK, TSchema, TPath, TWhole
<1>3. TPath'
  BY <1>6 DEF T!schemaVars, T!accountVars, T!endVars, T!TypeOK, T!Points, T!Settings, T!Fundings, T!Tokens, T!Ids, T!None, T!Absent, TPath, TRenews, TWhole
<1>4. TWhole'
  BY <1>6 DEF T!schemaVars, T!accountVars, T!endVars, T!TypeOK, T!Points, T!Settings, T!Fundings, T!Tokens, T!Ids, T!None, T!Absent, TPath, TRenews, TWhole
<1>5. TOwner'
  BY <1>6 DEF T!schemaVars, T!accountVars, T!endVars, T!TypeOK, T!Points, T!Settings, T!Fundings, T!Tokens, T!Ids, T!None, T!Absent, TPath, TRenews, TWhole, TOwner
<1> QED
  BY <1>1, <1>2, <1>3, <1>4, <1>5

(* Its row is written first.                                                *)
LEMMA TWriteSuper ==
  ASSUME TInv, T!WriteSuper PROVE TInv'
<1> USE DEF TInv, T!WriteSuper
<1>1. T!TypeOK'
  <2>1. srAt' \in T!Points /\ TSchemaTyped' /\ TAccountsTyped' /\ TEndsTyped'
    BY TTyped, TSame DEF T!Points
  <2>2. srRows' \in T!Settings
    BY TTyped DEF TOthersTyped, TAccountsTyped, TEndsTyped, T!Settings, TMemories, TTasks, T!Fundings, T!Tokens, T!Ids, T!None, T!Absent
  <2>3. TOthersTyped'
    BY <2>1, <2>2, TTyped DEF TOthersTyped
  <2> QED
    BY <2>1, <2>2, <2>3, TTyped
<1>2. TSchema'
  BY DEF T!schemaVars, T!accountVars, T!endVars, T!TypeOK, TSchema, TPath, TWhole
<1>3. TPath'
  BY DEF T!schemaVars, T!accountVars, T!endVars, T!TypeOK, T!Points, T!Settings, T!Fundings, T!Tokens, T!Ids, T!None, T!Absent, TPath, TRenews, TWhole
<1>4. TWhole'
  BY DEF T!schemaVars, T!accountVars, T!endVars, T!TypeOK, T!Points, T!Settings, T!Fundings, T!Tokens, T!Ids, T!None, T!Absent, TPath, TRenews, TWhole
<1>5. TOwner'
  BY DEF T!schemaVars, T!accountVars, T!endVars, T!TypeOK, T!Points, T!Settings, T!Fundings, T!Tokens, T!Ids, T!None, T!Absent, TPath, TRenews, TWhole, TOwner
<1> QED
  BY <1>1, <1>2, <1>3, <1>4, <1>5

(* The other settings follow.                                               *)
LEMMA TWriteFunding ==
  ASSUME TInv, T!WriteFunding PROVE TInv'
<1> USE DEF TInv, T!WriteFunding
<1>1. T!TypeOK'
  <2>1. srAt' \in T!Points /\ TSchemaTyped' /\ TAccountsTyped' /\ TEndsTyped'
    BY TTyped, TSame DEF T!Points
  <2>2. srRows' \in T!Settings
    BY TTyped DEF TOthersTyped, TAccountsTyped, TEndsTyped, T!Settings, TMemories, TTasks, T!Fundings, T!Tokens, T!Ids, T!None, T!Absent
  <2>3. TOthersTyped'
    BY <2>1, <2>2, TTyped DEF TOthersTyped
  <2> QED
    BY <2>1, <2>2, <2>3, TTyped
<1>2. TSchema'
  BY DEF T!schemaVars, T!accountVars, T!endVars, T!TypeOK, TSchema, TPath, TWhole
<1>3. TPath'
  BY DEF T!schemaVars, T!accountVars, T!endVars, T!TypeOK, T!Points, T!Settings, T!Fundings, T!Tokens, T!Ids, T!None, T!Absent, TPath, TRenews, TWhole
<1>4. TWhole'
  BY DEF T!schemaVars, T!accountVars, T!endVars, T!TypeOK, T!Points, T!Settings, T!Fundings, T!Tokens, T!Ids, T!None, T!Absent, TPath, TRenews, TWhole
<1>5. TOwner'
  BY DEF T!schemaVars, T!accountVars, T!endVars, T!TypeOK, T!Points, T!Settings, T!Fundings, T!Tokens, T!Ids, T!None, T!Absent, TPath, TRenews, TWhole, TOwner
<1> QED
  BY <1>1, <1>2, <1>3, <1>4, <1>5

(* The last of them.                                                        *)
LEMMA TWriteToken ==
  ASSUME TInv, T!WriteToken PROVE TInv'
<1> USE DEF TInv, T!WriteToken
<1>1. T!TypeOK'
  <2>1. srAt' \in T!Points /\ TSchemaTyped' /\ TAccountsTyped' /\ TEndsTyped'
    BY TTyped, TSame DEF T!Points
  <2>2. srRows' \in T!Settings
    BY TTyped DEF TOthersTyped, TAccountsTyped, TEndsTyped, T!Settings, TMemories, TTasks, T!Fundings, T!Tokens, T!Ids, T!None, T!Absent
  <2>3. srMemory' \in TMemories
    BY TTyped DEF TOthersTyped, TAccountsTyped, TEndsTyped, T!Settings, TMemories, TTasks, T!Fundings, T!Tokens, T!Ids, T!None, T!Absent
  <2>4. TOthersTyped'
    BY <2>1, <2>2, <2>3, TTyped DEF TOthersTyped
  <2> QED
    BY <2>1, <2>2, <2>3, <2>4, TTyped
<1>2. TSchema'
  BY DEF T!schemaVars, T!accountVars, T!endVars, T!TypeOK, TSchema, TPath, TWhole
<1>3. TPath'
  BY DEF T!schemaVars, T!accountVars, T!endVars, T!TypeOK, T!Points, T!Settings, T!Fundings, T!Tokens, T!Ids, T!None, T!Absent, TPath, TRenews, TWhole
<1>4. TWhole'
  BY DEF T!schemaVars, T!accountVars, T!endVars, T!TypeOK, T!Points, T!Settings, T!Fundings, T!Tokens, T!Ids, T!None, T!Absent, TPath, TRenews, TWhole
<1>5. TOwner'
  BY DEF T!schemaVars, T!accountVars, T!endVars, T!TypeOK, T!Points, T!Settings, T!Fundings, T!Tokens, T!Ids, T!None, T!Absent, TPath, TRenews, TWhole, TOwner
<1> QED
  BY <1>1, <1>2, <1>3, <1>4, <1>5

(* The rows are loaded, and a new token asks for another superuser.         *)
LEMMA TCache ==
  ASSUME TInv, T!Cache PROVE TInv'
<1> USE DEF TInv, T!Cache, T!Loaded, T!Renews, T!Value
<1>1. T!TypeOK'
  <2>1. srAt' \in T!Points /\ TSchemaTyped' /\ TEndsTyped'
    BY TTyped, TSame DEF T!Points
  <2>2. TAccountsTyped'
    BY TTyped, TConstants DEF TAccountsTyped, TOthersTyped, T!Settings, TMemories, TTasks, T!Fundings, T!Tokens, T!Ids, T!None, T!Absent, T!StartConstants, TPath
  <2>3. srMemory' \in TMemories
    BY TTyped DEF TOthersTyped, TAccountsTyped, TEndsTyped, T!Settings, TMemories, TTasks, T!Fundings, T!Tokens, T!Ids, T!None, T!Absent
  <2>4. srOwner' \in T!Ids \union {T!None}
    BY TTyped DEF TOthersTyped, TAccountsTyped, TEndsTyped, T!Settings, TMemories, TTasks, T!Fundings, T!Tokens, T!Ids, T!None, T!Absent
  <2>5. TOthersTyped'
    BY <2>1, <2>2, <2>3, <2>4, TTyped DEF TOthersTyped
  <2> QED
    BY <2>1, <2>2, <2>3, <2>4, <2>5, TTyped
<1>2. TSchema'
  BY DEF T!schemaVars, T!accountVars, T!endVars, T!TypeOK, TSchema, TPath, TWhole
<1>3. TPath'
  BY DEF T!schemaVars, T!accountVars, T!endVars, T!TypeOK, T!Points, T!Settings, T!Fundings, T!Tokens, T!Ids, T!None, T!Absent, TPath, TRenews, TWhole
<1>4. TWhole'
  BY DEF T!schemaVars, T!accountVars, T!endVars, T!TypeOK, T!Points, T!Settings, T!Fundings, T!Tokens, T!Ids, T!None, T!Absent, TPath, TRenews, TWhole
<1>5. TOwner'
  BY DEF T!schemaVars, T!accountVars, T!endVars, T!TypeOK, T!Points, T!Settings, T!Fundings, T!Tokens, T!Ids, T!None, T!Absent, TPath, TRenews, TWhole, TOwner
<1> QED
  BY <1>1, <1>2, <1>3, <1>4, <1>5

(* The superuser takes a password.                                          *)
LEMMA TClaim ==
  ASSUME TInv, T!Claim PROVE TInv'
<1> USE DEF TInv, T!Claim, T!NoTask
<1>1. T!TypeOK'
  <2>1. srAt' \in T!Points /\ TSchemaTyped' /\ TEndsTyped'
    BY TTyped, TSame DEF T!Points
  <2>2. TAccountsTyped'
    BY TTyped, TConstants DEF TAccountsTyped, TOthersTyped, T!Settings, TMemories, TTasks, T!Fundings, T!Tokens, T!Ids, T!None, T!Absent, T!StartConstants, TPath
  <2>3. srMemory' \in TMemories
    BY TTyped DEF TOthersTyped, TAccountsTyped, TEndsTyped, T!Settings, TMemories, TTasks, T!Fundings, T!Tokens, T!Ids, T!None, T!Absent
  <2>4. srTask' \in TTasks
    BY TTyped DEF TOthersTyped, TAccountsTyped, TEndsTyped, T!Settings, TMemories, TTasks, T!Fundings, T!Tokens, T!Ids, T!None, T!Absent
  <2>5. srOwner' \in T!Ids \union {T!None}
    BY TTyped DEF TOthersTyped, TAccountsTyped, TEndsTyped, T!Settings, TMemories, TTasks, T!Fundings, T!Tokens, T!Ids, T!None, T!Absent
  <2>6. TOthersTyped'
    BY <2>1, <2>2, <2>3, <2>4, <2>5, TTyped DEF TOthersTyped
  <2> QED
    BY <2>1, <2>2, <2>3, <2>4, <2>5, <2>6, TTyped
<1>6. srMemory'.super = srMemory.super
  BY TTyped DEF TOthersTyped, TMemories
<1>2. TSchema'
  BY <1>6 DEF T!schemaVars, T!accountVars, T!endVars, T!TypeOK, TSchema, TPath, TWhole
<1>3. TPath'
  BY <1>6 DEF T!schemaVars, T!accountVars, T!endVars, T!TypeOK, T!Points, T!Settings, T!Fundings, T!Tokens, T!Ids, T!None, T!Absent, TPath, TRenews, TWhole
<1>4. TWhole'
  BY <1>6 DEF T!schemaVars, T!accountVars, T!endVars, T!TypeOK, T!Points, T!Settings, T!Fundings, T!Tokens, T!Ids, T!None, T!Absent, TPath, TRenews, TWhole
<1>5. TOwner'
  BY <1>6 DEF T!schemaVars, T!accountVars, T!endVars, T!TypeOK, T!Points, T!Settings, T!Fundings, T!Tokens, T!Ids, T!None, T!Absent, TPath, TRenews, TWhole, TOwner
<1> QED
  BY <1>1, <1>2, <1>3, <1>4, <1>5

(* The token is confirmed.                                                  *)
LEMMA TConfirm ==
  ASSUME TInv, T!Confirm PROVE TInv'
<1> USE DEF TInv, T!Confirm, T!NoTask
<1>1. T!TypeOK'
  <2>1. srAt' \in T!Points /\ TSchemaTyped' /\ TAccountsTyped' /\ TEndsTyped'
    BY TTyped, TSame DEF T!Points
  <2>2. srRows' \in T!Settings
    BY TTyped DEF TOthersTyped, TAccountsTyped, TEndsTyped, T!Settings, TMemories, TTasks, T!Fundings, T!Tokens, T!Ids, T!None, T!Absent
  <2>3. srTask' \in TTasks
    BY TTyped DEF TOthersTyped, TAccountsTyped, TEndsTyped, T!Settings, TMemories, TTasks, T!Fundings, T!Tokens, T!Ids, T!None, T!Absent
  <2>4. srOwner' \in T!Ids \union {T!None}
    BY TTyped DEF TOthersTyped, TAccountsTyped, TEndsTyped, T!Settings, TMemories, TTasks, T!Fundings, T!Tokens, T!Ids, T!None, T!Absent
  <2>5. TOthersTyped'
    BY <2>1, <2>2, <2>3, <2>4, TTyped DEF TOthersTyped
  <2> QED
    BY <2>1, <2>2, <2>3, <2>4, <2>5, TTyped
<1>2. TSchema'
  BY DEF T!schemaVars, T!accountVars, T!endVars, T!TypeOK, TSchema, TPath, TWhole
<1>3. TPath'
  BY DEF T!schemaVars, T!accountVars, T!endVars, T!TypeOK, T!Points, T!Settings, T!Fundings, T!Tokens, T!Ids, T!None, T!Absent, TPath, TRenews, TWhole
<1>4. TWhole'
  BY DEF T!schemaVars, T!accountVars, T!endVars, T!TypeOK, T!Points, T!Settings, T!Fundings, T!Tokens, T!Ids, T!None, T!Absent, TPath, TRenews, TWhole
<1>5. TOwner'
  BY DEF T!schemaVars, T!accountVars, T!endVars, T!TypeOK, T!Points, T!Settings, T!Fundings, T!Tokens, T!Ids, T!None, T!Absent, TPath, TRenews, TWhole, TOwner
<1> QED
  BY <1>1, <1>2, <1>3, <1>4, <1>5

(* An edit writes what it has read.                                         *)
LEMMA TEditWrites ==
  ASSUME TInv, T!EditWrites PROVE TInv'
<1> USE DEF TInv, T!EditWrites, T!Value
<1>1. T!TypeOK'
  <2>1. srAt' \in T!Points /\ TSchemaTyped' /\ TAccountsTyped' /\ TEndsTyped'
    BY TTyped, TSame DEF T!Points
  <2>2. srRows' \in T!Settings
    BY TTyped DEF TOthersTyped, TAccountsTyped, TEndsTyped, T!Settings, TMemories, TTasks, T!Fundings, T!Tokens, T!Ids, T!None, T!Absent
  <2>3. srTask' \in TTasks
    BY TTyped DEF TOthersTyped, TAccountsTyped, TEndsTyped, T!Settings, TMemories, TTasks, T!Fundings, T!Tokens, T!Ids, T!None, T!Absent
  <2>4. TOthersTyped'
    BY <2>1, <2>2, <2>3, TTyped DEF TOthersTyped
  <2> QED
    BY <2>1, <2>2, <2>3, <2>4, TTyped
<1>6. /\ srRows'.super = srRows.super /\ srRows'.funding = srTask.funding
      /\ srTask'.at = "load" /\ srTask'.super = srTask.super /\ srTask'.funding = srTask.funding
  BY TTyped DEF TOthersTyped, TTasks, T!Settings
<1>2. TSchema'
  BY <1>6 DEF T!schemaVars, T!accountVars, T!endVars, T!TypeOK, TSchema, TPath, TWhole
<1>3. TPath'
  BY <1>6 DEF T!schemaVars, T!accountVars, T!endVars, T!TypeOK, T!Points, T!Settings, T!Fundings, T!Tokens, T!Ids, T!None, T!Absent, TPath, TRenews, TWhole
<1>4. TWhole'
  BY <1>6 DEF T!schemaVars, T!accountVars, T!endVars, T!TypeOK, T!Points, T!Settings, T!Fundings, T!Tokens, T!Ids, T!None, T!Absent, TPath, TRenews, TWhole
<1>5. TOwner'
  BY <1>6 DEF T!schemaVars, T!accountVars, T!endVars, T!TypeOK, T!Points, T!Settings, T!Fundings, T!Tokens, T!Ids, T!None, T!Absent, TPath, TRenews, TWhole, TOwner
<1> QED
  BY <1>1, <1>2, <1>3, <1>4, <1>5

(* What was written is loaded.                                              *)
LEMMA TEditLoads ==
  ASSUME TInv, T!EditLoads PROVE TInv'
<1> USE DEF TInv, T!EditLoads, T!Loaded, T!Value, T!Broken, T!Data, T!NoTask
<1>1. T!TypeOK'
  <2>1. srAt' \in T!Points /\ TSchemaTyped' /\ TAccountsTyped' /\ TEndsTyped'
    BY TTyped, TSame DEF T!Points
  <2>2. srMemory' \in TMemories
    BY TTyped DEF TOthersTyped, TAccountsTyped, TEndsTyped, T!Settings, TMemories, TTasks, T!Fundings, T!Tokens, T!Ids, T!None, T!Absent
  <2>3. srTask' \in TTasks
    BY TTyped DEF TOthersTyped, TAccountsTyped, TEndsTyped, T!Settings, TMemories, TTasks, T!Fundings, T!Tokens, T!Ids, T!None, T!Absent
  <2>4. TOthersTyped'
    BY <2>1, <2>2, <2>3, TTyped DEF TOthersTyped
  <2> QED
    BY <2>1, <2>2, <2>3, <2>4, TTyped
<1>2. TSchema'
  BY DEF T!schemaVars, T!accountVars, T!endVars, T!TypeOK, TSchema, TPath, TWhole
<1>3. TPath'
  BY DEF T!schemaVars, T!accountVars, T!endVars, T!TypeOK, T!Points, T!Settings, T!Fundings, T!Tokens, T!Ids, T!None, T!Absent, TPath, TRenews, TWhole
<1>4. TWhole'
  BY DEF T!schemaVars, T!accountVars, T!endVars, T!TypeOK, T!Points, T!Settings, T!Fundings, T!Tokens, T!Ids, T!None, T!Absent, TPath, TRenews, TWhole
<1>5. TOwner'
  BY DEF T!schemaVars, T!accountVars, T!endVars, T!TypeOK, T!Points, T!Settings, T!Fundings, T!Tokens, T!Ids, T!None, T!Absent, TPath, TRenews, TWhole, TOwner
<1> QED
  BY <1>1, <1>2, <1>3, <1>4, <1>5

(* A reset reads what it keeps.                                             *)
LEMMA TResetReads ==
  ASSUME TInv, T!ResetReads PROVE TInv'
<1> USE DEF TInv, T!ResetReads, T!Broken, T!Data, T!NoTask
<1>1. T!TypeOK'
  <2>1. srAt' \in T!Points /\ TSchemaTyped' /\ TAccountsTyped' /\ TEndsTyped'
    BY TTyped, TSame DEF T!Points
  <2>2. srTask' \in TTasks
    BY TTyped DEF TOthersTyped, TAccountsTyped, TEndsTyped, T!Settings, TMemories, TTasks, T!Fundings, T!Tokens, T!Ids, T!None, T!Absent
  <2>3. TOthersTyped'
    BY <2>1, <2>2, TTyped DEF TOthersTyped
  <2> QED
    BY <2>1, <2>2, <2>3, TTyped
<1>2. TSchema'
  BY DEF T!schemaVars, T!accountVars, T!endVars, T!TypeOK, TSchema, TPath, TWhole
<1>3. TPath'
  BY DEF T!schemaVars, T!accountVars, T!endVars, T!TypeOK, T!Points, T!Settings, T!Fundings, T!Tokens, T!Ids, T!None, T!Absent, TPath, TRenews, TWhole
<1>4. TWhole'
  BY DEF T!schemaVars, T!accountVars, T!endVars, T!TypeOK, T!Points, T!Settings, T!Fundings, T!Tokens, T!Ids, T!None, T!Absent, TPath, TRenews, TWhole
<1>5. TOwner'
  BY DEF T!schemaVars, T!accountVars, T!endVars, T!TypeOK, T!Points, T!Settings, T!Fundings, T!Tokens, T!Ids, T!None, T!Absent, TPath, TRenews, TWhole, TOwner
<1> QED
  BY <1>1, <1>2, <1>3, <1>4, <1>5

(* It deletes all the rows.                                                 *)
LEMMA TResetDeletes ==
  ASSUME TInv, T!ResetDeletes PROVE TInv'
<1> USE DEF TInv, T!ResetDeletes, T!Empty
<1>1. T!TypeOK'
  <2>1. srAt' \in T!Points /\ TSchemaTyped' /\ TAccountsTyped' /\ TEndsTyped'
    BY TTyped, TSame DEF T!Points
  <2>2. srRows' \in T!Settings
    BY TTyped DEF TOthersTyped, TAccountsTyped, TEndsTyped, T!Settings, TMemories, TTasks, T!Fundings, T!Tokens, T!Ids, T!None, T!Absent
  <2>3. srTask' \in TTasks
    BY TTyped DEF TOthersTyped, TAccountsTyped, TEndsTyped, T!Settings, TMemories, TTasks, T!Fundings, T!Tokens, T!Ids, T!None, T!Absent
  <2>4. TOthersTyped'
    BY <2>1, <2>2, <2>3, TTyped DEF TOthersTyped
  <2> QED
    BY <2>1, <2>2, <2>3, <2>4, TTyped
<1>2. TSchema'
  BY DEF T!schemaVars, T!accountVars, T!endVars, T!TypeOK, TSchema, TPath, TWhole
<1>3. TPath'
  BY DEF T!schemaVars, T!accountVars, T!endVars, T!TypeOK, T!Points, T!Settings, T!Fundings, T!Tokens, T!Ids, T!None, T!Absent, TPath, TRenews, TWhole
<1>4. TWhole'
  BY DEF T!schemaVars, T!accountVars, T!endVars, T!TypeOK, T!Points, T!Settings, T!Fundings, T!Tokens, T!Ids, T!None, T!Absent, TPath, TRenews, TWhole
<1>5. TOwner'
  BY DEF T!schemaVars, T!accountVars, T!endVars, T!TypeOK, T!Points, T!Settings, T!Fundings, T!Tokens, T!Ids, T!None, T!Absent, TPath, TRenews, TWhole, TOwner
<1> QED
  BY <1>1, <1>2, <1>3, <1>4, <1>5

(* The superuser's row is written again.                                    *)
LEMMA TResetSuper ==
  ASSUME TInv, T!ResetSuper PROVE TInv'
<1> USE DEF TInv, T!ResetSuper
<1>1. T!TypeOK'
  <2>1. srAt' \in T!Points /\ TSchemaTyped' /\ TAccountsTyped' /\ TEndsTyped'
    BY TTyped, TSame DEF T!Points
  <2>2. srRows' \in T!Settings
    BY TTyped DEF TOthersTyped, TAccountsTyped, TEndsTyped, T!Settings, TMemories, TTasks, T!Fundings, T!Tokens, T!Ids, T!None, T!Absent
  <2>3. srTask' \in TTasks
    BY TTyped DEF TOthersTyped, TAccountsTyped, TEndsTyped, T!Settings, TMemories, TTasks, T!Fundings, T!Tokens, T!Ids, T!None, T!Absent
  <2>4. TOthersTyped'
    BY <2>1, <2>2, <2>3, TTyped DEF TOthersTyped
  <2> QED
    BY <2>1, <2>2, <2>3, <2>4, TTyped
<1>2. TSchema'
  BY DEF T!schemaVars, T!accountVars, T!endVars, T!TypeOK, TSchema, TPath, TWhole
<1>3. TPath'
  BY DEF T!schemaVars, T!accountVars, T!endVars, T!TypeOK, T!Points, T!Settings, T!Fundings, T!Tokens, T!Ids, T!None, T!Absent, TPath, TRenews, TWhole
<1>4. TWhole'
  BY DEF T!schemaVars, T!accountVars, T!endVars, T!TypeOK, T!Points, T!Settings, T!Fundings, T!Tokens, T!Ids, T!None, T!Absent, TPath, TRenews, TWhole
<1>5. TOwner'
  BY DEF T!schemaVars, T!accountVars, T!endVars, T!TypeOK, T!Points, T!Settings, T!Fundings, T!Tokens, T!Ids, T!None, T!Absent, TPath, TRenews, TWhole, TOwner
<1> QED
  BY <1>1, <1>2, <1>3, <1>4, <1>5

(* And what a reset keeps.                                                  *)
LEMMA TResetFunding ==
  ASSUME TInv, T!ResetFunding PROVE TInv'
<1> USE DEF TInv, T!ResetFunding, T!NoTask
<1>1. T!TypeOK'
  <2>1. srAt' \in T!Points /\ TSchemaTyped' /\ TAccountsTyped' /\ TEndsTyped'
    BY TTyped, TSame DEF T!Points
  <2>2. srRows' \in T!Settings
    BY TTyped DEF TOthersTyped, TAccountsTyped, TEndsTyped, T!Settings, TMemories, TTasks, T!Fundings, T!Tokens, T!Ids, T!None, T!Absent
  <2>3. srTask' \in TTasks
    BY TTyped DEF TOthersTyped, TAccountsTyped, TEndsTyped, T!Settings, TMemories, TTasks, T!Fundings, T!Tokens, T!Ids, T!None, T!Absent
  <2>4. TOthersTyped'
    BY <2>1, <2>2, <2>3, TTyped DEF TOthersTyped
  <2> QED
    BY <2>1, <2>2, <2>3, <2>4, TTyped
<1>2. TSchema'
  BY DEF T!schemaVars, T!accountVars, T!endVars, T!TypeOK, TSchema, TPath, TWhole
<1>3. TPath'
  BY DEF T!schemaVars, T!accountVars, T!endVars, T!TypeOK, T!Points, T!Settings, T!Fundings, T!Tokens, T!Ids, T!None, T!Absent, TPath, TRenews, TWhole
<1>4. TWhole'
  BY DEF T!schemaVars, T!accountVars, T!endVars, T!TypeOK, T!Points, T!Settings, T!Fundings, T!Tokens, T!Ids, T!None, T!Absent, TPath, TRenews, TWhole
<1>5. TOwner'
  BY DEF T!schemaVars, T!accountVars, T!endVars, T!TypeOK, T!Points, T!Settings, T!Fundings, T!Tokens, T!Ids, T!None, T!Absent, TPath, TRenews, TWhole, TOwner
<1> QED
  BY <1>1, <1>2, <1>3, <1>4, <1>5

(* The rows are deleted behind the server.                                  *)
LEMMA TWipe ==
  ASSUME TInv, T!Wipe PROVE TInv'
<1> USE DEF TInv, T!Wipe, T!Empty, T!Data
<1>1. T!TypeOK'
  <2>1. srAt' \in T!Points /\ TSchemaTyped' /\ TAccountsTyped'
    BY TTyped, TSame DEF T!Points
  <2>2. TEndsTyped'
    BY TTyped, TConstants DEF TEndsTyped, TOthersTyped, T!Settings, TMemories, TTasks, T!Fundings, T!Tokens, T!Ids, T!None, T!Absent, T!StartConstants, TPath
  <2>3. srRows' \in T!Settings
    BY TTyped DEF TOthersTyped, TAccountsTyped, TEndsTyped, T!Settings, TMemories, TTasks, T!Fundings, T!Tokens, T!Ids, T!None, T!Absent
  <2>4. srOwner' \in T!Ids \union {T!None}
    BY TTyped DEF TOthersTyped, TAccountsTyped, TEndsTyped, T!Settings, TMemories, TTasks, T!Fundings, T!Tokens, T!Ids, T!None, T!Absent
  <2>5. TOthersTyped'
    BY <2>1, <2>2, <2>3, <2>4, TTyped DEF TOthersTyped
  <2> QED
    BY <2>1, <2>2, <2>3, <2>4, <2>5, TTyped
<1>2. TSchema'
  BY DEF T!schemaVars, T!accountVars, T!endVars, T!TypeOK, TSchema, TPath, TWhole
<1>3. TPath'
  BY DEF T!schemaVars, T!accountVars, T!endVars, T!TypeOK, T!Points, T!Settings, T!Fundings, T!Tokens, T!Ids, T!None, T!Absent, TPath, TRenews, TWhole
<1>4. TWhole'
  BY DEF T!schemaVars, T!accountVars, T!endVars, T!TypeOK, T!Points, T!Settings, T!Fundings, T!Tokens, T!Ids, T!None, T!Absent, TPath, TRenews, TWhole
<1>5. TOwner'
  BY DEF T!schemaVars, T!accountVars, T!endVars, T!TypeOK, T!Points, T!Settings, T!Fundings, T!Tokens, T!Ids, T!None, T!Absent, TPath, TRenews, TWhole, TOwner
<1> QED
  BY <1>1, <1>2, <1>3, <1>4, <1>5

(* The server is stopped.                                                   *)
LEMMA TStop ==
  ASSUME TInv, T!Stop PROVE TInv'
<1> USE DEF TInv, T!Stop, T!Resetting, T!NoTask
<1>1. T!TypeOK'
  <2>1. srAt' \in T!Points /\ TAccountsTyped'
    BY TTyped, TSame DEF T!Points
  <2>2. TSchemaTyped'
    BY TTyped, TConstants DEF TSchemaTyped, TOthersTyped, T!Settings, TMemories, TTasks, T!Fundings, T!Tokens, T!Ids, T!None, T!Absent, T!StartConstants, TPath
  <2>3. TEndsTyped'
    <3>1. srStops \in 0..MaxStops /\ MaxStops \in Nat /\ srEnv' = srEnv
      BY TTyped, TConstants DEF TEndsTyped, T!StartConstants
    <3>2. srStops' \in 0..MaxStops
      BY <3>1
    <3>3. srWiped' \in BOOLEAN
      BY TTyped DEF TEndsTyped
    <3> QED
      BY <3>1, <3>2, <3>3, TTyped DEF TEndsTyped
  <2>4. srTask' \in TTasks
    BY TTyped DEF TOthersTyped, TAccountsTyped, TEndsTyped, T!Settings, TMemories, TTasks, T!Fundings, T!Tokens, T!Ids, T!None, T!Absent
  <2>5. srOwner' \in T!Ids \union {T!None}
    BY TTyped DEF TOthersTyped, TAccountsTyped, TEndsTyped, T!Settings, TMemories, TTasks, T!Fundings, T!Tokens, T!Ids, T!None, T!Absent
  <2>6. TOthersTyped'
    BY <2>1, <2>2, <2>3, <2>4, <2>5, TTyped DEF TOthersTyped
  <2> QED
    BY <2>1, <2>2, <2>3, <2>4, <2>5, <2>6, TTyped
<1>2. TSchema'
  <2>1. srAt' = "off" /\ srVersion' = srVersion /\ srApplied' = srApplied /\ srMissing' = srMissing
    BY DEF T!schemaVars
  <2>2. srApplied # 0 => srApplied > 0
    BY TTyped DEF TSchemaTyped
  <2>3. srApplied > 0 \/ srCut => srCut'
    OBVIOUS
  <2> QED
    BY <2>1, <2>2, <2>3 DEF TSchema
<1>3. TPath'
  BY DEF T!schemaVars, T!accountVars, T!endVars, T!TypeOK, T!Points, T!Settings, T!Fundings, T!Tokens, T!Ids, T!None, T!Absent, TPath, TRenews, TWhole
<1>4. TWhole'
  BY DEF T!schemaVars, T!accountVars, T!endVars, T!TypeOK, T!Points, T!Settings, T!Fundings, T!Tokens, T!Ids, T!None, T!Absent, TPath, TRenews, TWhole
<1>5. TOwner'
  BY DEF T!schemaVars, T!accountVars, T!endVars, T!TypeOK, T!Points, T!Settings, T!Fundings, T!Tokens, T!Ids, T!None, T!Absent, TPath, TRenews, TWhole, TOwner
<1> QED
  BY <1>1, <1>2, <1>3, <1>4, <1>5

(* An edit reads the rows.                                                   *)
LEMMA TEditReads ==
  ASSUME TInv, NEW funding \in T!Fundings, T!EditReads(funding) PROVE TInv'
<1> USE DEF TInv, T!EditReads, T!NoTask
<1>1. T!TypeOK'
  <2>1. srAt' \in T!Points /\ TSchemaTyped' /\ TAccountsTyped' /\ TEndsTyped'
    BY TTyped, TSame DEF T!Points
  <2>2. \A token \in {srRows.token, srMemory.token} :
          [at |-> "edit", super |-> T!None, funding |-> funding, token |-> token] \in TTasks
    BY TTyped DEF TOthersTyped, TTasks, T!Settings, TMemories
  <2>3. srTask' \in TTasks
    BY <2>2
  <2>4. TOthersTyped'
    BY <2>3, TTyped DEF TOthersTyped
  <2> QED
    BY <2>1, <2>4, TTyped
<1>6. srTask'.at = "edit" /\ srTask'.funding = funding
  OBVIOUS
<1> HIDE DEF T!EditReads
<1>7. srAt = "on" /\ srTask.at = "idle"
      /\ UNCHANGED <<T!schemaVars, T!accountVars, T!endVars, srAt, srRows, srMemory, srOwner>>
  BY DEF T!EditReads
<1>2. TSchema'
  BY <1>7 DEF T!schemaVars, T!accountVars, T!endVars, TSchema
<1>3. TPath'
  BY <1>6, <1>7 DEF T!schemaVars, T!accountVars, T!endVars, TPath, TRenews, T!Fundings, T!Absent
<1>4. TWhole' /\ TOwner'
  BY <1>6, <1>7 DEF T!schemaVars, T!accountVars, T!endVars, TWhole, TOwner, TRenews
<1> QED
  BY <1>1, <1>2, <1>3, <1>4

(* The operator changes the environment.                                     *)
LEMMA TSetEnv ==
  ASSUME TInv, NEW super \in T!Ids \union {T!None}, NEW token \in T!Tokens, T!SetEnv(super, token) PROVE TInv'
<1> USE DEF TInv, T!SetEnv
<1>1. T!TypeOK'
  <2>1. TEndsTyped'
    BY TTyped DEF TEndsTyped
  <2>2. srAt' \in T!Points /\ TSchemaTyped' /\ TAccountsTyped' /\ TOthersTyped'
    BY TTyped, TSame DEF T!Points, TOthersTyped
  <2> QED
    BY <2>1, <2>2, TTyped
<1>2. TSchema' /\ TPath' /\ TWhole' /\ TOwner'
  BY DEF T!schemaVars, T!accountVars, TSchema, TPath, TWhole, TOwner, TRenews
<1> QED
  BY <1>1, <1>2

(* The start of the server, for any number of superusers and stops           *)
(* (core/helpers.py, core/migrations.py, services/users.py, crud/settings.py). *)
THEOREM TInvHolds == T!Spec => []TInv
<1>1. T!Init => TInv
  <2> SUFFICES ASSUME T!Init PROVE TInv
    OBVIOUS
  <2>1. /\ srAt \in T!Points /\ srVersion \in 0..T!Last /\ srApplied \in 0..7
        /\ srMissing \subseteq 1..T!Last /\ srClaimed \subseteq T!Ids
    BY TMigrations DEF T!Init, T!Points
  <2>4. /\ srMade \in 0..MaxAccounts /\ srStops \in 0..MaxStops
        /\ srNew \in T!Ids \union {T!None} /\ srFile \in T!Ids \union {T!None} /\ srOwner \in T!Ids \union {T!None}
    BY TConstants DEF T!Init, T!None, T!StartConstants
  <2>5. srCut \in BOOLEAN /\ srWiped \in BOOLEAN /\ srRenewed \in BOOLEAN
    BY DEF T!Init
  <2>6. /\ srEnv \in [super : T!Ids \union {T!None}, token : T!Tokens]
        /\ srRows \in T!Settings /\ srMemory \in TMemories /\ srTask \in TTasks
    BY DEF T!Init, T!Empty, T!NoTask, T!Settings, TMemories, TTasks, T!Tokens, T!Fundings, T!None, T!Absent
  <2>2. T!TypeOK
    BY <2>1, <2>4, <2>5, <2>6 DEF T!TypeOK, TMemories, TTasks
  <2>3. TSchema /\ TPath /\ TWhole /\ TOwner
    BY DEF T!Init, T!Empty, T!NoTask, TSchema, TPath, TWhole, TOwner, TRenews, T!None, T!Absent
  <2> QED
    BY <2>2, <2>3 DEF TInv
<1>2. ASSUME TInv, [T!Next]_(T!vars) PROVE TInv'
  <2>1. CASE UNCHANGED T!vars
    <3>1. T!TypeOK'
      BY <1>2, <2>1, TTyped, TSame DEF T!vars, TInv, T!schemaVars, T!accountVars, T!endVars, TOthersTyped
    <3>2. TSchema' /\ TPath'
      BY <1>2, <2>1 DEF T!vars, TInv, TSchema, TPath
    <3>3. TWhole' /\ TOwner'
      BY <1>2, <2>1 DEF T!vars, TInv, TWhole, TOwner
    <3> QED
      BY <3>1, <3>2, <3>3 DEF TInv
  <2>2. CASE T!Next
    BY <1>2, <2>2, TStarts, TCheckSettings, TMakeAccount, TWriteSuper, TWriteFunding, TWriteToken, TCache,
       TClaim, TConfirm, TEditReads, TEditWrites, TEditLoads, TResetReads, TResetDeletes, TResetSuper,
       TResetFunding, TWipe, TStop, TSetEnv DEF T!Next
  <2> QED
    BY <1>2, <2>1, <2>2
<1> QED
  BY <1>1, <1>2, PTL DEF T!Spec

(* A server that runs has the whole schema and one that ran starts again,     *)
(* unless it was cut; its superuser stays, whatever is edited or reset; and    *)
(* .super_user names him (core/helpers.py 46-130, services/users.py 159-215).  *)
THEOREM ServersStart ==
  T!Spec => [](T!SchemaIsWhole /\ T!StartsAgain /\ T!OwnerStays /\ T!FileNamesSuper)
<1>1. TInv => T!SchemaIsWhole /\ T!StartsAgain /\ T!OwnerStays /\ T!FileNamesSuper
  BY DEF TInv, TSchema, TPath, TOwner, T!SchemaIsWhole, T!StartsAgain, T!OwnerStays, T!FileNamesSuper
<1> QED
  BY <1>1, TInvHolds, PTL

-----------------------------------------------------------------------------
(* Python extensions.  An extension that its row calls active is answered when *)
(* the server runs again, by code that has had its migrations: what is done at *)
(* a start and what at a request, and for which release.                       *)
XRunning == {"idle", "fetch", "import", "run", "save", "row", "activate", "on", "off", "delete"}
XStarting == {"import", "run", "save", "check", "rerun", "resave", "off", "register"}
XStagesOK ==
    /\ exOp.at \in IF exOp.boot THEN XStarting ELSE XRunning
    /\ exOp.at = "idle" => exOp = X!Idle
    /\ ~exOp.boot /\ exOp.at \in {"fetch", "import", "run", "save", "row"} => exOp.to \in X!Releases
    /\ exOp.at \in {"activate", "on"} => exRow # X!None
    /\ ~exOp.boot /\ exOp.at = "import" => exFiles # 0
    /\ exOp.boot /\ exOp.at \in {"import", "run", "save"} => exRow # X!None
    /\ exRow # X!None => exRow.version \in X!Releases

(* A migration is run before its version is written, so that the version may *)
(* be one behind; what is run are the migrations of the directory, or that   *)
(* they are not is on record.                                                *)
XMigrationsOK ==
    /\ exVersion <= exSchema
    /\ exOp.at \in {"run", "save", "rerun", "resave"} => exOp.next = exVersion + 1
    /\ exOp.at \in {"save", "resave"} => exOp.next <= exSchema /\ exOp.next <= exCached
    /\ exOp.at \in {"run", "save"} => exCached = exFiles \/ exFailed
    /\ exOp.at \in {"rerun", "resave"} => exCached = exFiles /\ exServed = exFiles

(* The code that answers, and that of the directory, is migrated: but for    *)
(* what is being restored, migrated, or has just been found by a start.      *)
XCodeOK ==
    /\ exOp.at \in {"rerun", "resave"} \/ exServed <= exSchema \/ exFailed
    /\ \/ exFiles <= exSchema \/ exFailed
       \/ exOp.at \in {"import", "run", "save", "rerun", "resave"}
       \/ exOp.at = "check" /\ exRow = X!None

(* The row and the set of what is deactivated agree, a start aside that has  *)
(* yet to write the row.                                                     *)
XActiveOK ==
    /\ ~exOp.boot /\ exOp.at \notin {"off", "delete"} /\ exRow.active => X!Answers
    /\ exOp.at = "on" => X!Answers
    /\ exOp.boot /\ exOp.at # "off" /\ exOff => ~exRow.active
    /\ exOp.at = "check" /\ exOff => exRow # X!None

XInv == X!TypeOK /\ XStagesOK /\ XMigrationsOK /\ XCodeOK /\ XActiveOK

-----------------------------------------------------------------------------
XOpType == [at : X!Stages, to : 0..MaxRelease, next : 0..(MaxRelease + 1), boot : BOOLEAN]

LEMMA XOpsTyped ==
    /\ X!Idle \in XOpType
    /\ \A op \in XOpType, at \in X!Stages : [op EXCEPT !.at = at] \in XOpType
    /\ \A op \in XOpType, at \in X!Stages, n \in 0..(MaxRelease + 1) :
         [op EXCEPT !.at = at, !.next = n] \in XOpType
<1> USE XConstants DEF X!ExtensionConstants, XOpType
<1>1. X!Idle \in XOpType
  BY DEF X!Idle, X!Stages
<1>2. ASSUME NEW op \in XOpType, NEW at \in X!Stages PROVE [op EXCEPT !.at = at] \in XOpType
  OBVIOUS
<1>3. ASSUME NEW op \in XOpType, NEW at \in X!Stages, NEW n \in 0..(MaxRelease + 1)
      PROVE  [op EXCEPT !.at = at, !.next = n] \in XOpType
  OBVIOUS
<1> QED
  BY <1>1, <1>2, <1>3

LEMMA XInitInvariant == X!Init => XInv
<1> SUFFICES ASSUME X!Init PROVE XInv
  OBVIOUS
<1> USE XConstants DEF X!ExtensionConstants, X!Init
<1>1. X!TypeOK
  <2>1. exOp \in XOpType
    BY XOpsTyped
  <2>2. exRow \in [version : 0..MaxRelease, active : BOOLEAN]
    BY DEF X!None
  <2>3. 0 \in 0..MaxRelease
    OBVIOUS
  <2> QED
    BY <2>1, <2>2, <2>3 DEF X!TypeOK, XOpType
<1>2. XStagesOK /\ XMigrationsOK /\ XCodeOK /\ XActiveOK
  BY DEF XStagesOK, XMigrationsOK, XCodeOK, XActiveOK, XRunning, X!Idle, X!None, X!Answers
<1> QED
  BY <1>1, <1>2 DEF XInv

LEMMA XInstallKeeps ==
    ASSUME XInv, NEW v \in X!Releases, X!Install(v)
    PROVE  XInv'
<1> USE XConstants DEF X!Install, X!Op, XInv, X!TypeOK, XStagesOK, XMigrationsOK, XCodeOK,
         XActiveOK, X!Releases, X!Stages, XRunning, XStarting, X!None, X!Idle, X!Answers,
         X!ExtensionConstants, X!disk, X!db, X!memory
<1>1. X!TypeOK'
  OBVIOUS
<1>2. XStagesOK'
  OBVIOUS
<1>3. XMigrationsOK'
  OBVIOUS
<1>4. XCodeOK'
  OBVIOUS
<1>5. XActiveOK'
  OBVIOUS
<1> QED
  BY <1>1, <1>2, <1>3, <1>4, <1>5

LEMMA XFetchKeeps ==
    ASSUME XInv, X!Fetch
    PROVE  XInv'
<1> USE XConstants DEF X!Fetch, X!Clean, X!Go, X!Is, XInv, X!TypeOK, XStagesOK, XMigrationsOK,
         XCodeOK, XActiveOK, X!Releases, X!Stages, XRunning, XStarting, X!None, X!Idle, X!Answers,
         X!ExtensionConstants, X!disk, X!db, X!memory
<1>1. X!TypeOK'
  <2>1. {exZip', exFiles', exSchema', exVersion', exCached', exServed'} \subseteq 0..MaxRelease
    OBVIOUS
  <2>2. exRow' \in [version : 0..MaxRelease, active : BOOLEAN]
    OBVIOUS
  <2>3. exOff' \in BOOLEAN /\ exFailed' \in BOOLEAN
    OBVIOUS
  <2>4. exOp' \in XOpType
    <3>1. exOp \in XOpType
      BY DEF XOpType
    <3>2. \/ exOp' = X!Idle
          \/ exOp' = [exOp EXCEPT !.at = "import"]
      OBVIOUS
    <3>3. {"import"} \subseteq X!Stages
      BY DEF X!Stages
    <3> HIDE DEF X!Fetch, X!Idle, XInv, X!TypeOK, XStagesOK, XMigrationsOK, XCodeOK, XActiveOK, X!Stages
    <3> QED
      BY <3>1, <3>2, <3>3, XOpsTyped
  <2> QED
    BY <2>1, <2>2, <2>3, <2>4 DEF XOpType
<1>2. XStagesOK'
  OBVIOUS
<1>3. XMigrationsOK'
  OBVIOUS
<1>4. XCodeOK'
  OBVIOUS
<1>5. XActiveOK'
  OBVIOUS
<1> QED
  BY <1>1, <1>2, <1>3, <1>4, <1>5

LEMMA XMigrationsBeginKeeps ==
    ASSUME XInv, X!MigrationsBegin
    PROVE  XInv'
<1> USE XConstants DEF X!MigrationsBegin, X!Import, X!Go, X!Is, XInv, X!TypeOK, XStagesOK,
         XMigrationsOK, XCodeOK, XActiveOK, X!Releases, X!Stages, XRunning, XStarting, X!None,
         X!Idle, X!Answers, X!ExtensionConstants, X!disk, X!db, X!memory
<1>1. X!TypeOK'
  <2>1. {exZip', exFiles', exSchema', exVersion', exCached', exServed'} \subseteq 0..MaxRelease
    OBVIOUS
  <2>2. exRow' \in [version : 0..MaxRelease, active : BOOLEAN]
    OBVIOUS
  <2>3. exOff' \in BOOLEAN /\ exFailed' \in BOOLEAN
    OBVIOUS
  <2>4. exOp' \in XOpType
    <3>1. exOp \in XOpType
      BY DEF XOpType
    <3>2. \/ exOp' = [exOp EXCEPT !.at = "check"]
          \/ exOp' = [exOp EXCEPT !.at = "run", !.next = exVersion + 1]
      OBVIOUS
    <3>3. {"check", "run"} \subseteq X!Stages
      BY DEF X!Stages
    <3>4. exVersion + 1 \in 0..(MaxRelease + 1)
      OBVIOUS
    <3> HIDE DEF X!MigrationsBegin, X!Idle, XInv, X!TypeOK, XStagesOK, XMigrationsOK, XCodeOK, XActiveOK, X!Stages
    <3>5. CASE exOp' = [exOp EXCEPT !.at = "check"]
      BY <3>1, <3>3, <3>5, XOpsTyped
    <3>6. CASE exOp' = [exOp EXCEPT !.at = "run", !.next = exVersion + 1]
      BY <3>1, <3>3, <3>4, <3>6, XOpsTyped
    <3> QED
      BY <3>2, <3>5, <3>6
  <2> QED
    BY <2>1, <2>2, <2>3, <2>4 DEF XOpType
<1>2. XStagesOK'
  OBVIOUS
<1>3. XMigrationsOK'
  OBVIOUS
<1>4. XCodeOK'
  <2>1. exServed' = exServed /\ exSchema' = exSchema /\ exFiles' = exFiles
    OBVIOUS
  <2>2. exServed <= exSchema \/ exFailed'
    OBVIOUS
  <2>3. \/ exOp'.at = "run"
        \/ exOp'.at = "check" /\ exFiles = 0
    OBVIOUS
  <2>4. exFiles = 0 => exFiles <= exSchema
    OBVIOUS
  <2> HIDE DEF X!MigrationsBegin, XInv
  <2> QED
    BY <2>1, <2>2, <2>3, <2>4
<1>5. XActiveOK'
  OBVIOUS
<1> QED
  BY <1>1, <1>2, <1>3, <1>4, <1>5

LEMMA XMigrationFailsKeeps ==
    ASSUME XInv, X!MigrationFails
    PROVE  XInv'
<1> USE XConstants DEF X!MigrationFails, X!Clean, X!Go, X!Is, XInv, X!TypeOK, XStagesOK,
         XMigrationsOK, XCodeOK, XActiveOK, X!Releases, X!Stages, XRunning, XStarting, X!None,
         X!Idle, X!Answers, X!ExtensionConstants, X!disk, X!db, X!memory
<1>1. X!TypeOK'
  <2>1. {exZip', exFiles', exSchema', exVersion', exCached', exServed'} \subseteq 0..MaxRelease
    OBVIOUS
  <2>2. exRow' \in [version : 0..MaxRelease, active : BOOLEAN]
    OBVIOUS
  <2>3. exOff' \in BOOLEAN /\ exFailed' \in BOOLEAN
    OBVIOUS
  <2>4. exOp' \in XOpType
    <3>1. exOp \in XOpType
      BY DEF XOpType
    <3>2. exVersion + 1 \in 0..(MaxRelease + 1)
      OBVIOUS
    <3> QED
      BY <3>1, <3>2, XOpsTyped
  <2> QED
    BY <2>1, <2>2, <2>3, <2>4 DEF XOpType
<1>2. XStagesOK'
  OBVIOUS
<1>3. XMigrationsOK'
  OBVIOUS
<1>4. XCodeOK'
  OBVIOUS
<1>5. XActiveOK'
  OBVIOUS
<1> QED
  BY <1>1, <1>2, <1>3, <1>4, <1>5

LEMMA XMigrationRunsKeeps ==
    ASSUME XInv, X!MigrationRuns
    PROVE  XInv'
<1> USE XConstants DEF X!MigrationRuns, X!Go, X!Is, XInv, X!TypeOK, XStagesOK, XMigrationsOK,
         XCodeOK, XActiveOK, X!Releases, X!Stages, XRunning, XStarting, X!None, X!Idle, X!Answers,
         X!ExtensionConstants, X!disk, X!db, X!memory
<1>1. X!TypeOK'
  OBVIOUS
<1>2. XStagesOK'
  OBVIOUS
<1>3. XMigrationsOK'
  OBVIOUS
<1>4. XCodeOK'
  OBVIOUS
<1>5. XActiveOK'
  OBVIOUS
<1> QED
  BY <1>1, <1>2, <1>3, <1>4, <1>5

LEMMA XMigrationSavesKeeps ==
    ASSUME XInv, X!MigrationSaves
    PROVE  XInv'
<1> USE XConstants DEF X!MigrationSaves, X!Is, XInv, X!TypeOK, XStagesOK, XMigrationsOK, XCodeOK,
         XActiveOK, X!Releases, X!Stages, XRunning, XStarting, X!None, X!Idle, X!Answers,
         X!ExtensionConstants, X!disk, X!db, X!memory
<1>1. X!TypeOK'
  <2>1. {exZip', exFiles', exSchema', exVersion', exCached', exServed'} \subseteq 0..MaxRelease
    OBVIOUS
  <2>2. exRow' \in [version : 0..MaxRelease, active : BOOLEAN]
    OBVIOUS
  <2>3. exOff' \in BOOLEAN /\ exFailed' \in BOOLEAN
    OBVIOUS
  <2>4. exOp' \in XOpType
    <3>1. exOp \in XOpType
      BY DEF XOpType
    <3>2. \/ exOp' = [exOp EXCEPT !.at = "run", !.next = exOp.next + 1]
          \/ exOp' = [exOp EXCEPT !.at = "rerun", !.next = exOp.next + 1]
      OBVIOUS
    <3>3. {"run", "rerun"} \subseteq X!Stages
      BY DEF X!Stages
    <3>4. exOp.next + 1 \in 0..(MaxRelease + 1)
      OBVIOUS
    <3> HIDE DEF X!MigrationSaves, X!Idle, XInv, X!TypeOK, XStagesOK, XMigrationsOK, XCodeOK, XActiveOK, X!Stages
    <3>5. CASE exOp' = [exOp EXCEPT !.at = "run", !.next = exOp.next + 1]
      BY <3>1, <3>3, <3>4, <3>5, XOpsTyped
    <3>6. CASE exOp' = [exOp EXCEPT !.at = "rerun", !.next = exOp.next + 1]
      BY <3>1, <3>3, <3>4, <3>6, XOpsTyped
    <3> QED
      BY <3>2, <3>5, <3>6
  <2> QED
    BY <2>1, <2>2, <2>3, <2>4 DEF XOpType
<1>2. XStagesOK'
  OBVIOUS
<1>3. XMigrationsOK'
  OBVIOUS
<1>4. XCodeOK'
  OBVIOUS
<1>5. XActiveOK'
  OBVIOUS
<1> QED
  BY <1>1, <1>2, <1>3, <1>4, <1>5

LEMMA XMigrationsEndKeeps ==
    ASSUME XInv, X!MigrationsEnd
    PROVE  XInv'
<1> USE XConstants DEF X!MigrationsEnd, X!Go, X!Is, XInv, X!TypeOK, XStagesOK, XMigrationsOK,
         XCodeOK, XActiveOK, X!Releases, X!Stages, XRunning, XStarting, X!None, X!Idle, X!Answers,
         X!ExtensionConstants, X!disk, X!db, X!memory
<1>1. X!TypeOK'
  OBVIOUS
<1>2. XStagesOK'
  OBVIOUS
<1>3. XMigrationsOK'
  OBVIOUS
<1>4. XCodeOK'
  OBVIOUS
<1>5. XActiveOK'
  OBVIOUS
<1> QED
  BY <1>1, <1>2, <1>3, <1>4, <1>5

LEMMA XWriteRowKeeps ==
    ASSUME XInv, X!WriteRow
    PROVE  XInv'
<1> USE XConstants DEF X!WriteRow, X!Go, X!Is, XInv, X!TypeOK, XStagesOK, XMigrationsOK, XCodeOK,
         XActiveOK, X!Releases, X!Stages, XRunning, XStarting, X!None, X!Idle, X!Answers,
         X!ExtensionConstants, X!disk, X!db, X!memory
<1>1. X!TypeOK'
  OBVIOUS
<1>2. XStagesOK'
  OBVIOUS
<1>3. XMigrationsOK'
  OBVIOUS
<1>4. XCodeOK'
  OBVIOUS
<1>5. XActiveOK'
  OBVIOUS
<1> QED
  BY <1>1, <1>2, <1>3, <1>4, <1>5

LEMMA XActivateKeeps ==
    ASSUME XInv, X!Activate
    PROVE  XInv'
<1> USE XConstants DEF X!Activate, X!Registers, X!Fails, X!Go, X!Is, XInv, X!TypeOK, XStagesOK,
         XMigrationsOK, XCodeOK, XActiveOK, X!Releases, X!Stages, XRunning, XStarting, X!None,
         X!Idle, X!Answers, X!ExtensionConstants, X!disk, X!db, X!memory
<1>1. X!TypeOK'
  <2>1. {exZip', exFiles', exSchema', exVersion', exCached', exServed'} \subseteq 0..MaxRelease
    OBVIOUS
  <2>2. exRow' \in [version : 0..MaxRelease, active : BOOLEAN]
    OBVIOUS
  <2>3. exOff' \in BOOLEAN /\ exFailed' \in BOOLEAN
    OBVIOUS
  <2>4. exOp' \in XOpType
    <3>1. exOp \in XOpType
      BY DEF XOpType
    <3>2. \/ exOp' = [exOp EXCEPT !.at = "on"]
          \/ exOp' = [exOp EXCEPT !.at = "off"]
      OBVIOUS
    <3>3. {"on", "off"} \subseteq X!Stages
      BY DEF X!Stages
    <3> HIDE DEF X!Activate, X!Idle, XInv, X!TypeOK, XStagesOK, XMigrationsOK, XCodeOK, XActiveOK, X!Stages
    <3> QED
      BY <3>1, <3>2, <3>3, XOpsTyped
  <2> QED
    BY <2>1, <2>2, <2>3, <2>4 DEF XOpType
<1>2. XStagesOK'
  OBVIOUS
<1>3. XMigrationsOK'
  OBVIOUS
<1>4. XCodeOK'
  OBVIOUS
<1>5. XActiveOK'
  OBVIOUS
<1> QED
  BY <1>1, <1>2, <1>3, <1>4, <1>5

LEMMA XActivatedKeeps ==
    ASSUME XInv, X!Activated
    PROVE  XInv'
<1> USE XConstants DEF X!Activated, X!SetActive, X!Is, XInv, X!TypeOK, XStagesOK, XMigrationsOK,
         XCodeOK, XActiveOK, X!Releases, X!Stages, XRunning, XStarting, X!None, X!Idle, X!Answers,
         X!ExtensionConstants, X!disk, X!db, X!memory
<1>1. X!TypeOK'
  <2>1. {exZip', exFiles', exSchema', exVersion', exCached', exServed'} \subseteq 0..MaxRelease
    OBVIOUS
  <2>2. exRow' \in [version : 0..MaxRelease, active : BOOLEAN]
    OBVIOUS
  <2>3. exOff' \in BOOLEAN /\ exFailed' \in BOOLEAN
    OBVIOUS
  <2>4. exOp' \in XOpType
    <3>1. exOp \in XOpType
      BY DEF XOpType
    <3>2. exVersion + 1 \in 0..(MaxRelease + 1)
      OBVIOUS
    <3> QED
      BY <3>1, <3>2, XOpsTyped
  <2> QED
    BY <2>1, <2>2, <2>3, <2>4 DEF XOpType
<1>2. XStagesOK'
  OBVIOUS
<1>3. XMigrationsOK'
  OBVIOUS
<1>4. XCodeOK'
  OBVIOUS
<1>5. XActiveOK'
  OBVIOUS
<1> QED
  BY <1>1, <1>2, <1>3, <1>4, <1>5

LEMMA XDeactivatedKeeps ==
    ASSUME XInv, X!Deactivated
    PROVE  XInv'
<1> USE XConstants DEF X!Deactivated, X!SetActive, X!Go, X!Is, XInv, X!TypeOK, XStagesOK,
         XMigrationsOK, XCodeOK, XActiveOK, X!Releases, X!Stages, XRunning, XStarting, X!None,
         X!Idle, X!Answers, X!ExtensionConstants, X!disk, X!db, X!memory
<1>1. X!TypeOK'
  <2>1. {exZip', exFiles', exSchema', exVersion', exCached', exServed'} \subseteq 0..MaxRelease
    OBVIOUS
  <2>2. exRow' \in [version : 0..MaxRelease, active : BOOLEAN]
    OBVIOUS
  <2>3. exOff' \in BOOLEAN /\ exFailed' \in BOOLEAN
    OBVIOUS
  <2>4. exOp' \in XOpType
    <3>1. exOp \in XOpType
      BY DEF XOpType
    <3>2. exVersion + 1 \in 0..(MaxRelease + 1)
      OBVIOUS
    <3> QED
      BY <3>1, <3>2, XOpsTyped
  <2> QED
    BY <2>1, <2>2, <2>3, <2>4 DEF XOpType
<1>2. XStagesOK'
  <2>1. exRow' # X!None => exRow # X!None /\ exRow'.version = exRow.version
    <3>1. exRow' = [exRow EXCEPT !.active = FALSE]
      OBVIOUS
    <3>2. exRow \in [version : 0..MaxRelease, active : BOOLEAN]
      OBVIOUS
    <3>3. exRow = X!None => exRow' = X!None
      <4>1. X!None.active = FALSE
        OBVIOUS
      <4> HIDE DEF X!Deactivated, XInv, X!None
      <4> QED
        BY <3>1, <3>2, <4>1
    <3>4. exRow'.version = exRow.version
      <4> HIDE DEF X!Deactivated, XInv
      <4> QED
        BY <3>1, <3>2
    <3> HIDE DEF X!Deactivated, XInv
    <3> QED
      BY <3>3, <3>4
  <2>2. CASE exOp.boot
    <3>1. exOp'.at = "register" /\ exOp'.boot
      BY <2>2
    <3> HIDE DEF X!Deactivated
    <3> QED
      BY <2>1, <3>1
  <2>3. CASE ~exOp.boot
    <3>1. exOp' = X!Idle
      BY <2>3
    <3> HIDE DEF X!Deactivated
    <3> QED
      BY <2>1, <3>1
  <2> QED
    BY <2>2, <2>3
<1>3. XMigrationsOK'
  OBVIOUS
<1>4. XCodeOK'
  OBVIOUS
<1>5. XActiveOK'
  OBVIOUS
<1> QED
  BY <1>1, <1>2, <1>3, <1>4, <1>5

LEMMA XApiActivateKeeps ==
    ASSUME XInv, X!ApiActivate
    PROVE  XInv'
<1> USE XConstants DEF X!ApiActivate, X!Op, XInv, X!TypeOK, XStagesOK, XMigrationsOK, XCodeOK,
         XActiveOK, X!Releases, X!Stages, XRunning, XStarting, X!None, X!Idle, X!Answers,
         X!ExtensionConstants, X!disk, X!db, X!memory
<1>1. X!TypeOK'
  OBVIOUS
<1>2. XStagesOK'
  OBVIOUS
<1>3. XMigrationsOK'
  OBVIOUS
<1>4. XCodeOK'
  OBVIOUS
<1>5. XActiveOK'
  OBVIOUS
<1> QED
  BY <1>1, <1>2, <1>3, <1>4, <1>5

LEMMA XApiDeactivateKeeps ==
    ASSUME XInv, X!ApiDeactivate
    PROVE  XInv'
<1> USE XConstants DEF X!ApiDeactivate, X!Op, XInv, X!TypeOK, XStagesOK, XMigrationsOK, XCodeOK,
         XActiveOK, X!Releases, X!Stages, XRunning, XStarting, X!None, X!Idle, X!Answers,
         X!ExtensionConstants, X!disk, X!db, X!memory
<1>1. X!TypeOK'
  OBVIOUS
<1>2. XStagesOK'
  OBVIOUS
<1>3. XMigrationsOK'
  OBVIOUS
<1>4. XCodeOK'
  OBVIOUS
<1>5. XActiveOK'
  OBVIOUS
<1> QED
  BY <1>1, <1>2, <1>3, <1>4, <1>5

LEMMA XUninstallKeeps ==
    ASSUME XInv, X!Uninstall
    PROVE  XInv'
<1> USE XConstants DEF X!Uninstall, X!Op, XInv, X!TypeOK, XStagesOK, XMigrationsOK, XCodeOK,
         XActiveOK, X!Releases, X!Stages, XRunning, XStarting, X!None, X!Idle, X!Answers,
         X!ExtensionConstants, X!disk, X!db, X!memory
<1>1. X!TypeOK'
  OBVIOUS
<1>2. XStagesOK'
  OBVIOUS
<1>3. XMigrationsOK'
  OBVIOUS
<1>4. XCodeOK'
  OBVIOUS
<1>5. XActiveOK'
  OBVIOUS
<1> QED
  BY <1>1, <1>2, <1>3, <1>4, <1>5

LEMMA XDeleteRowKeeps ==
    ASSUME XInv, X!DeleteRow
    PROVE  XInv'
<1> USE XConstants DEF X!DeleteRow, X!Is, XInv, X!TypeOK, XStagesOK, XMigrationsOK, XCodeOK,
         XActiveOK, X!Releases, X!Stages, XRunning, XStarting, X!None, X!Idle, X!Answers,
         X!ExtensionConstants, X!disk, X!db, X!memory
<1>1. X!TypeOK'
  OBVIOUS
<1>2. XStagesOK'
  OBVIOUS
<1>3. XMigrationsOK'
  OBVIOUS
<1>4. XCodeOK'
  OBVIOUS
<1>5. XActiveOK'
  OBVIOUS
<1> QED
  BY <1>1, <1>2, <1>3, <1>4, <1>5

LEMMA XCrashKeeps ==
    ASSUME XInv, X!Crash
    PROVE  XInv'
<1> USE XConstants DEF X!Crash, X!Op, XInv, X!TypeOK, XStagesOK, XMigrationsOK, XCodeOK, XActiveOK,
         X!Releases, X!Stages, XRunning, XStarting, X!None, X!Idle, X!Answers, X!ExtensionConstants,
         X!disk, X!db, X!memory
<1>1. X!TypeOK'
  OBVIOUS
<1>2. XStagesOK'
  OBVIOUS
<1>3. XMigrationsOK'
  OBVIOUS
<1>4. XCodeOK'
  OBVIOUS
<1>5. XActiveOK'
  OBVIOUS
<1> QED
  BY <1>1, <1>2, <1>3, <1>4, <1>5

LEMMA XAdoptKeeps ==
    ASSUME XInv, X!Adopt
    PROVE  XInv'
<1> USE XConstants DEF X!Adopt, X!Go, X!Is, XInv, X!TypeOK, XStagesOK, XMigrationsOK, XCodeOK,
         XActiveOK, X!Releases, X!Stages, XRunning, XStarting, X!None, X!Idle, X!Answers,
         X!ExtensionConstants, X!disk, X!db, X!memory
<1>1. X!TypeOK'
  OBVIOUS
<1>2. XStagesOK'
  OBVIOUS
<1>3. XMigrationsOK'
  OBVIOUS
<1>4. XCodeOK'
  OBVIOUS
<1>5. XActiveOK'
  <2>1. exOp.boot /\ exOp'.boot /\ exOp'.at = "import"
    OBVIOUS
  <2>2. ~exOff'
    OBVIOUS
  <2> QED
    BY <2>1, <2>2
<1> QED
  BY <1>1, <1>2, <1>3, <1>4, <1>5

LEMMA XCheckFilesKeeps ==
    ASSUME XInv, X!CheckFiles
    PROVE  XInv'
<1> USE XConstants DEF X!CheckFiles, X!Missing, X!Go, X!Is, XInv, X!TypeOK, XStagesOK,
         XMigrationsOK, XCodeOK, XActiveOK, X!Releases, X!Stages, XRunning, XStarting, X!None,
         X!Idle, X!Answers, X!ExtensionConstants, X!disk, X!db, X!memory
<1>1. X!TypeOK'
  OBVIOUS
<1>2. XStagesOK'
  OBVIOUS
<1>3. XMigrationsOK'
  OBVIOUS
<1>4. XCodeOK'
  OBVIOUS
<1>5. XActiveOK'
  OBVIOUS
<1> QED
  BY <1>1, <1>2, <1>3, <1>4, <1>5

LEMMA XRestoreKeeps ==
    ASSUME XInv, X!Restore
    PROVE  XInv'
<1> USE XConstants DEF X!Restore, X!Missing, X!Archived, X!Newest, X!Extract, X!Is, XInv, X!TypeOK,
         XStagesOK, XMigrationsOK, XCodeOK, XActiveOK, X!Releases, X!Stages, XRunning, XStarting,
         X!None, X!Idle, X!Answers, X!ExtensionConstants, X!disk, X!db, X!memory
<1>1. X!TypeOK'
  <2>1. {exZip', exFiles', exSchema', exVersion', exCached', exServed'} \subseteq 0..MaxRelease
    OBVIOUS
  <2>2. exRow' \in [version : 0..MaxRelease, active : BOOLEAN]
    OBVIOUS
  <2>3. exOff' \in BOOLEAN /\ exFailed' \in BOOLEAN
    OBVIOUS
  <2>4. exOp' \in XOpType
    <3>1. exOp \in XOpType
      BY DEF XOpType
    <3>2. exVersion + 1 \in 0..(MaxRelease + 1)
      OBVIOUS
    <3> QED
      BY <3>1, <3>2, XOpsTyped
  <2> QED
    BY <2>1, <2>2, <2>3, <2>4 DEF XOpType
<1>2. XStagesOK'
  OBVIOUS
<1>3. XMigrationsOK'
  OBVIOUS
<1>4. XCodeOK'
  OBVIOUS
<1>5. XActiveOK'
  OBVIOUS
<1> QED
  BY <1>1, <1>2, <1>3, <1>4, <1>5

LEMMA XRestoreFailsKeeps ==
    ASSUME XInv, X!RestoreFails
    PROVE  XInv'
<1> USE XConstants DEF X!RestoreFails, X!Missing, X!Archived, X!Newest, X!Extract, X!Go, X!Is, XInv,
         X!TypeOK, XStagesOK, XMigrationsOK, XCodeOK, XActiveOK, X!Releases, X!Stages, XRunning,
         XStarting, X!None, X!Idle, X!Answers, X!ExtensionConstants, X!disk, X!db, X!memory
<1>1. X!TypeOK'
  <2>1. {exZip', exFiles', exSchema', exVersion', exCached', exServed'} \subseteq 0..MaxRelease
    OBVIOUS
  <2>2. exRow' \in [version : 0..MaxRelease, active : BOOLEAN]
    OBVIOUS
  <2>3. exOff' \in BOOLEAN /\ exFailed' \in BOOLEAN
    OBVIOUS
  <2>4. exOp' \in XOpType
    <3>1. exOp \in XOpType
      BY DEF XOpType
    <3>2. exVersion + 1 \in 0..(MaxRelease + 1)
      OBVIOUS
    <3> QED
      BY <3>1, <3>2, XOpsTyped
  <2> QED
    BY <2>1, <2>2, <2>3, <2>4 DEF XOpType
<1>2. XStagesOK'
  OBVIOUS
<1>3. XMigrationsOK'
  OBVIOUS
<1>4. XCodeOK'
  OBVIOUS
<1>5. XActiveOK'
  OBVIOUS
<1> QED
  BY <1>1, <1>2, <1>3, <1>4, <1>5

LEMMA XRestoredKeeps ==
    ASSUME XInv, X!Restored
    PROVE  XInv'
<1> USE XConstants DEF X!Restored, X!Go, X!Is, XInv, X!TypeOK, XStagesOK, XMigrationsOK, XCodeOK,
         XActiveOK, X!Releases, X!Stages, XRunning, XStarting, X!None, X!Idle, X!Answers,
         X!ExtensionConstants, X!disk, X!db, X!memory
<1>1. X!TypeOK'
  OBVIOUS
<1>2. XStagesOK'
  OBVIOUS
<1>3. XMigrationsOK'
  OBVIOUS
<1>4. XCodeOK'
  OBVIOUS
<1>5. XActiveOK'
  OBVIOUS
<1> QED
  BY <1>1, <1>2, <1>3, <1>4, <1>5

LEMMA XRegisterKeeps ==
    ASSUME XInv, X!Register
    PROVE  XInv'
<1> USE XConstants DEF X!Register, X!Registers, X!Fails, X!RegisterFailed, X!Is, XInv, X!TypeOK,
         XStagesOK, XMigrationsOK, XCodeOK, XActiveOK, X!Releases, X!Stages, XRunning, XStarting,
         X!None, X!Idle, X!Answers, X!ExtensionConstants, X!disk, X!db, X!memory
<1>1. X!TypeOK'
  <2>1. {exZip', exFiles', exSchema', exVersion', exCached', exServed'} \subseteq 0..MaxRelease
    OBVIOUS
  <2>2. exRow' \in [version : 0..MaxRelease, active : BOOLEAN]
    OBVIOUS
  <2>3. exOff' \in BOOLEAN /\ exFailed' \in BOOLEAN
    OBVIOUS
  <2>4. exOp' \in XOpType
    <3>1. exOp \in XOpType
      BY DEF XOpType
    <3>2. exVersion + 1 \in 0..(MaxRelease + 1)
      OBVIOUS
    <3> QED
      BY <3>1, <3>2, XOpsTyped
  <2> QED
    BY <2>1, <2>2, <2>3, <2>4 DEF XOpType
<1>2. XStagesOK'
  OBVIOUS
<1>3. XMigrationsOK'
  OBVIOUS
<1>4. XCodeOK'
  OBVIOUS
<1>5. XActiveOK'
  OBVIOUS
<1> QED
  BY <1>1, <1>2, <1>3, <1>4, <1>5

LEMMA XNextInvariant == XInv /\ [X!Next]_(X!vars) => XInv'
<1> SUFFICES ASSUME XInv, [X!Next]_(X!vars) PROVE XInv'
  OBVIOUS
<1>1. CASE UNCHANGED X!vars
  BY <1>1 DEF X!vars, XInv, X!TypeOK, XStagesOK, XMigrationsOK, XCodeOK, XActiveOK, X!Answers
<1>2. CASE X!Next
  BY <1>2, XInstallKeeps, XFetchKeeps, XMigrationsBeginKeeps, XMigrationFailsKeeps,
     XMigrationRunsKeeps, XMigrationSavesKeeps, XMigrationsEndKeeps, XWriteRowKeeps,
     XActivateKeeps, XActivatedKeeps, XDeactivatedKeeps, XApiActivateKeeps, XApiDeactivateKeeps,
     XUninstallKeeps, XDeleteRowKeeps, XCrashKeeps, XAdoptKeeps, XCheckFilesKeeps, XRestoreKeeps,
     XRestoreFailsKeeps, XRestoredKeeps, XRegisterKeeps DEF X!Next
<1> QED
  BY <1>1, <1>2

(* The invariant holds however installs, activations, removals, starts and   *)
(* crashes follow each other (services/extensions.py, app.py).               *)
THEOREM XInvHolds == X!Spec => []XInv
<1>1. X!Init => XInv
  BY XInitInvariant
<1>2. XInv /\ [X!Next]_(X!vars) => XInv'
  BY XNextInvariant
<1> QED
  BY <1>1, <1>2, PTL DEF X!Spec

(* When the server runs, an extension that its row calls active is answered, *)
(* by code whose migrations were run, unless a failure is on record          *)
(* (services/extensions.py 186-239, 639-670, app.py 274-568).                *)
THEOREM ActiveAreServed == X!Spec => []X!ActiveIsServed
<1>1. XInv => X!ActiveIsServed
  BY DEF XInv, XStagesOK, XCodeOK, XActiveOK, X!ActiveIsServed, XRunning, X!Idle, X!Answers
<1> QED
  BY <1>1, XInvHolds, PTL

-----------------------------------------------------------------------------
(* Grants of WASM extensions, for policies of any shape and lists of any       *)
(* length: whatever the host serves a guest is named by the policies its       *)
(* extension asked for, though a grant is read by one set of rules when it is  *)
(* accepted and by another when it is used.                                    *)
(* The first and the last of a set of positions of a list.                     *)
LEMMA GMinIsLeast ==
    ASSUME NEW set, set \subseteq Nat, set # {}
    PROVE  G!Min(set) \in set /\ \A i \in set : G!Min(set) <= i
<1>1. PICK x \in set : \A y \in set : ~(<<y, x>> \in OpToRel(<, Nat))
  BY NatLessThanWellFounded, WFMin, Zenon
<1>2. \A y \in set : ~(y < x)
  BY <1>1, Zenon DEF OpToRel
<1> DEFINE P(z) == z \in set /\ \A y \in set : z =< y
<1>3. P(x)
  BY <1>2
<1>4. P(CHOOSE z : P(z))
  BY <1>3, Zenon
<1> HIDE DEF P
<1>5. G!Min(set) = CHOOSE z : P(z)
  BY Zenon DEF G!Min, P
<1> QED
  BY <1>4, <1>5 DEF P

LEMMA GMaxIsMember ==
    ASSUME NEW n \in Nat, NEW set, set \subseteq 1..n, set # {}
    PROVE  G!Max(set) \in set
<1> DEFINE them == {n - i : i \in set}
<1>1. them \subseteq Nat /\ them # {}
  <2>1. \A i \in set : n - i \in Nat
    OBVIOUS
  <2> QED
    BY <2>1
<1>2. G!Min(them) \in them /\ \A k \in them : G!Min(them) <= k
  BY <1>1, GMinIsLeast
<1>3. PICK x \in set : G!Min(them) = n - x
  BY <1>2
<1>4. \A y \in set : x >= y
  <2> SUFFICES ASSUME NEW y \in set PROVE x >= y
    OBVIOUS
  <2>1. n - y \in them
    OBVIOUS
  <2> HIDE DEF them
  <2>2. n - x <= n - y
    BY <1>2, <1>3, <2>1
  <2> QED
    BY <2>2
<1> DEFINE P(z) == z \in set /\ \A y \in set : z >= y
<1>5. P(CHOOSE z : P(z))
  BY <1>4, Zenon
<1> HIDE DEF P
<1>6. G!Max(set) = CHOOSE z : P(z)
  BY Zenon DEF G!Max, P
<1> QED
  BY <1>5, <1>6 DEF P

(* A list has the positions 1 to its length.                                 *)
LEMMA GListPositions ==
    ASSUME G!GrantConstants, NEW p, NEW list \in G!Lists(p)
    PROVE  \E n \in Nat : DOMAIN list = 1..n /\ Len(list) = n
<1>1. PICK n \in 0..MaxEntries : list \in [1..n -> GuestPolicies[p]]
  BY DEF G!Lists
<1>2. n \in Nat
  BY <1>1 DEF G!GrantConstants
<1>3. list \in Seq(GuestPolicies[p])
  BY <1>1, <1>2, SeqDef
<1>4. Len(list) = n
  BY <1>1, <1>2, <1>3
<1> QED
  BY <1>1, <1>2, <1>4

(* What is in a list is at some position of it.                              *)
LEMMA GEntryHasPosition ==
    ASSUME NEW list, NEW e, e \in G!EntriesOf(list)
    PROVE  e # Junk /\ \E i \in DOMAIN list : list[i] = e
BY DEF G!EntriesOf, G!ToSet
-----------------------------------------------------------------------------
(* For each permission: if a grant is no broader than the request and the    *)
(* host serves a call under the grant, an entry of the request names it.     *)

GRequests == requested \in G!Lists(permission)

LEMMA GHttpNamed ==
    ASSUME permission = "http.request",
           NEW gra, G!HttpIsSubset(requested, gra),
           NEW ask \in G!Asks, G!HttpAllows(gra, ask)
    PROVE  G!Names(ask)
<1>1. ask \in Origins
  BY DEF G!Asks
<1>2. ask \in G!EntriesOf(requested)
  BY <1>1 DEF G!HttpIsSubset, G!HttpOrigins, G!HttpAllows
<1>3. PICK i \in DOMAIN requested : requested[i] = ask
  BY <1>2, GEntryHasPosition
<1> QED
  BY <1>2, <1>3, GEntryHasPosition DEF G!Names

LEMMA GInvoiceNamed ==
    ASSUME permission = "wallet.create_invoice_public",
           NEW gra, G!InvoiceIsSubset(requested, gra),
           NEW ask, G!InvoiceAllows(gra, ask)
    PROVE  G!Names(ask)
<1>1. ask \in G!EntriesOf(requested)
  BY DEF G!InvoiceIsSubset, G!InvoiceSources, G!InvoiceAllows
<1>2. PICK i \in DOMAIN requested : requested[i] = ask
  BY <1>1, GEntryHasPosition
<1> QED
  BY <1>1, <1>2, GEntryHasPosition DEF G!Names

LEMMA GPublishNamed ==
    ASSUME G!GrantConstants, GRequests, permission = "websocket.publish",
           NEW gra, G!PublishIsSubset(requested, gra, overridden),
           NEW ask \in G!Asks, G!PublishAllows(gra, ask)
    PROVE  G!Names(ask)
<1>1. /\ RateLimit \in Nat /\ Junk \notin Nat
  BY DEF G!GrantConstants
<1>2. ask \in Nat
  BY <1>1 DEF G!Asks
<1>3. Len(requested) = 1 /\ requested[1] \in 1..RateLimit
  BY <1>1 DEF G!PublishIsSubset, G!PublishRate
<1>4. Len(gra) = 1 /\ gra[1] \in 1..RateLimit /\ ask <= gra[1]
  BY <1>1 DEF G!PublishIsSubset, G!PublishRate, G!PublishAllows
<1>5. 1 \in DOMAIN requested
  BY <1>3, GListPositions DEF GRequests
<1>6. overridden \/ gra[1] <= requested[1]
  BY <1>3, <1>4 DEF G!PublishIsSubset, G!PublishRate
<1>7. requested[1] # Junk
  BY <1>1, <1>3
<1>8. overridden \/ ask <= requested[1]
  BY <1>1, <1>2, <1>3, <1>4, <1>6
<1> QED
  BY <1>5, <1>7, <1>8, Zenon DEF G!Names

LEMMA GApiNamed ==
    ASSUME G!GrantConstants, GRequests, permission = "extension.api.request",
           NEW gra \in G!Lists(permission), G!ApiIsSubset(requested, gra),
           NEW ask \in G!Asks, G!ApiAllows(gra, ask)
    PROVE  G!Names(ask)
<1> DEFINE Stops(e) == e # Junk /\ (e.access = Junk \/ e.id = ask.id)
           Counts(e) == G!HasAccess(e) /\ e.id = ask.id
           set == {i \in DOMAIN gra : Stops(gra[i])}
           some == {i \in DOMAIN gra : Counts(gra[i])}
           asked == {i \in DOMAIN requested : Counts(requested[i])}
           k == G!Min(set)
           r == G!Min(asked)
<1>1. ask.id \in Targets
  BY DEF G!Asks
<1>2. DOMAIN gra \subseteq Nat /\ DOMAIN requested \subseteq Nat
  BY GListPositions DEF GRequests
<1>3. set # {} /\ gra[k].access # Junk /\ ask.access \in gra[k].access
  BY DEF G!ApiAllows, G!Some, G!First
<1>4. k \in set /\ \A i \in set : k <= i
  BY <1>2, <1>3, GMinIsLeast
<1>5. some \subseteq set /\ k \in some
  BY <1>3, <1>4 DEF G!HasAccess
<1>6. G!Min(some) \in some /\ \A i \in some : G!Min(some) <= i
  BY <1>2, <1>5, GMinIsLeast
<1>7. G!Min(some) = k
  <2>1. k <= G!Min(some) /\ G!Min(some) <= k /\ k \in Nat /\ G!Min(some) \in Nat
    BY <1>2, <1>4, <1>5, <1>6
  <2> QED
    BY <2>1
<1>8. G!ApiAccess(gra, ask.id) = gra[k].access
  BY <1>5, <1>7 DEF G!ApiAccess, G!Some, G!First
<1>9. ask.access \in G!ApiAccess(requested, ask.id)
  BY <1>1, <1>3, <1>8 DEF G!ApiIsSubset
<1>10. asked # {} /\ ask.access \in requested[r].access
  BY <1>9 DEF G!ApiAccess, G!Some, G!First
<1>11. r \in asked
  BY <1>2, <1>10, GMinIsLeast
<1> QED
  BY <1>10, <1>11 DEF G!Names, G!HasAccess

LEMMA GReadNamed ==
    ASSUME G!GrantConstants, GRequests, permission = "ext.storage.read_public",
           NEW gra \in G!Lists(permission), G!ReadIsSubset(requested, gra),
           NEW ask \in G!Asks, G!ReadAllows(gra, ask)
    PROVE  G!Names(ask)
<1> DEFINE Stops(e) == e # Junk /\ e.table = ask.table
           Counts(e) == /\ e # Junk /\ e.table = ask.table /\ e.source # Junk
                        /\ e.fields # Junk /\ e.fields \ {Junk} # {}
           set == {i \in DOMAIN gra : Stops(gra[i])}
           some == {i \in DOMAIN gra : Counts(gra[i])}
           asked == {i \in DOMAIN requested : Counts(requested[i])}
           k == G!Min(set)
           r == G!Min(asked)
<1>1. ask.table \in Tables
  BY DEF G!Asks
<1>2. DOMAIN gra \subseteq Nat /\ DOMAIN requested \subseteq Nat
  BY GListPositions DEF GRequests
<1>3. /\ set # {} /\ gra[k].fields # Junk /\ gra[k].source # Junk
      /\ Junk \notin gra[k].fields /\ ask.field \in gra[k].fields
  BY DEF G!ReadAllows, G!Some, G!First
<1>4. k \in set /\ \A i \in set : k <= i
  BY <1>2, <1>3, GMinIsLeast
<1>5. some \subseteq set /\ k \in some
  BY <1>3, <1>4
<1>6. G!Min(some) \in some /\ \A i \in some : G!Min(some) <= i
  BY <1>2, <1>5, GMinIsLeast
<1>7. G!Min(some) = k
  <2>1. k <= G!Min(some) /\ G!Min(some) <= k /\ k \in Nat /\ G!Min(some) \in Nat
    BY <1>2, <1>4, <1>5, <1>6
  <2> QED
    BY <2>1
<1>8. gra[k] \in G!ReadTable(gra, ask.table)
  BY <1>5, <1>7 DEF G!ReadTable, G!Some, G!First
<1> HIDE DEF set, some, asked
<1>9. PICK e \in G!ReadTable(requested, ask.table) :
        gra[k].fields \ {Junk} \subseteq e.fields \ {Junk}
  BY <1>1, <1>8, Zenon DEF G!ReadIsSubset
<1> USE DEF asked
<1>10. asked # {} /\ e = requested[r]
  BY <1>9 DEF G!ReadTable, G!Some, G!First
<1>11. r \in asked
  BY <1>2, <1>10, GMinIsLeast
<1>12. ask.field \in requested[r].fields
  BY <1>3, <1>9, <1>10
<1> QED
  BY <1>11, <1>12 DEF G!Names

LEMMA GCount == \A set : G!Cardinality(set) = Cardinality(set)
BY DEF G!Cardinality, Cardinality

(* An accepted list has no entry that is malformed and no two of one target:  *)
(* it has as many targets as entries.                                        *)
GTarget(e) == <<e.table, e.source, e.by>>
LEMMA GTargetsDiffer ==
    ASSUME NEW n \in Nat, NEW list, DOMAIN list = 1..n,
           Cardinality(G!AppendTargets(list)) = n
    PROVE  /\ \A i \in 1..n : G!IsAppend(list[i])
           /\ \A i, j \in 1..n : GTarget(list[i]) = GTarget(list[j]) => i = j
<1> DEFINE some == {i \in 1..n : G!IsAppend(list[i])}
           f == [i \in some |-> GTarget(list[i])]
           them == G!AppendTargets(list)
<1>1. IsFiniteSet(1..n) /\ Cardinality(1..n) = n
  BY FS_Interval
<1>2. IsFiniteSet(some) /\ Cardinality(some) <= n /\ (Cardinality(some) = n => some = 1..n)
  BY <1>1, FS_Subset
<1>3. f \in Surjection(some, them)
  <2>1. them = {GTarget(list[i]) : i \in some}
    BY DEF G!AppendTargets, GTarget
  <2> QED
    BY <2>1 DEF Surjection
<1>4. /\ IsFiniteSet(them) /\ n <= Cardinality(some)
      /\ n = Cardinality(some) => f \in Injection(some, them)
  BY <1>2, <1>3, FS_Surjection
<1>5. Cardinality(some) = n
  BY <1>2, <1>4, FS_CardinalityType
<1>6. some = 1..n /\ f \in Injection(some, them)
  BY <1>2, <1>4, <1>5
<1> QED
  BY <1>6 DEF Injection, IsInjective

LEMMA GAppendNamed ==
    ASSUME G!GrantConstants, GRequests, permission = "ext.storage.append_public",
           NEW gra \in G!Lists(permission), G!AppendIsSubset(requested, gra, overridden),
           NEW ask \in G!Asks, G!AppendAllows(gra, ask)
    PROVE  G!Names(ask)
<1> DEFINE Normal(e) == /\ e # Junk /\ e.by # "id" /\ G!MaxRows(e) > 0
                        /\ Junk \notin e.fields /\ "id" \notin e.fields
                        /\ e.by \notin e.fields
           Stops(e) == ~Normal(e) \/ (e.table = ask.table /\ e.source \in ask.sources)
           set == {i \in DOMAIN gra : Stops(gra[i])}
           k == G!Min(set)
           target == GTarget(gra[k])
           kept == G!AppendPolicies(gra, target)
           asked == G!AppendPolicies(requested, target)
           r == G!Max(asked)
<1>1. PICK n \in Nat : DOMAIN gra = 1..n /\ Len(gra) = n
  BY GListPositions
<1>2. PICK m \in Nat : DOMAIN requested = 1..m
  BY GListPositions DEF GRequests
<1>3. /\ set # {} /\ Normal(gra[k])
      /\ ask.field \in gra[k].fields /\ ask.rows < G!MaxRows(gra[k])
  BY DEF G!AppendAllows, G!Some, G!First
<1>4. k \in set
  <2>1. DOMAIN gra \subseteq Nat
    BY <1>1
  <2>2. set \subseteq DOMAIN gra
    OBVIOUS
  <2> HIDE DEF set
  <2>3. set # {}
    BY <1>3
  <2> QED
    BY <2>1, <2>2, <2>3, GMinIsLeast
<1>5. gra[k].table = ask.table /\ gra[k].source \in ask.sources
  BY <1>3, <1>4
<1>6. /\ \A i \in 1..n : G!IsAppend(gra[i])
      /\ \A i, j \in 1..n : GTarget(gra[i]) = GTarget(gra[j]) => i = j
  BY <1>1, GCount, GTargetsDiffer DEF G!AppendIsSubset
<1>7. k \in 1..n
  BY <1>1, <1>4
<1>8. kept = {k}
  BY <1>1, <1>6, <1>7 DEF G!AppendPolicies, GTarget
<1>9. G!AppendPolicy(gra, target) = gra[k]
  BY <1>7, <1>8, GMaxIsMember DEF G!AppendPolicy
<1>10. target \in G!AppendTargets(gra)
  BY <1>1, <1>6, <1>7 DEF G!AppendTargets, GTarget
<1>11. asked # {}
  BY <1>10 DEF G!AppendIsSubset, G!AppendTargets, G!AppendPolicies
<1>12. r \in asked /\ asked \subseteq 1..m
  BY <1>2, <1>11, GMaxIsMember DEF G!AppendPolicies
<1>13. /\ requested[r] # Junk /\ G!IsAppend(requested[r])
       /\ requested[r].table = ask.table /\ requested[r].source \in ask.sources
  BY <1>5, <1>12 DEF G!AppendPolicies, GTarget, G!IsAppend
<1>14. /\ gra[k].fields \ {Junk} \subseteq requested[r].fields \ {Junk}
       /\ overridden \/ G!MaxRows(gra[k]) <= G!MaxRows(requested[r])
  BY <1>9, <1>10 DEF G!AppendIsSubset, G!AppendPolicy
<1>15. ask.field \in requested[r].fields
  BY <1>3, <1>14
<1>16. overridden \/ ask.rows < G!MaxRows(requested[r])
  <2> SUFFICES ASSUME ~overridden PROVE ask.rows < G!MaxRows(requested[r])
    OBVIOUS
  <2>1. RowsLimit \in Nat
    BY DEF G!GrantConstants
  <2>2. G!MaxRows(gra[k]) \in Int /\ G!MaxRows(requested[r]) \in Int
    <3>1. G!IsAppend(gra[k]) /\ G!IsAppend(requested[r])
      BY <1>6, <1>7, <1>13
    <3> HIDE DEF k, r
    <3> QED
      BY <2>1, <3>1 DEF G!IsAppend
  <2>3. ask.rows \in Int
    <3>1. ask.rows \in 0..RowsLimit
      BY DEF G!Asks
    <3> QED
      BY <2>1, <3>1
  <2>4. G!MaxRows(gra[k]) <= G!MaxRows(requested[r])
    BY <1>14
  <2> HIDE DEF r, k
  <2> QED
    BY <1>3, <2>2, <2>3, <2>4
<1> QED
  BY <1>2, <1>12, <1>13, <1>15, <1>16 DEF G!Names
-----------------------------------------------------------------------------
(* The grant that is in force passed the comparison with the request, with   *)
(* the overrides it was accepted with.                                       *)
GrantOK == granted # NoValue => G!GrantIsSubset(requested, granted, overridden)
GInv == G!TypeOK /\ GrantOK /\ G!ServedIsRequested

LEMMA GServedNamed ==
    ASSUME G!GrantConstants, G!TypeOK, GrantOK, granted # NoValue,
           NEW ask \in G!Asks, G!Allows(granted, ask)
    PROVE  G!Names(ask)
<1>1. permission \in {"http.request", "extension.api.request", "ext.storage.read_public",
                      "ext.storage.append_public", "wallet.create_invoice_public",
                      "websocket.publish"}
  BY DEF G!TypeOK, G!GrantConstants
<1>2. GRequests /\ granted \in G!Lists(permission)
  BY DEF G!TypeOK, GRequests
<1>3. CASE permission = "http.request"
  BY <1>3, GHttpNamed DEF GrantOK, G!GrantIsSubset, G!Allows
<1>4. CASE permission = "extension.api.request"
  BY <1>2, <1>4, GApiNamed DEF GrantOK, G!GrantIsSubset, G!Allows
<1>5. CASE permission = "ext.storage.read_public"
  BY <1>2, <1>5, GReadNamed DEF GrantOK, G!GrantIsSubset, G!Allows
<1>6. CASE permission = "ext.storage.append_public"
  BY <1>2, <1>6, GAppendNamed DEF GrantOK, G!GrantIsSubset, G!Allows
<1>7. CASE permission = "wallet.create_invoice_public"
  BY <1>7, GInvoiceNamed DEF GrantOK, G!GrantIsSubset, G!Allows
<1>8. CASE permission = "websocket.publish"
  BY <1>2, <1>8, GPublishNamed DEF GrantOK, G!GrantIsSubset, G!Allows
<1> QED
  BY <1>1, <1>3, <1>4, <1>5, <1>6, <1>7, <1>8

LEMMA GInitInvariant == G!Init => GInv
BY DEF G!Init, GInv, G!TypeOK, GrantOK, G!ServedIsRequested

LEMMA GNextInvariant == G!GrantConstants /\ GInv /\ [G!Next]_(G!vars) => GInv'
<1> SUFFICES ASSUME G!GrantConstants, GInv, [G!Next]_(G!vars) PROVE GInv'
  OBVIOUS
<1> USE DEF GInv
<1>0. ASSUME NEW policies \in G!Lists(permission), NEW raise \in BOOLEAN, G!Grant(policies, raise)
      PROVE  GInv'
  BY <1>0 DEF G!Grant, G!TypeOK, GrantOK, G!ServedIsRequested, G!GrantIsSubset
<1>1. ASSUME NEW policies \in G!Lists(permission), G!Install(policies) PROVE GInv'
  BY <1>0, <1>1 DEF G!Install
<1>2. ASSUME NEW policies \in G!Lists(permission), G!Update(policies) PROVE GInv'
  BY <1>0, <1>2 DEF G!Update
<1>3. CASE G!TakeBack
  BY <1>3 DEF G!TakeBack, G!TypeOK, GrantOK, G!ServedIsRequested
<1>4. ASSUME NEW ask \in G!Asks, G!Serve(ask) PROVE GInv'
  <2>1. G!Names(ask)
    BY <1>4, GServedNamed DEF G!Serve
  <2>2. G!Names(ask)'
    BY <1>4, <2>1 DEF G!Serve, G!Names
  <2> QED
    BY <1>4, <2>2 DEF G!Serve, G!TypeOK, GrantOK, G!ServedIsRequested, G!GrantIsSubset, G!Asks
<1>5. CASE UNCHANGED G!vars
  BY <1>5 DEF G!vars, G!TypeOK, GrantOK, G!ServedIsRequested, G!GrantIsSubset, G!Names, G!Asks
<1> QED
  BY <1>1, <1>2, <1>3, <1>4, <1>5 DEF G!Next

(* Whatever grants are made, updated and taken back, the grant in force is   *)
(* no broader than the request (permissions.py 36-412).                      *)
THEOREM GInvHolds == G!Spec => []GInv
<1> USE GConstants
<1>1. G!Init => GInv
  BY GInitInvariant
<1>2. GInv /\ [G!Next]_(G!vars) => GInv'
  BY GNextInvariant
<1> QED
  BY <1>1, <1>2, PTL DEF G!Spec

(* However the two readers take a list apart, a guest is served nothing its  *)
(* config.json does not name, but for limits an administrator raised         *)
(* (permissions.py 36-412 against host.py 696-930, client/http.py and        *)
(* client/extensions.py).                                                    *)
THEOREM ServedAreRequested == G!Spec => []G!ServedIsRequested
<1>1. GInv => G!ServedIsRequested
  BY DEF GInv
<1> QED
  BY <1>1, GInvHolds, PTL
=============================================================================
