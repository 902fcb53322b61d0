----------------------------- MODULE MCPlatform -----------------------------
(* The services of which nothing has to happen in the end: each by itself, a *)
(* behaviour is of one part.                                                  *)
EXTENDS PlatformProofs, DealingsProofs, TLC

CONSTANT Source

VARIABLES part,   \* the component this behaviour is of
          permissions, grants, watched, rows, guest, seen, raced, last,
          clients, gone, recent, sending, missed

ReadPolicy(table, fields, source) == [table |-> table, fields |-> fields, source |-> source]
AppendPolicy(source, by, fields, max) ==
    [table |-> "t", source |-> source, by |-> by, fields |-> fields, max |-> max]
Policies ==
    [p \in {"http.request", "extension.api.request", "ext.storage.read_public",
            "ext.storage.append_public", "wallet.create_invoice_public",
            "websocket.publish"} |->
       CASE p = "http.request" -> {"a", "b", "bad url", Junk}
         [] p = "extension.api.request" ->
              {[id |-> "x", access |-> {"read"}], [id |-> "x", access |-> {"read", "write"}],
               [id |-> "x", access |-> {}], [id |-> "y", access |-> {"write"}],
               [id |-> "y", access |-> Junk], Junk}
         [] p = "ext.storage.read_public" ->
              {ReadPolicy("t", {"f"}, NoValue), ReadPolicy("t", {"f", "g"}, "s"),
               ReadPolicy("t", {"g", Junk}, "s"), ReadPolicy("t", {}, NoValue),
               ReadPolicy("t", {"g"}, Junk), ReadPolicy("t", Junk, NoValue), Junk}
         [] p = "ext.storage.append_public" ->
              {AppendPolicy("t", "s", {"f"}, 1), AppendPolicy("t", "s", {"f", "g"}, NoValue),
               AppendPolicy("u", "s", {"g"}, 3), AppendPolicy("t", "f", {"f"}, 1), Junk}
         [] p = "wallet.create_invoice_public" ->
              {[table |-> "t", wallet |-> "f"], [table |-> "t", wallet |-> ""],
               [table |-> "u", wallet |-> "f"], Junk}
         [] p = "websocket.publish" -> {0, 1, 2, 3, Junk}]
Q == INSTANCE GuestProofs WITH
    Users <- {"u", "v"}, Guests <- {"g", "h"}, Rows <- {"a", "b"}, MaxRows <- 1,
    Kits <- {{"write", "read", "watch"}, {"append_public", "write"}, {"publish"},
             {"pay_invoice_background", "pay_invoice"},
             {"create_invoice_public", "write"},
             {"read_public", "list", "balance", "create_invoice", "write"}},
    Clients <- {"c", "d"}, MaxRate <- 1, ClientRate <- 1

Parts == {"W", "R", "A", "X", "G", "Q", "U", "N", "S", "O", "V", "L", "P", "M", "F", "K", "T"}
wVars == <<shRow, shName, shMirrors, shTask, shCopy, shTarget, shClean, shRevoked>>
rVars == <<rgMemory, rgSaved, rgTask, rgAdmin, rgUsers, rgOverlap>>
aVars == <<acKey, acAge, acIndex, acCheck, acChange, acLapsed, acServed>>
xVars == <<exZip, exFiles, exRow, exSchema, exVersion, exCached, exServed, exOff, exOp, exFailed>>
gVars == <<permission, requested, granted, overridden, served>>
qVars == <<permissions, grants, watched, rows, guest, seen, raced, last,
           clients, gone, recent, sending, missed>>
uVars == <<ueRow, ueSell, ueInvoices, ueTask, ueRemoved, ueLost>>
nVars == <<anRow, anTask, anMeant, anOverlap, anReturned>>
sVars == <<ssState, ssAge, ssIndex, ssCheck, ssChange, ssLapsed, ssServed,
           ssListed, ssEdit, ssWanted, ssOpened, ssLost>>
oVars == <<loFailures, loBlocked, loKept, loGuesses, loAccess, loAdmin, loStray,
           loFirst, loInstall, loInstalled, loRace>>
vVars == <<waMirror, waRow, waTask, waMeant, waPaid, waOverlap, waTaken>>
lVars == <<luPrivate, luOp, luAt, luUrl, luHops, luPinned, luAmount, luOffer, luPaid, luAsked>>
pVars == <<rlShop, rlList, rlSettled, rlRow, rlTask, rlBought, rlWanted, rlOverlap>>
mVars == <<nmKind, nmRows, nmCache, nmTask, nmPages, nmSeen, nmTotal, nmFirst, nmShifted,
           nmChannel, nmLists, nmFound, nmWas>>
fVars == <<fsKind, fsSub, fsCharged, fsEvents, fsRows, fsPushed, fsCustomers, fsTask,
           fsRace, fsEarly, fsForeign, fsRefused>>
kVars == <<fpFields, fpEnabled, fpClients, fpRegistered, fpHooks, fpSaved, fpSettings, fpTask,
           fpRace, fpMixed>>
tVars == <<srAt, srEnv, srVersion, srApplied, srMissing, srRows, srMemory, srNew, srMade,
           srClaimed, srFile, srTask, srOwner, srCut, srWiped, srRenewed, srStops>>
vars == <<part, wVars, rVars, aVars, xVars, gVars, qVars, uVars, nVars, sVars, oVars,
          vVars, lVars, pVars, mVars, fVars, kVars, tVars>>

(* Bounds on the subscriptions that are looked at, not on the modules: one of  *)
(* Square is open, of each other provider's one cycle is charged, the first    *)
(* subscription may be cancelled, and where nothing depends on the second      *)
(* wallet or request the first is taken.                                       *)
Opened ==
    [s \in Subscriptions |->
       IF s = 1 THEN [state |-> "active", wallet |-> 1, request |-> 1, known |-> TRUE] ELSE F!NoSub]
First ==
    /\ \A t \in Callers : fsTask[t].pc = "idle"
    /\ \A s \in Subscriptions : fsSub[s].state = "none"
Opens(t) == fsTask[t].pc = "idle" /\ fsTask'[t].pc \in {"customer", "create"}
Few ==
    /\ fsKind # "square" => \A s \in Subscriptions : fsCharged'[s] <= 1
    /\ fsSub'[2].state # "cancelled"
    /\ \A t \in Callers : Opens(t) =>
         /\ (fsKind = "stripe" /\ ~First) \/ fsTask'[t].wallet = 1
         /\ (fsKind \in {"stripe", "revolut"} /\ ~First) \/ fsTask'[t].request = 1

(* Bounds of the same kind.  The guest of a shared wallet deletes his first    *)
(* mirror only; only the first wallet pays for its address, and the first of a *)
(* user's requests enables an extension; a server that was stopped within a    *)
(* migration is followed until it runs; and a grant, which replaces what was   *)
(* granted, is made when there is none.                                        *)
FirstDeleted == shMirrors'[2] # "deleted"
OnePays == \A t \in Callers : waTask'[t].op = "charged" => waTask'[t].id = 1
FirstEnables == ueTask'[2].at \notin {"decide", "ask"}
UpToCut == ~(srCut /\ srAt = "on")
GrantedOnce ==
    IF granted = NoValue THEN G!Next
    ELSE served = NoValue /\ (G!TakeBack \/ \E ask \in G!Asks : G!Serve(ask))

(* A part that is not looked at starts in one state. *)
Pin(p, state) == IF part = p THEN TRUE ELSE state

Init ==
    /\ part \in Parts
    /\ Pin("W", shName = 1)
    /\ Pin("G", permission = "websocket.publish" /\ requested = <<1>>)
    /\ Pin("Q", permissions = {"write", "read", "watch"})
    /\ Pin("V", waMirror = FALSE /\ waRow = [i \in V!Ids |-> V!Row(0, "none", FALSE)])
    /\ Pin("N", anRow = [i \in AccountIds |-> IF i = 1 THEN N!Row("a", 0, TRUE) ELSE N!Gone])
    /\ Pin("L", luPrivate = FALSE /\ luOp = "scan")
    /\ Pin("M", nmKind = "lnd" /\ nmRows = 0)
    /\ Pin("F", fsKind = "stripe")
    /\ W!Init /\ R!Init /\ A!Init /\ X!Init /\ G!Init /\ Q!Init /\ U!Init
    /\ N!Init /\ S!Init /\ O!Init /\ V!Init /\ L!Init /\ P!Init /\ M!Init
    /\ F!Init /\ K!Init /\ T!Init
    /\ fsKind = "square" => fsSub = Opened

(* A step of one part leaves the others alone. *)
Next ==
    \/ /\ part = "W" /\ W!Next /\ FirstDeleted
       /\ UNCHANGED <<part, rVars, aVars, xVars, gVars, qVars, uVars, nVars, sVars,
                      oVars, vVars, lVars, pVars, mVars, fVars, kVars, tVars>>
    \/ /\ part = "R" /\ R!Next
       /\ UNCHANGED <<part, wVars, aVars, xVars, gVars, qVars, uVars, nVars, sVars,
                      oVars, vVars, lVars, pVars, mVars, fVars, kVars, tVars>>
    \/ /\ part = "A" /\ A!Next
       /\ UNCHANGED <<part, wVars, rVars, xVars, gVars, qVars, uVars, nVars, sVars,
                      oVars, vVars, lVars, pVars, mVars, fVars, kVars, tVars>>
    \/ /\ part = "X" /\ X!Next
       /\ UNCHANGED <<part, wVars, rVars, aVars, gVars, qVars, uVars, nVars, sVars,
                      oVars, vVars, lVars, pVars, mVars, fVars, kVars, tVars>>
    \/ /\ part = "G" /\ GrantedOnce
       /\ UNCHANGED <<part, wVars, rVars, aVars, xVars, qVars, uVars, nVars, sVars,
                      oVars, vVars, lVars, pVars, mVars, fVars, kVars, tVars>>
    \/ /\ part = "Q" /\ Q!Next
       /\ UNCHANGED <<part, wVars, rVars, aVars, xVars, gVars, uVars, nVars, sVars,
                      oVars, vVars, lVars, pVars, mVars, fVars, kVars, tVars>>
    \/ /\ part = "U" /\ U!Next /\ FirstEnables
       /\ UNCHANGED <<part, wVars, rVars, aVars, xVars, gVars, qVars, nVars, sVars,
                      oVars, vVars, lVars, pVars, mVars, fVars, kVars, tVars>>
    \/ /\ part = "N" /\ N!Next
       /\ UNCHANGED <<part, wVars, rVars, aVars, xVars, gVars, qVars, uVars, sVars,
                      oVars, vVars, lVars, pVars, mVars, fVars, kVars, tVars>>
    \/ /\ part = "S" /\ S!Next
       /\ UNCHANGED <<part, wVars, rVars, aVars, xVars, gVars, qVars, uVars, nVars,
                      oVars, vVars, lVars, pVars, mVars, fVars, kVars, tVars>>
    \/ /\ part = "O" /\ O!Next
       /\ UNCHANGED <<part, wVars, rVars, aVars, xVars, gVars, qVars, uVars, nVars,
                      sVars, vVars, lVars, pVars, mVars, fVars, kVars, tVars>>
    \/ /\ part = "V" /\ V!Next /\ OnePays
       /\ UNCHANGED <<part, wVars, rVars, aVars, xVars, gVars, qVars, uVars, nVars,
                      sVars, oVars, lVars, pVars, mVars, fVars, kVars, tVars>>
    \/ /\ part = "L" /\ L!Next
       /\ UNCHANGED <<part, wVars, rVars, aVars, xVars, gVars, qVars, uVars, nVars,
                      sVars, oVars, vVars, pVars, mVars, fVars, kVars, tVars>>
    \/ /\ part = "P" /\ P!Next
       /\ UNCHANGED <<part, wVars, rVars, aVars, xVars, gVars, qVars, uVars, nVars,
                      sVars, oVars, vVars, lVars, mVars, fVars, kVars, tVars>>
    \/ /\ part = "M" /\ M!Next
       /\ UNCHANGED <<part, wVars, rVars, aVars, xVars, gVars, qVars, uVars, nVars,
                      sVars, oVars, vVars, lVars, pVars, fVars, kVars, tVars>>
    \/ /\ part = "F" /\ F!Next /\ Few
       /\ UNCHANGED <<part, wVars, rVars, aVars, xVars, gVars, qVars, uVars, nVars,
                      sVars, oVars, vVars, lVars, pVars, mVars, kVars, tVars>>
    \/ /\ part = "K" /\ K!Next
       /\ UNCHANGED <<part, wVars, rVars, aVars, xVars, gVars, qVars, uVars, nVars,
                      sVars, oVars, vVars, lVars, pVars, mVars, fVars, tVars>>
    \/ /\ part = "T" /\ T!Next /\ UpToCut
       /\ UNCHANGED <<part, wVars, rVars, aVars, xVars, gVars, qVars, uVars, nVars,
                      sVars, oVars, vVars, lVars, pVars, mVars, fVars, kVars>>

Spec == Init /\ [][Next]_vars

(* The values that stand for none or for a malformed entry are no others.    *)
Distinct ==
    /\ Junk \notin Nat
    /\ NoValue \notin {"u", "v", Source} /\ Source \notin {"a", "b"}

(* Type correctness of the component a behaviour is of. *)
TypeOK ==
    /\ Distinct /\ part \in Parts
    /\ part = "W" => W!TypeOK
    /\ part = "R" => R!TypeOK
    /\ part = "A" => A!TypeOK
    /\ part = "X" => X!TypeOK
    /\ part = "G" => G!TypeOK
    /\ part = "Q" => Q!GuestConstants /\ Q!TypeOK
    /\ part = "U" => U!TypeOK
    /\ part = "N" => N!TypeOK
    /\ part = "S" => S!TypeOK
    /\ part = "O" => O!TypeOK
    /\ part = "V" => V!TypeOK
    /\ part = "L" => L!TypeOK
    /\ part = "P" => P!TypeOK
    /\ part = "M" => M!TypeOK
    /\ part = "F" => F!TypeOK
    /\ part = "K" => K!TypeOK
    /\ part = "T" => T!TypeOK

(* Nobody keeps rights in a wallet whose share is revoked, however the two
   sides' requests overlap (services/wallets.py 26-202); keys, deletion and
   address of a wallet are those last asked for and paid for, unless requests
   overlapped (crud/wallets.py, lightning_address.py, wallet_api.py):
   SharedWallets.RevokedStaysRevoked, Wallets.WalletsKeepWrites, PaidAddressIsSet. *)
WalletsAreRight ==
    /\ part = "W" => W!RevokedStaysRevoked
    /\ part = "V" => V!WalletsKeepWrites /\ V!PaidAddressIsSet

(* What a service outside is asked, and what is paid to it, is what was agreed
   and allowed (services/lnurl.py); of the releases of an extension the newest
   is listed, and its row remembers what was paid for it and is asked of it
   (models/extensions.py); the payments and the channels of the node are shown
   as they are (nodes/lndrest.py, cln.py, phoenixd.py); and a fiat provider is
   asked the amount of the invoice, with the settings of now, what it charges
   for a subscription is booked for its wallet, and its wallet can end it
   (fiat/*.py, callback_api.py); and the price of a bitcoin is the one most
   exchanges quote (utils/exchange_rates.py): Lnurl.PaidAsAsked, AskedIsAllowed,
   Releases.ListIsNewest, RowsRemember, NodeManager.PagesAreWhole,
   ChannelsAreTrue, FiatSubscriptions.CyclesAreBooked, CancelIsTheOwners,
   OneCustomer, FiatProviders.ClientsAreCurrent, HookIsTrusted, QuotesAreClose, PricesAreClose. *)
DealingsAreRight ==
    /\ part = "L" => L!PaidAsAsked /\ L!AskedIsAllowed
    /\ part = "P" => P!ListIsNewest /\ P!RowsRemember
    /\ part = "M" => M!PagesAreWhole /\ M!ChannelsAreTrue
    /\ part = "F" => F!CyclesAreBooked /\ F!CancelIsTheOwners /\ F!OneCustomer
    /\ part = "K" => K!ClientsAreCurrent /\ K!HookIsTrusted /\ K!QuotesAreClose /\ K!PricesAreClose

(* One invitation code makes one user and one installation is done; a name
   leads to one account, whose password and activation are those last asked
   for; unless requests overlapped (services/users.py, auth_api.py, user_api.py).
   A server starts again with the whole schema, and who installed it stays the
   superuser (core/helpers.py 46-130, core/migrations.py, services/users.py 159-215,
   crud/settings.py):
   Registrations.CodeIsUsedOnce, Accounts.NamesBelongToOne, AccountsKeepWrites,
   Logins.InstalledOnce, ServerStart.SchemaIsWhole, StartsAgain, OwnerStays,
   FileNamesSuper. *)
AccountsAreRight ==
    /\ part = "R" => R!CodeIsUsedOnce
    /\ part = "N" => N!NamesBelongToOne /\ N!AccountsKeepWrites
    /\ part = "O" => O!InstalledOnce
    /\ part = "T" => T!SchemaIsWhole /\ T!StartsAgain /\ T!OwnerStays /\ T!FileNamesSuper

(* A key that is revoked or reset, and a token of an account that is
   deactivated or deleted, are not served for longer than the cache keeps them,
   a deleted API token not at all; wrong passwords are slowed down, and an
   administrator's own token waits for him (decorators.py, utils/cache.py,
   auth_api.py): AuthCache.StaleKeyExpires, Sessions.SessionsEnd,
   DeletedTokensAreRefused, Logins.GuessesAreLimited, AdminIsSetAside. *)
AccessEnds ==
    /\ part = "A" => A!StaleKeyExpires
    /\ part = "S" => S!SessionsEnd /\ S!DeletedTokensAreRefused
    /\ part = "O" => O!GuessesAreLimited /\ O!AdminIsSetAside

(* An extension that is active is answered, by code whose migrations were run
   (services/extensions.py 186-239, 639-670, app.py 274-568). *)
ActiveIsServed == part = "X" => X!ActiveIsServed

(* A guest is served nothing its config.json does not name, acts for its own
   user or owner, and keeps a source to the rows of its policy
   (wasm_ext/api/permissions.py, host.py, storage/crud.py):
   WasmGrants.ServedIsRequested, WasmGuests.GuestsActForOwners, AppendsKeepToLimit,
   ClientsAreSent.                                                            *)
GuestsKeepToGrants ==
    /\ part = "G" => G!ServedIsRequested
    /\ part = "Q" => Q!GuestsActForOwners /\ Q!AppendsKeepToLimit /\ Q!ClientsAreSent

(* What a user removed stays removed, and what he paid for can be enabled,
   unless his own requests overlapped (views/extension_api.py 300-585, 784-842):
   UserExtensions.RemovedStaysRemoved, PaidEnables. *)
UserExtensionsLast == part = "U" => U!RemovedStaysRemoved /\ U!PaidEnables
-----------------------------------------------------------------------------
LEMMA GuestsConstants == Distinct => Q!GuestConstants
<1>1. Q!IsFiniteSet({"a"})
  BY Q!FS_Singleton
<1>2. Q!IsFiniteSet({"a"} \union {"b"})
  BY <1>1, Q!FS_AddElement
<1>3. {"a"} \union {"b"} = {"a", "b"}
  OBVIOUS
<1> QED
  BY <1>2, <1>3 DEF Distinct, Q!GuestConstants

LEMMA GrantsRun == Spec => G!Spec
<1>1. Init => G!Init
  BY DEF Init
<1>2. GrantedOnce => G!Next
  BY DEF GrantedOnce, G!Next
<1>3. [Next]_vars => [G!Next]_(G!vars)
  BY <1>2 DEF Next, vars, gVars, G!vars
<1> QED
  BY <1>1, <1>3, PTL DEF Spec, G!Spec

LEMMA GuestsRun == Spec => Q!Spec
<1>1. Init => Q!Init
  BY DEF Init
<1>2. [Next]_vars => [Q!Next]_(Q!vars)
  BY DEF Next, vars, qVars, Q!vars, Q!hubVars
<1> QED
  BY <1>1, <1>2, PTL DEF Spec, Q!Spec

(* A guest is served what its config.json names, acts for its own user or    *)
(* owner and keeps to the rows of its policy, as the general theorems about  *)
(* WasmGrants and WasmGuests say (permissions.py, host.py, storage/crud.py). *)
THEOREM GuestsKeep == Distinct => (Spec => []GuestsKeepToGrants)
<1> SUFFICES ASSUME Distinct PROVE Spec => []GuestsKeepToGrants
  OBVIOUS
<1>1. Spec => []G!ServedIsRequested
  BY GrantsRun, ServedAreRequested
<1>2. Spec => [](Q!GuestsActForOwners /\ Q!AppendsKeepToLimit /\ Q!ClientsAreSent)
  <2>1. Q!GuestConstants
    BY GuestsConstants
  <2>2. /\ Q!Spec => []Q!GuestsActForOwners
        /\ Q!Spec => []Q!AppendsKeepToLimit
        /\ Q!Spec => []Q!ClientsAreSent
    BY <2>1, Q!GuestsAct, Q!AppendsAreLimited, Q!ClientsHear
  <2> QED
    BY <2>2, GuestsRun, PTL
<1>3. /\ G!ServedIsRequested
      /\ Q!GuestsActForOwners /\ Q!AppendsKeepToLimit /\ Q!ClientsAreSent
      => GuestsKeepToGrants
  BY DEF GuestsKeepToGrants
<1> QED
  BY <1>1, <1>2, <1>3, PTL

LEMMA ExtensionsRun == Spec => X!Spec
<1>1. Init => X!Init
  BY DEF Init
<1>2. [Next]_vars => [X!Next]_(X!vars)
  BY DEF Next, vars, xVars, X!vars
<1> QED
  BY <1>1, <1>2, PTL DEF Spec, X!Spec

(* An extension that is active is answered, by code whose migrations were    *)
(* run, as the theorem about any number of releases says                     *)
(* (services/extensions.py 186-239, 639-670, app.py 274-568).                *)
THEOREM ActiveServed == Spec => []ActiveIsServed
<1>1. X!ActiveIsServed => ActiveIsServed
  BY DEF ActiveIsServed
<1> QED
  BY <1>1, ExtensionsRun, ActiveAreServed, PTL

LEMMA SharingRun == Spec => W!Spec
<1>1. Init => W!Init
  BY DEF Init
<1>2. [Next]_vars => [W!Next]_(W!vars)
  BY DEF Next, vars, wVars, W!vars
<1> QED
  BY <1>1, <1>2, PTL DEF Spec, W!Spec

LEMMA WalletsRun == Spec => V!Spec
<1>1. Init => V!Init
  BY DEF Init
<1>2. [Next]_vars => [V!Next]_(V!vars)
  BY DEF Next, vars, vVars, V!vars
<1> QED
  BY <1>1, <1>2, PTL DEF Spec, V!Spec

LEMMA RegistrationsRun == Spec => R!Spec
<1>1. Init => R!Init
  BY DEF Init
<1>2. [Next]_vars => [R!Next]_(R!vars)
  BY DEF Next, vars, rVars, R!vars
<1> QED
  BY <1>1, <1>2, PTL DEF Spec, R!Spec

LEMMA AccountsRun == Spec => N!Spec
<1>1. Init => N!Init
  BY DEF Init
<1>2. [Next]_vars => [N!Next]_(N!vars)
  BY DEF Next, vars, nVars, N!vars
<1> QED
  BY <1>1, <1>2, PTL DEF Spec, N!Spec

LEMMA LoginsRun == Spec => O!Spec
<1>1. Init => O!Init
  BY DEF Init
<1>2. [Next]_vars => [O!Next]_(O!vars)
  BY DEF Next, vars, oVars, O!vars
<1> QED
  BY <1>1, <1>2, PTL DEF Spec, O!Spec

LEMMA StartsRun == Spec => T!Spec
<1>1. Init => T!Init
  BY DEF Init
<1>2. [Next]_vars => [T!Next]_(T!vars)
  BY DEF Next, vars, tVars, T!vars
<1> QED
  BY <1>1, <1>2, PTL DEF Spec, T!Spec

LEMMA KeysRun == Spec => A!Spec
<1>1. Init => A!Init
  BY DEF Init
<1>2. [Next]_vars => [A!Next]_(A!vars)
  BY DEF Next, vars, aVars, A!vars
<1> QED
  BY <1>1, <1>2, PTL DEF Spec, A!Spec

LEMMA SessionsRun == Spec => S!Spec
<1>1. Init => S!Init
  BY DEF Init
<1>2. [Next]_vars => [S!Next]_(S!vars)
  BY DEF Next, vars, sVars, S!vars
<1> QED
  BY <1>1, <1>2, PTL DEF Spec, S!Spec

LEMMA CatalogRun == Spec => U!Spec
<1>1. Init => U!Init
  BY DEF Init
<1>2. [Next]_vars => [U!Next]_(U!vars)
  BY DEF Next, vars, uVars, U!vars
<1> QED
  BY <1>1, <1>2, PTL DEF Spec, U!Spec

LEMMA LnurlRun == Spec => L!Spec
<1>1. Init => L!Init
  BY DEF Init
<1>2. [Next]_vars => [L!Next]_(L!vars)
  BY DEF Next, vars, lVars, L!vars
<1> QED
  BY <1>1, <1>2, PTL DEF Spec, L!Spec

LEMMA ReleasesRun == Spec => P!Spec
<1>1. Init => P!Init
  BY DEF Init
<1>2. [Next]_vars => [P!Next]_(P!vars)
  BY DEF Next, vars, pVars, P!vars
<1> QED
  BY <1>1, <1>2, PTL DEF Spec, P!Spec

LEMMA NodeRun == Spec => M!Spec
<1>1. Init => M!Init
  BY DEF Init
<1>2. [Next]_vars => [M!Next]_(M!vars)
  BY DEF Next, vars, mVars, M!vars
<1> QED
  BY <1>1, <1>2, PTL DEF Spec, M!Spec

LEMMA SubscriptionsRun == Spec => F!Spec
<1>1. Init => F!Init
  BY DEF Init
<1>2. [Next]_vars => [F!Next]_(F!vars)
  BY DEF Next, vars, fVars, F!vars
<1> QED
  BY <1>1, <1>2, PTL DEF Spec, F!Spec

LEMMA ProvidersRun == Spec => K!Spec
<1>1. Init => K!Init
  BY DEF Init
<1>2. [Next]_vars => [K!Next]_(K!vars)
  BY DEF Next, vars, kVars, K!vars
<1> QED
  BY <1>1, <1>2, PTL DEF Spec, K!Spec

(* The component a behaviour is of has its types, as the invariants of the    *)
(* proofs about each say (all of the code they model).                        *)
THEOREM TypesStayRight == Distinct => (Spec => []TypeOK)
<1> SUFFICES ASSUME Distinct PROVE Spec => []TypeOK
  OBVIOUS
<1>1. Spec => [](W!TypeOK /\ R!TypeOK /\ A!TypeOK /\ U!TypeOK)
  <2>1. (WInv => W!TypeOK) /\ (RInv => R!TypeOK) /\ (AInv => A!TypeOK) /\ (UInv => U!TypeOK)
    BY DEF WInv, RInv, AInv, UInv
  <2> QED
    BY <2>1, SharingRun, WInvHolds, RegistrationsRun, RInvHolds, KeysRun, StaleKeysExpire,
       CatalogRun, UInvHolds, PTL
<1>2. Spec => [](N!TypeOK /\ S!TypeOK /\ O!TypeOK /\ V!TypeOK /\ T!TypeOK)
  <2>1. /\ NInv => N!TypeOK
        /\ SInv => S!TypeOK
        /\ VInv => V!TypeOK
        /\ TInv => T!TypeOK
    BY DEF NInv, SInv, VInv, TInv
  <2> QED
    BY <2>1, AccountsRun, NInvHolds, SessionsRun, SInvHolds, LoginsRun, OInvHolds, OTypes,
       WalletsRun, VInvHolds, StartsRun, TInvHolds, PTL
<1>3. Spec => [](X!TypeOK /\ G!TypeOK /\ Q!TypeOK)
  <2>1. (XInv => X!TypeOK) /\ (GInv => G!TypeOK)
    BY DEF XInv, GInv
  <2>2. Q!Spec => []Q!TypeOK
    BY GuestsConstants, Q!TypesHold
  <2> QED
    BY <2>1, <2>2, ExtensionsRun, XInvHolds, GrantsRun, GInvHolds, GuestsRun, PTL
<1>4. Spec => [](L!TypeOK /\ P!TypeOK /\ M!TypeOK /\ F!TypeOK /\ K!TypeOK)
  <2>1. /\ LInv => L!TypeOK
        /\ PInv => P!TypeOK
        /\ MInv => M!TypeOK
        /\ FInv => F!TypeOK
        /\ KInv => K!TypeOK
    BY DEF LInv, PInv, MInv, FInv, FBase, KInv
  <2> QED
    BY <2>1, LnurlRun, LInvHolds, ReleasesRun, PInvHolds, NodeRun, MInvHolds,
       SubscriptionsRun, FInvHolds, ProvidersRun, KInvHolds, PTL
<1>5. Spec => [](part \in Parts)
  <2>1. Init => part \in Parts
    BY DEF Init
  <2>2. part \in Parts /\ [Next]_vars => (part \in Parts)'
    BY DEF Next, vars, Parts
  <2> QED
    BY <2>1, <2>2, PTL DEF Spec
<1>6. /\ W!TypeOK /\ R!TypeOK /\ A!TypeOK /\ U!TypeOK
      /\ N!TypeOK /\ S!TypeOK /\ O!TypeOK /\ V!TypeOK /\ T!TypeOK
      /\ X!TypeOK /\ G!TypeOK /\ Q!TypeOK
      /\ L!TypeOK /\ P!TypeOK /\ M!TypeOK /\ F!TypeOK /\ K!TypeOK
      /\ part \in Parts
      => TypeOK
  BY GuestsConstants DEF TypeOK
<1> QED
  BY <1>1, <1>2, <1>3, <1>4, <1>5, <1>6, PTL

(* Nobody keeps rights in a wallet whose share is revoked, and a wallet keeps *)
(* its keys, its deletion and the address it paid for, as the theorems about   *)
(* SharedWallets and Wallets say of any number of mirrors and requests         *)
(* (services/wallets.py 26-202, crud/wallets.py, lightning_address.py).        *)
THEOREM WalletsStayRight == Spec => []WalletsAreRight
<1>1. W!RevokedStaysRevoked /\ V!WalletsKeepWrites /\ V!PaidAddressIsSet => WalletsAreRight
  BY DEF WalletsAreRight
<1> QED
  BY <1>1, SharingRun, RevokedStaysRevoked, WalletsRun, WalletsAreKept, PTL

(* A code makes one user, a name leads to one account with the password and    *)
(* the activation last asked for, one installation is done, and the server     *)
(* starts again with its superuser, as the theorems about Registrations,       *)
(* Accounts, Logins and ServerStart say of any number of requests              *)
(* (services/users.py, auth_api.py, core/helpers.py 46-130).                   *)
THEOREM AccountsStayRight == Spec => []AccountsAreRight
<1>1. /\ R!CodeIsUsedOnce
      /\ N!NamesBelongToOne /\ N!AccountsKeepWrites
      /\ O!InstalledOnce
      /\ T!SchemaIsWhole /\ T!StartsAgain /\ T!OwnerStays /\ T!FileNamesSuper
      => AccountsAreRight
  BY DEF AccountsAreRight
<1> QED
  BY <1>1, RegistrationsRun, CodesAreUsedOnce, AccountsRun, NamesAndSecretsLast, LoginsRun, InstalledIsOnce,
     StartsRun, ServersStart, PTL

(* Access ends: of keys and tokens when the cache forgets them, of guessed     *)
(* passwords at the limit, and of an administrator's second token, as the      *)
(* theorems about AuthCache, Sessions and Logins say (decorators.py,           *)
(* utils/cache.py, auth_api.py).                                               *)
THEOREM AccessAlwaysEnds == Spec => []AccessEnds
<1>1. /\ A!StaleKeyExpires
      /\ S!SessionsEnd /\ S!DeletedTokensAreRefused
      /\ O!GuessesAreLimited /\ O!AdminIsSetAside
      => AccessEnds
  BY DEF AccessEnds
<1>2. AInv => A!StaleKeyExpires
  BY DEF AInv
<1> QED
  BY <1>1, <1>2, KeysRun, StaleKeysExpire, SessionsRun, SessionsEnd, LoginsRun, AccessIsLimited, PTL

(* What a user removed stays removed and what he paid for can be enabled, as   *)
(* the theorems about UserExtensions say of any number of wallets, hashes and  *)
(* requests (views/extension_api.py 300-585, 784-842).                         *)
THEOREM ExtensionsLast == Spec => []UserExtensionsLast
<1>1. U!RemovedStaysRemoved /\ U!PaidEnables => UserExtensionsLast
  BY DEF UserExtensionsLast
<1> QED
  BY <1>1, CatalogRun, RemovedStaysRemoved, PaidEnables, PTL

(* What services outside are asked and paid, what the catalog lists, what the  *)
(* node and the fiat providers are told of, and the price of a bitcoin, as the *)
(* theorems about Lnurl, Releases, NodeManager, FiatSubscriptions and          *)
(* FiatProviders say of any number of redirects, manifests, pages, cycles and  *)
(* exchanges (services/lnurl.py, models/extensions.py, nodes/*.py, fiat/*.py,  *)
(* utils/exchange_rates.py).                                                   *)
THEOREM DealingsStayRight == Spec => []DealingsAreRight
<1>1. /\ L!PaidAsAsked /\ L!AskedIsAllowed
      /\ P!ListIsNewest /\ P!RowsRemember
      /\ M!PagesAreWhole /\ M!ChannelsAreTrue
      /\ F!CyclesAreBooked /\ F!CancelIsTheOwners /\ F!OneCustomer
      /\ K!ClientsAreCurrent /\ K!HookIsTrusted /\ K!QuotesAreClose /\ K!PricesAreClose
      => DealingsAreRight
  BY DEF DealingsAreRight
<1> QED
  BY <1>1, LnurlRun, LnurlKeepsToRules, ReleasesRun, CatalogIsRight, NodeRun, NodeIsShownRight,
     SubscriptionsRun, SubscriptionsStayRight, ProvidersRun, ProvidersStayRight, PTL
=============================================================================
