---------------------------- MODULE GuestProofs ----------------------------
(***************************************************************************)
(* WasmGuests for any number of users, guests, rows and clients and any    *)
(* permissions: guests act for their owners, a source gets no more rows    *)
(* than its policy says, and whoever listens is sent what is published.    *)
(***************************************************************************)
EXTENDS WasmGuests, FiniteSetTheorems, TLAPS

Person == Users \union {NoValue}
RowType == [owner : Person, source : {Source, NoValue}, wallet : Person]
Calls == {"none", "running", "append", "bill", "pay", "lnurl", "publish"}
GuestType == [user : Person, owner : Person, event : BOOLEAN, target : Person,
              count : 0..Cardinality(Rows), call : Calls]
Ops == {"nothing", "get", "show", "page", "set", "delete", "append", "wallet", "bill",
        "pay", "unattended"}

-----------------------------------------------------------------------------
(* What a guest a, whose history is s, knows at each step of its call: a     *)
(* grant it found may be withdrawn and a row it read may change while it     *)
(* awaits, but the grant was there while it ran, and the change is recorded. *)
Knows(a, s) ==
    /\ a.user # NoValue => a.owner = a.user
    /\ a.call # "none" => grants \subseteq s
    /\ a.call = "pay" => a.target \in s
    /\ a.call = "lnurl" /\ a.user # NoValue => a.target = a.user
    /\ a.call = "append" => a.count < MaxRows
    /\ a.call = "bill" => raced \/ a.target = rows[Source].wallet
GuestsOK == \A g \in Guests : Knows(guest[g], seen[g])

(* Who was there at a publication and is not sent it any more has left.      *)
HubOK ==
    /\ clients \intersect gone = {}
    /\ \A p \in Publishers : /\ missed[p] \subseteq clients \union gone
                             /\ missed[p] \intersect clients \subseteq sending[p]

(* A guest that has something to send is in the call that sends it.          *)
SendersOK == \A g \in Guests : sending[g] # {} => guest[g].call = "publish"

IInv == TypeOK /\ GuestsOK /\ HubOK /\ SendersOK /\ GuestsActForOwners /\ AppendsKeepToLimit

LEMMA Types ==
  ASSUME TypeOK, GuestConstants
  PROVE  /\ rows \in [Ids -> RowType] /\ guest \in [Guests -> GuestType]
         /\ NoRow \in RowType /\ Idle \in GuestType /\ Source \in Ids /\ Rows \subseteq Ids
         /\ IsFiniteSet(Rows) /\ Cardinality(Rows) \in Nat /\ MaxRows \in Nat
BY FS_CardinalityType DEF TypeOK, GuestConstants, RowType, GuestType, Person, Calls, NoRow, Idle, Ids

LEMMA RowsOfCounts ==
  ASSUME GuestConstants, NEW u
  PROVE  /\ IsFiniteSet(RowsOf(u))
         /\ Cardinality(RowsOf(u)) \in 0..Cardinality(Rows)
<1>1. IsFiniteSet(Rows) /\ RowsOf(u) \subseteq Rows
  BY DEF GuestConstants, RowsOf
<1>2. /\ IsFiniteSet(RowsOf(u))
      /\ Cardinality(RowsOf(u)) <= Cardinality(Rows)
  BY <1>1, FS_Subset
<1> QED BY <1>1, <1>2, FS_CardinalityType

-----------------------------------------------------------------------------
(* A step of a guest that changes nothing but its own call.                  *)
LEMMA CallMoves ==
  ASSUME GuestConstants, IInv, NEW g \in Guests, NEW a \in GuestType,
         \/ guest' = guest
         \/ guest[g].call # "publish" /\ guest' = [guest EXCEPT ![g] = a],
         Knows(a, seen[g]),
         UNCHANGED <<permissions, grants, rows, seen, raced, watched, hubVars>>,
         last'.op \in Ops, GuestsActForOwners'
  PROVE  IInv'
<1> USE DEF IInv
<1>1. guest \in [Guests -> GuestType]
  BY Types
<1>2. guest' \in [Guests -> GuestType]
  BY <1>1
<1>3. TypeOK'
  BY <1>2 DEF TypeOK, GuestType, Person, Calls, Ops, hubVars
<1>4. GuestsOK'
  BY <1>1 DEF GuestsOK, Knows
<1>5. HubOK' /\ SendersOK'
  BY <1>1 DEF HubOK, SendersOK, hubVars
<1>6. AppendsKeepToLimit'
  BY DEF AppendsKeepToLimit, RowsOf
<1> QED BY <1>3, <1>4, <1>5, <1>6

(* Nothing but the last deed is recorded.                                    *)
LEMMA Looks ==
  ASSUME GuestConstants, IInv, NEW g \in Guests,
         UNCHANGED <<permissions, grants, rows, guest, seen, raced, watched, hubVars>>,
         last'.op \in Ops, GuestsActForOwners'
  PROVE  IInv'
<1>1. guest[g] \in GuestType /\ Knows(guest[g], seen[g])
  BY Types DEF IInv, GuestsOK
<1> QED BY <1>1, CallMoves

LEMMA NothingIsRight ==
  ASSUME last' = Nothing PROVE last'.op \in Ops /\ GuestsActForOwners'
BY DEF Nothing, Ops, GuestsActForOwners

LEMMA StartKeeps ==
  ASSUME GuestConstants, IInv, NEW g \in Guests, NEW user \in Person, NEW owner \in Person,
         NEW event \in BOOLEAN, user # NoValue => owner = user, Start(g, user, owner, event)
  PROVE  IInv'
<1> USE DEF IInv
<1> DEFINE a == [Idle EXCEPT !.user = user, !.owner = owner, !.event = event, !.call = "running"]
<1>1. /\ guest' = [guest EXCEPT ![g] = a] /\ seen' = [seen EXCEPT ![g] = grants]
      /\ UNCHANGED <<permissions, grants, rows, raced, watched, hubVars>>
      /\ last' = Nothing
  BY DEF Start
<1>2. guest \in [Guests -> GuestType] /\ a \in GuestType
  BY Types DEF GuestType, Calls, Idle
<1>3. a.user = user /\ a.owner = owner /\ a.call = "running"
  BY DEF Idle
<1> HIDE DEF a
<1>4. TypeOK'
  <2>1. guest' \in [Guests -> GuestType]
    BY <1>1, <1>2
  <2>2. seen' \in [Guests -> SUBSET Users]
    BY <1>1 DEF TypeOK
  <2> QED BY <1>1, <2>1, <2>2, NothingIsRight DEF TypeOK, GuestType, Person, Calls, Ops, hubVars
<1>5. GuestsOK'
  BY <1>1, <1>2, <1>3 DEF GuestsOK, Knows, TypeOK
<1>6. HubOK' /\ SendersOK'
  BY <1>1, <1>2 DEF HubOK, SendersOK, hubVars, Start, Idle
<1>7. AppendsKeepToLimit' /\ GuestsActForOwners'
  BY <1>1, NothingIsRight DEF AppendsKeepToLimit, RowsOf
<1> QED BY <1>4, <1>5, <1>6, <1>7

LEMMA StartsKeep ==
  ASSUME GuestConstants, IInv, NEW g \in Guests,
         StartForUser(g) \/ StartPublic(g) \/ StartForSource(g) \/ StartForEvent(g)
  PROVE  IInv'
<1>1. rows[Source].owner \in Person /\ watched \subseteq Users
  BY Types DEF IInv, TypeOK, RowType
<1>2. \A owner \in EventOwners : owner \in Person
  BY <1>1 DEF EventOwners, InvoicesOwners, SourceOwner, Watches, Person
<1>3. CASE StartForUser(g)
  BY <1>3, StartKeeps DEF StartForUser, Person
<1>4. CASE StartPublic(g)
  BY <1>4, StartKeeps DEF StartPublic, Person
<1>5. CASE StartForSource(g)
  BY <1>1, <1>5, StartKeeps DEF StartForSource, Person
<1>6. CASE StartForEvent(g)
  BY <1>2, <1>6, StartKeeps DEF StartForEvent, Person
<1> QED BY <1>3, <1>4, <1>5, <1>6

LEMMA FinishKeeps ==
  ASSUME GuestConstants, IInv, NEW g \in Guests, Finish(g)
  PROVE  IInv'
<1> USE DEF IInv
<1>1. /\ guest' = [guest EXCEPT ![g] = Idle] /\ seen' = [seen EXCEPT ![g] = {}]
      /\ UNCHANGED <<permissions, grants, rows, raced, watched, hubVars>>
      /\ last' = Nothing
  BY DEF Finish
<1>2. guest \in [Guests -> GuestType] /\ Idle \in GuestType
  BY Types
<1>3. Idle.user = NoValue /\ Idle.call = "none"
  BY DEF Idle
<1>4. TypeOK'
  <2>1. guest' \in [Guests -> GuestType]
    BY <1>1, <1>2
  <2>2. seen' \in [Guests -> SUBSET Users]
    BY <1>1 DEF TypeOK
  <2> QED BY <1>1, <2>1, <2>2, NothingIsRight DEF TypeOK, GuestType, Person, Calls, Ops, hubVars
<1>5. GuestsOK'
  BY <1>1, <1>2, <1>3 DEF GuestsOK, Knows, TypeOK
<1>6. HubOK' /\ SendersOK'
  BY <1>1, <1>2 DEF HubOK, SendersOK, hubVars, Finish
<1>7. AppendsKeepToLimit' /\ GuestsActForOwners'
  BY <1>1, NothingIsRight DEF AppendsKeepToLimit, RowsOf
<1> QED BY <1>4, <1>5, <1>6, <1>7

(* What the guest asks and is told at once.                                  *)
LEMMA LookKeeps ==
  ASSUME GuestConstants, IInv, NEW g \in Guests,
         \/ \E id \in Ids : GetRow(g, id) \/ GetPublicRow(g, id)
         \/ GetPage(g) \/ GetPublicPage(g) \/ ListWallets(g)
         \/ \E w \in Users : PayForUser(g, w) \/ WalletBalance(g, w) \/ CreateInvoice(g, w)
  PROVE  IInv'
<1>1. Knows(guest[g], seen[g])
  BY DEF IInv, GuestsOK
<1>2. ASSUME UNCHANGED <<permissions, grants, rows, guest, seen, raced, watched, hubVars>>,
             NEW op \in {"get", "show", "page", "wallet", "pay"}, NEW whose, Did(op, g, whose),
             op \in {"get", "wallet", "pay"} => guest[g].owner = whose
      PROVE  IInv'
  <2>1. last'.op \in Ops /\ GuestsActForOwners'
    BY <1>2 DEF Did, Ops, GuestsActForOwners
  <2> QED BY <1>2, <2>1, Looks
<1>3. ASSUME NEW id \in Ids, GetRow(g, id) \/ GetPublicRow(g, id) PROVE IInv'
  <2>1. CASE GetRow(g, id)
    BY <1>2, <2>1 DEF GetRow, OwnersRow
  <2>2. CASE GetPublicRow(g, id)
    BY <1>2, <2>2 DEF GetPublicRow
  <2> QED BY <1>3, <2>1, <2>2
<1>4. CASE GetPage(g)
  <2>1. PICK id \in OwnersPage(g) : Did("get", g, rows[id].owner)
    BY <1>4 DEF GetPage
  <2>2. guest[g].owner = rows[id].owner
    BY <2>1 DEF OwnersPage, OwnersRow
  <2> QED BY <1>2, <1>4, <2>1, <2>2 DEF GetPage
<1>5. CASE GetPublicPage(g)
  BY <1>2, <1>5 DEF GetPublicPage
<1>6. ASSUME NEW w, NEW permission, UserWallet(g, permission, w) PROVE IInv'
  BY <1>1, <1>2, <1>6 DEF UserWallet, Knows
<1>7. ASSUME NEW w, PayForUser(g, w) PROVE IInv'
  BY <1>1, <1>2, <1>7 DEF PayForUser, Knows
<1> QED BY <1>3, <1>4, <1>5, <1>6, <1>7 DEF ListWallets, WalletBalance, CreateInvoice

(* What takes an await.  The target is held over it.                         *)
LEMMA PayKeeps ==
  ASSUME GuestConstants, IInv, NEW g \in Guests,
         \/ \E w \in Users : CheckGrant(g, w) \/ Fetch(g, w)
         \/ Fetched(g) \/ PayUnattended(g)
  PROVE  IInv'
<1>1. Knows(guest[g], seen[g]) /\ guest[g] \in GuestType
  BY Types DEF IInv, GuestsOK
<1>2. guest \in [Guests -> GuestType]
  BY Types DEF IInv
<1>3. ASSUME NEW w \in Users, CheckGrant(g, w) PROVE IInv'
  <2> DEFINE a == [guest[g] EXCEPT !.call = "pay", !.target = w]
  <2>1. guest' = [guest EXCEPT ![g] = a]
    BY <1>1, <1>2, <1>3 DEF CheckGrant, AllowAlways
  <2>2. a \in GuestType /\ Knows(a, seen[g])
    BY <1>1, <1>3 DEF GuestType, Person, Calls, Knows, CheckGrant, AllowAlways
  <2> HIDE DEF a
  <2> QED BY <1>3, <2>1, <2>2, CallMoves, NothingIsRight DEF CheckGrant, AllowAlways
<1>4. ASSUME NEW w \in Users, Fetch(g, w) PROVE IInv'
  <2> DEFINE a == [guest[g] EXCEPT !.call = "lnurl", !.target = w]
  <2>1. guest' = [guest EXCEPT ![g] = a]
    BY <1>1, <1>2, <1>4 DEF Fetch
  <2>2. a \in GuestType /\ Knows(a, seen[g])
    BY <1>1, <1>4 DEF GuestType, Person, Calls, Knows, Fetch
  <2> HIDE DEF a
  <2> QED BY <1>4, <2>1, <2>2, CallMoves, NothingIsRight DEF Fetch
<1> DEFINE back == [guest[g] EXCEPT !.call = "running", !.target = NoValue]
           pays == [guest[g] EXCEPT !.call = "pay"]
<1>5. ASSUME guest[g].call # "none"
      PROVE  back \in GuestType /\ Knows(back, seen[g])
  BY <1>1, <1>5 DEF GuestType, Person, Calls, Knows
<1>6. ASSUME guest[g].call # "none", guest[g].target \in grants
      PROVE  pays \in GuestType /\ Knows(pays, seen[g])
  BY <1>1, <1>6 DEF GuestType, Person, Calls, Knows
<1>7. CASE Fetched(g)
  <2>1. CASE /\ guest[g].user # NoValue /\ Did("pay", g, guest[g].target)
             /\ guest' = [guest EXCEPT ![g].call = "running", ![g].target = NoValue]
    <3>1. guest' = [guest EXCEPT ![g] = back]
      BY <1>1, <1>2, <2>1
    <3>2. last'.op \in Ops /\ GuestsActForOwners'
      BY <1>1, <1>7, <2>1 DEF Fetched, Did, Ops, GuestsActForOwners, Knows
    <3>3. back \in GuestType /\ Knows(back, seen[g])
      BY <1>5, <1>7 DEF Fetched
    <3> HIDE DEF back
    <3> QED BY <1>7, <3>1, <3>2, <3>3, CallMoves DEF Fetched
  <2>2. CASE /\ guest[g].target \in grants /\ last' = Nothing
             /\ guest' = [guest EXCEPT ![g].call = "pay"]
    <3>1. guest' = [guest EXCEPT ![g] = pays]
      BY <1>1, <1>2, <2>2
    <3>2. pays \in GuestType /\ Knows(pays, seen[g])
      BY <1>6, <1>7, <2>2 DEF Fetched
    <3> HIDE DEF pays
    <3> QED BY <1>7, <2>2, <3>1, <3>2, CallMoves, NothingIsRight DEF Fetched
  <2>3. CASE /\ guest' = [guest EXCEPT ![g].call = "running", ![g].target = NoValue]
             /\ last' = Nothing
    <3>1. guest' = [guest EXCEPT ![g] = back]
      BY <1>1, <1>2, <2>3
    <3>2. back \in GuestType /\ Knows(back, seen[g])
      BY <1>5, <1>7 DEF Fetched
    <3> HIDE DEF back
    <3> QED BY <1>7, <2>3, <3>1, <3>2, CallMoves, NothingIsRight DEF Fetched
  <2> QED BY <1>7, <2>1, <2>2, <2>3 DEF Fetched
<1>8. CASE PayUnattended(g)
  <2>1. guest' = [guest EXCEPT ![g] = back]
    BY <1>1, <1>2, <1>8 DEF PayUnattended
  <2>2. last'.op \in Ops /\ GuestsActForOwners'
    BY <1>1, <1>8 DEF PayUnattended, Did, Ops, GuestsActForOwners, Knows
  <2>3. back \in GuestType /\ Knows(back, seen[g])
    BY <1>5, <1>8 DEF PayUnattended
  <2> HIDE DEF back
  <2> QED BY <1>8, <2>1, <2>2, <2>3, CallMoves DEF PayUnattended
<1> QED BY <1>3, <1>4, <1>7, <1>8

LEMMA BillKeeps ==
  ASSUME GuestConstants, IInv, NEW g \in Guests, ReadSource(g) \/ CreateInvoicePublic(g)
  PROVE  IInv'
<1>1. Knows(guest[g], seen[g]) /\ guest[g] \in GuestType
  BY Types DEF IInv, GuestsOK
<1>2. guest \in [Guests -> GuestType] /\ rows[Source].wallet \in Person
  BY Types DEF IInv, RowType
<1>3. CASE ReadSource(g)
  <2> DEFINE a == [guest[g] EXCEPT !.call = "bill", !.target = rows[Source].wallet]
  <2>1. guest' = [guest EXCEPT ![g] = a]
    BY <1>1, <1>2, <1>3 DEF ReadSource
  <2>2. a \in GuestType /\ Knows(a, seen[g])
    BY <1>1, <1>2, <1>3 DEF GuestType, Person, Calls, Knows, ReadSource, MayCall
  <2> HIDE DEF a
  <2> QED BY <1>3, <2>1, <2>2, CallMoves, NothingIsRight DEF ReadSource, MayCall
<1>4. CASE CreateInvoicePublic(g)
  <2> DEFINE a == [guest[g] EXCEPT !.call = "running", !.target = NoValue]
  <2>1. guest' = [guest EXCEPT ![g] = a]
    BY <1>1, <1>2, <1>4 DEF CreateInvoicePublic
  <2>2. a \in GuestType /\ Knows(a, seen[g])
    BY <1>1, <1>4 DEF GuestType, Person, Calls, Knows, CreateInvoicePublic
  <2>3. last'.op \in Ops /\ GuestsActForOwners'
    BY <1>1, <1>4 DEF CreateInvoicePublic, Did, Ops, GuestsActForOwners, Knows
  <2> HIDE DEF a
  <2> QED BY <1>4, <2>1, <2>2, <2>3, CallMoves DEF CreateInvoicePublic
<1> QED BY <1>3, <1>4

LEMMA CountKeeps ==
  ASSUME GuestConstants, IInv, NEW g \in Guests, CountRows(g)
  PROVE  IInv'
<1>1. Knows(guest[g], seen[g]) /\ guest[g] \in GuestType
  BY Types DEF IInv, GuestsOK
<1>2. guest \in [Guests -> GuestType] /\ SourceOwner \in Person
  BY Types DEF IInv, RowType, SourceOwner
<1> DEFINE n == Cardinality(RowsOf(SourceOwner))
           a == [guest[g] EXCEPT !.call = "append", !.target = SourceOwner, !.count = n]
<1>3. n \in 0..Cardinality(Rows)
  BY RowsOfCounts
<1>4. n < MaxRows
  BY DEF CountRows
<1>5. guest' = [guest EXCEPT ![g] = a]
  BY <1>1, <1>2 DEF CountRows, CountUnchecked
<1>6. a \in GuestType /\ Knows(a, seen[g])
  <2> HIDE DEF n
  <2> QED BY <1>1, <1>2, <1>3, <1>4 DEF GuestType, Calls, Knows, CountRows, CountUnchecked, MayCall
<1> HIDE DEF n, a
<1> QED BY <1>5, <1>6, CallMoves, NothingIsRight DEF CountRows, CountUnchecked, MayCall

-----------------------------------------------------------------------------
(* A row is written.  What other guests have read of it is stale.            *)
LEMMA RowsChange ==
  ASSUME GuestConstants, IInv, NEW g \in Guests, NEW a \in GuestType,
         guest' = [guest EXCEPT ![g] = a] \/ guest' = guest,
         a.call \notin {"pay", "lnurl", "append", "bill"},
         guest[g].call \in {"running", "append"}, a.user = guest[g].user, a.owner = guest[g].owner,
         rows' \in [Ids -> RowType], raced' \in BOOLEAN, raced => raced',
         \A h \in Guests : guest[h].call = "bill" => raced' \/ rows'[Source] = rows[Source],
         UNCHANGED <<permissions, grants, seen, watched, hubVars>>,
         last'.op \in Ops, GuestsActForOwners', AppendsKeepToLimit'
  PROVE  IInv'
<1> USE DEF IInv
<1>1. guest \in [Guests -> GuestType]
  BY Types
<1>2. guest' \in [Guests -> GuestType]
  BY <1>1
<1>3. TypeOK'
  BY <1>2 DEF TypeOK, GuestType, RowType, Person, Calls, Ops, hubVars
<1>4. GuestsOK'
  BY <1>1 DEF GuestsOK, Knows
<1>5. HubOK' /\ SendersOK'
  BY <1>1 DEF HubOK, SendersOK, hubVars
<1> QED BY <1>3, <1>4, <1>5

LEMMA SetKeeps ==
  ASSUME GuestConstants, IInv, NEW g \in Guests, NEW id \in Settable, SetRow(g, id)
  PROVE  IInv'
<1>1. guest[g] \in GuestType /\ rows \in [Ids -> RowType] /\ id \in Ids /\ NoRow \in RowType
  BY Types DEF IInv, Settable
<1>2. PICK w \in Person :
        rows' = IF rows[id] = NoRow
                   THEN [rows EXCEPT ![id] = [NoRow EXCEPT !.owner = guest[g].owner,
                                                           !.wallet = w]]
                   ELSE [rows EXCEPT ![id].wallet = w]
  BY DEF SetRow, SetAnyRow, Nameable, Person
<1>3. PICK r \in RowType : /\ rows' = [rows EXCEPT ![id] = r] /\ r.owner = guest[g].owner
                           /\ r.source = rows[id].source
                           /\ rows[id] # NoRow => r.owner = rows[id].owner
                           /\ rows[id] = NoRow => r.source = NoValue
  <2>1. CASE rows[id] = NoRow
    <3> DEFINE r == [NoRow EXCEPT !.owner = guest[g].owner, !.wallet = w]
    <3>1. r \in RowType /\ r.owner = guest[g].owner /\ r.source = NoValue
          /\ rows[id].source = NoValue
      BY <1>1, <2>1 DEF NoRow, RowType, GuestType
    <3> QED BY <1>2, <2>1, <3>1
  <2>2. CASE rows[id] # NoRow
    <3> DEFINE r == [rows[id] EXCEPT !.wallet = w]
    <3>1. rows[id].owner = guest[g].owner
      BY <2>2 DEF SetRow
    <3>2. r \in RowType /\ r.owner = rows[id].owner /\ r.source = rows[id].source
      BY <1>1 DEF RowType
    <3>3. rows' = [rows EXCEPT ![id] = r]
      BY <1>1, <1>2, <2>2
    <3> QED BY <2>2, <3>1, <3>2, <3>3
  <2> QED BY <2>1, <2>2
<1>4. rows' \in [Ids -> RowType] /\ rows'[id] = r
  BY <1>1, <1>3
<1>5. AppendsKeepToLimit'
  <2>1. raced => raced'
    BY DEF SetRow, SetAnyRow, Changes
  <2>2. ASSUME NEW u \in Users PROVE RowsOf(u)' = RowsOf(u)
    BY <1>1, <1>3, <1>4 DEF RowsOf, GuestConstants, Ids, NoRow
  <2> QED BY <2>1, <2>2 DEF IInv, AppendsKeepToLimit
<1>6. last'.op \in Ops /\ GuestsActForOwners'
  BY <1>3, <1>4 DEF SetRow, SetAnyRow, Did, Ops, GuestsActForOwners
<1>7. raced' \in BOOLEAN /\ (raced => raced')
  BY DEF SetRow, SetAnyRow, Changes, IInv, TypeOK
<1>8. \A h \in Guests : guest[h].call = "bill" => raced' \/ rows'[Source] = rows[Source]
  BY <1>1, <1>3 DEF SetRow, SetAnyRow, Changes, GuestConstants, Ids
<1>9. guest[g].call = "running"
  BY DEF SetRow, SetAnyRow, MayCall
<1>10. UNCHANGED <<permissions, grants, guest, seen, watched, hubVars>>
  BY DEF SetRow, SetAnyRow
<1> QED BY <1>1, <1>4, <1>5, <1>6, <1>7, <1>8, <1>9, <1>10, RowsChange

LEMMA DeleteKeeps ==
  ASSUME GuestConstants, IInv, NEW g \in Guests, NEW id \in Ids, DeleteRow(g, id)
  PROVE  IInv'
<1>1. guest[g] \in GuestType /\ rows \in [Ids -> RowType] /\ NoRow \in RowType
  BY Types DEF IInv
<1>2. rows' = [rows EXCEPT ![id] = NoRow] /\ rows[id].owner = guest[g].owner
  BY DEF DeleteRow, storage_delete_row, OwnersRow
<1>3. raced' \in BOOLEAN /\ (raced => raced')
  BY DEF DeleteRow, Changes, IInv, TypeOK
<1>4. AppendsKeepToLimit'
  <2>1. ASSUME NEW u \in Users
        PROVE  Cardinality(RowsOf(u)') <= Cardinality(RowsOf(u))
               /\ Cardinality(RowsOf(u)') \in Nat /\ Cardinality(RowsOf(u)) \in Nat
    <3>1. RowsOf(u)' \subseteq RowsOf(u)
      BY <1>1, <1>2 DEF RowsOf, GuestConstants, Ids, NoRow
    <3> QED BY <3>1, RowsOfCounts, FS_Subset, FS_CardinalityType
  <2>2. raced \/ \A u \in Users : Cardinality(RowsOf(u)) <= MaxRows
    BY DEF IInv, AppendsKeepToLimit
  <2>3. raced' \/ \A u \in Users : Cardinality(RowsOf(u)') <= MaxRows
    BY <1>3, <2>1, <2>2 DEF GuestConstants
  <2> QED BY <2>3 DEF AppendsKeepToLimit
<1>5. last'.op \in Ops /\ GuestsActForOwners'
  BY <1>2 DEF DeleteRow, Did, Ops, GuestsActForOwners
<1>6. \A h \in Guests : guest[h].call = "bill" => raced' \/ rows'[Source] = rows[Source]
  BY <1>1, <1>2 DEF DeleteRow, Changes, GuestConstants, Ids
<1>7. /\ guest[g].call = "running" /\ rows' \in [Ids -> RowType]
      /\ UNCHANGED <<permissions, grants, guest, seen, watched, hubVars>>
  BY <1>1, <1>2 DEF DeleteRow, MayCall
<1> QED BY <1>1, <1>3, <1>4, <1>5, <1>6, <1>7, RowsChange

(* An append that finds as many rows as it counted leaves the limit kept.    *)
LEMMA AppendKeeps ==
  ASSUME GuestConstants, IInv, NEW g \in Guests, NEW id \in Rows, AppendRow(g, id)
  PROVE  IInv'
<1>1. /\ guest[g] \in GuestType /\ rows \in [Ids -> RowType] /\ NoRow \in RowType
      /\ guest \in [Guests -> GuestType] /\ id \in Ids /\ id # Source /\ MaxRows \in Nat
  BY Types DEF IInv, GuestConstants
<1> DEFINE r == [NoRow EXCEPT !.owner = guest[g].target, !.source = Source]
           a == [guest[g] EXCEPT !.call = "running", !.target = NoValue, !.count = 0]
           t == guest[g].target
<1>2. /\ rows' = [rows EXCEPT ![id] = r] /\ r \in RowType
      /\ r.owner = t /\ r.source = Source
  BY <1>1 DEF AppendRow, NoRow, RowType, GuestType
<1>3. /\ guest' = [guest EXCEPT ![g] = a] /\ a \in GuestType
      /\ a.call = "running" /\ a.user = guest[g].user /\ a.owner = guest[g].owner
  <2>1. 0 \in 0..Cardinality(Rows)
    BY Types DEF IInv
  <2> QED BY <1>1, <2>1 DEF AppendRow, GuestType, Calls, Person
<1>4. guest[g].call = "append" /\ guest[g].count < MaxRows /\ guest[g].count \in Nat
  BY <1>1 DEF AppendRow, IInv, GuestsOK, Knows, GuestType
<1>5. raced' \in BOOLEAN /\ (raced => raced')
      /\ (~raced' => Cardinality(RowsOf(t)) <= guest[g].count)
  <2>1. raced' = (raced \/ Cardinality(RowsOf(t)) > guest[g].count)
    BY DEF AppendRow
  <2>2. PICK n \in Nat : n = Cardinality(RowsOf(t))
    BY RowsOfCounts
  <2>3. PICK m \in Nat : m = guest[g].count
    BY <1>4
  <2>4. raced' = (raced \/ n > m) /\ raced \in BOOLEAN
    BY <2>1, <2>2, <2>3 DEF IInv, TypeOK
  <2> HIDE DEF t
  <2>5. raced' \in BOOLEAN /\ (raced => raced') /\ (~raced' => ~(n > m))
    BY <2>4
  <2> QED BY <2>2, <2>3, <2>5
<1> HIDE DEF r, a, t
<1>6. AppendsKeepToLimit'
  <2> SUFFICES ASSUME ~raced', NEW u \in Users PROVE Cardinality(RowsOf(u)') <= MaxRows
    BY DEF AppendsKeepToLimit
  <2>1. CASE u = t
    <3>1. RowsOf(u)' \subseteq RowsOf(u) \union {id}
      BY <1>1, <1>2 DEF RowsOf, Ids
    <3>2. PICK n \in Nat : n = Cardinality(RowsOf(u))
      BY RowsOfCounts
    <3>3. IsFiniteSet(RowsOf(u) \union {id})
          /\ Cardinality(RowsOf(u) \union {id}) \in Nat
          /\ Cardinality(RowsOf(u) \union {id}) <= n + 1
      <4>1. IsFiniteSet(RowsOf(u))
        BY RowsOfCounts
      <4>2. /\ IsFiniteSet(RowsOf(u) \union {id})
            /\ \/ Cardinality(RowsOf(u) \union {id}) = n
               \/ Cardinality(RowsOf(u) \union {id}) = n + 1
        BY <3>2, <4>1, FS_AddElement
      <4> QED BY <4>2
    <3>4. /\ Cardinality(RowsOf(u)') <= Cardinality(RowsOf(u) \union {id})
          /\ Cardinality(RowsOf(u)') \in Nat
      BY <3>1, <3>3, FS_Subset, FS_CardinalityType
    <3>5. n <= guest[g].count
      BY <1>5, <2>1, <3>2
    <3> QED BY <1>1, <1>4, <3>2, <3>3, <3>4, <3>5
  <2>2. CASE u # t
    <3>1. RowsOf(u)' \subseteq RowsOf(u)
      BY <1>1, <1>2, <2>2 DEF RowsOf, Ids
    <3>2. Cardinality(RowsOf(u)) <= MaxRows
      BY <1>5 DEF IInv, AppendsKeepToLimit
    <3>3. Cardinality(RowsOf(u)') <= Cardinality(RowsOf(u))
          /\ Cardinality(RowsOf(u)') \in Nat /\ Cardinality(RowsOf(u)) \in Nat
      BY <3>1, RowsOfCounts, FS_Subset, FS_CardinalityType
    <3> QED BY <1>1, <3>2, <3>3
  <2> QED BY <2>1, <2>2
<1>7. last'.op \in Ops /\ GuestsActForOwners'
  BY DEF AppendRow, Did, Ops, GuestsActForOwners
<1>8. rows' \in [Ids -> RowType] /\ rows'[Source] = rows[Source]
  BY <1>1, <1>2
<1>9. UNCHANGED <<permissions, grants, seen, watched, hubVars>>
  BY DEF AppendRow
<1> QED BY <1>3, <1>4, <1>5, <1>6, <1>7, <1>8, <1>9, RowsChange

-----------------------------------------------------------------------------
(* The users' own requests.                                                  *)
LEMMA UsersKeep ==
  ASSUME GuestConstants, IInv, NEW u \in Users, Grant(u) \/ Ungrant(u) \/ Watch(u) \/ Unwatch(u)
  PROVE  IInv'
<1> USE DEF IInv
<1>1. /\ UNCHANGED <<permissions, rows, guest, raced, hubVars>> /\ last' = Nothing
      /\ grants' \subseteq Users /\ watched' \subseteq Users
      /\ seen' \in [Guests -> SUBSET Users]
  BY DEF Grant, Ungrant, Watch, Unwatch, TypeOK
<1>2. TypeOK'
  BY <1>1, NothingIsRight DEF TypeOK, Ops, hubVars
<1>3. GuestsOK'
  <2>1. CASE Grant(u)
    <3>1. \A g \in Guests : guest[g].call # "none" => guest[g] # Idle
      BY DEF Idle
    <3>2. \A g \in Guests : guest[g].call # "none" => seen'[g] = seen[g] \union {u}
      BY <2>1, <3>1 DEF Grant
    <3> QED BY <1>1, <2>1, <3>2 DEF Grant, GuestsOK, Knows
  <2>2. CASE ~Grant(u)
    BY <1>1, <2>2 DEF Ungrant, Watch, Unwatch, GuestsOK, Knows
  <2> QED BY <2>1, <2>2
<1>4. HubOK' /\ SendersOK'
  BY <1>1 DEF HubOK, SendersOK, hubVars
<1>5. AppendsKeepToLimit' /\ GuestsActForOwners'
  BY <1>1, NothingIsRight DEF AppendsKeepToLimit, RowsOf
<1> QED BY <1>2, <1>3, <1>4, <1>5

-----------------------------------------------------------------------------
(* The hub changes no more of a guest than that it sends or has sent.        *)
LEMMA HubMoves ==
  ASSUME GuestConstants, IInv, UNCHANGED guestVars,
         \/ guest' = guest
         \/ \E g \in Guests, call \in {"running", "publish"} :
              guest[g].call # "none" /\ guest' = [guest EXCEPT ![g].call = call],
         HubOK', SendersOK', clients' \union gone' \subseteq Clients,
         recent' \in [Clients \union {"channel"} -> Nat],
         recent'["channel"] <= MaxRate, \A c \in Clients : recent'[c] <= ClientRate,
         sending' \in [Publishers -> SUBSET Clients], missed' \in [Publishers -> SUBSET Clients]
  PROVE  IInv'
<1> USE DEF IInv
<1>1. guest \in [Guests -> GuestType]
  BY Types
<1>2. guest' \in [Guests -> GuestType] /\ GuestsOK'
  <2>1. CASE guest' = guest
    BY <1>1, <2>1 DEF GuestsOK, Knows, guestVars
  <2>2. ASSUME NEW g \in Guests, NEW call \in {"running", "publish"},
               guest[g].call # "none", guest' = [guest EXCEPT ![g].call = call]
        PROVE  guest' \in [Guests -> GuestType] /\ GuestsOK'
    <3> DEFINE a == [guest[g] EXCEPT !.call = call]
    <3>1. a \in GuestType /\ guest' = [guest EXCEPT ![g] = a]
      BY <1>1, <2>2 DEF GuestType, Calls
    <3>2. a.user = guest[g].user /\ a.owner = guest[g].owner /\ a.call = call
      BY <1>1 DEF GuestType
    <3> HIDE DEF a
    <3> QED BY <1>1, <2>2, <3>1, <3>2 DEF GuestsOK, Knows, guestVars
  <2> QED BY <2>1, <2>2
<1>3. TypeOK'
  BY <1>2 DEF TypeOK, GuestType, Person, Calls, guestVars
<1>4. AppendsKeepToLimit' /\ GuestsActForOwners'
  BY DEF AppendsKeepToLimit, GuestsActForOwners, RowsOf, guestVars
<1> QED BY <1>2, <1>3, <1>4

LEMMA HubTypes ==
  ASSUME TypeOK, GuestConstants
  PROVE  /\ clients \subseteq Clients /\ gone \subseteq Clients
         /\ recent \in [Clients \union {"channel"} -> Nat]
         /\ recent["channel"] <= MaxRate /\ \A c \in Clients : recent[c] <= ClientRate
         /\ sending \in [Publishers -> SUBSET Clients]
         /\ missed \in [Publishers -> SUBSET Clients]
         /\ "channel" \notin Clients /\ MaxRate \in Nat /\ ClientRate \in Nat
BY DEF TypeOK, GuestConstants

LEMMA DisconnectKeeps ==
  ASSUME GuestConstants, IInv, NEW c \in Clients, disconnect(c)
  PROVE  /\ clients' \union gone' \subseteq Clients
         /\ recent' \in [Clients \union {"channel"} -> Nat]
         /\ recent'["channel"] <= MaxRate /\ \A d \in Clients : recent'[d] <= ClientRate
         /\ clients' \intersect gone' = {}
         /\ \A p \in Publishers : /\ missed[p] \subseteq clients' \union gone'
                                  /\ missed[p] \intersect clients' \subseteq sending[p] \ {c}
BY HubTypes DEF disconnect, IInv, HubOK

LEMMA ClientsKeep ==
  ASSUME GuestConstants, IInv, NEW c \in Clients, Connect(c) \/ Leave(c) \/ ClientSends(c)
  PROVE  IInv'
<1>1. CASE Connect(c)
  <2>1. HubOK' /\ SendersOK'
    BY <1>1 DEF Connect, HubOK, SendersOK, IInv
  <2> QED BY <1>1, <2>1, HubTypes, HubMoves DEF Connect, IInv
<1>2. CASE Leave(c)
  <2>1. HubOK' /\ SendersOK'
    BY <1>2, DisconnectKeeps DEF Leave, HubOK, SendersOK, IInv
  <2> QED BY <1>2, <2>1, DisconnectKeeps, HubTypes, HubMoves DEF Leave, IInv
<1>3. CASE ClientSends(c)
  <2>1. CASE /\ ClientMay(c) /\ recent' = [recent EXCEPT ![c] = @ + 1]
             /\ Send(c, clients \ {c}) /\ UNCHANGED <<clients, gone>>
    <3>1. HubOK' /\ SendersOK'
      BY <1>3, <2>1, HubTypes DEF ClientSends, Send, HubOK, SendersOK, GuestConstants, IInv
    <3>2. /\ recent' \in [Clients \union {"channel"} -> Nat]
          /\ recent'["channel"] <= MaxRate /\ \A d \in Clients : recent'[d] <= ClientRate
      BY <2>1, HubTypes DEF ClientMay, IInv
    <3>3. /\ sending' \in [Publishers -> SUBSET Clients]
          /\ missed' \in [Publishers -> SUBSET Clients]
      BY <2>1, HubTypes DEF Send, IInv
    <3> QED BY <1>3, <2>1, <3>1, <3>2, <3>3, HubTypes, HubMoves DEF ClientSends, IInv
  <2>2. CASE disconnect(c) /\ UNCHANGED <<sending, missed>>
    <3>1. HubOK' /\ SendersOK'
      BY <1>3, <2>2, DisconnectKeeps DEF ClientSends, HubOK, SendersOK, IInv
    <3> QED BY <1>3, <2>2, <3>1, DisconnectKeeps, HubTypes, HubMoves DEF ClientSends, IInv
  <2> QED BY <1>3, <2>1, <2>2 DEF ClientSends
<1> QED BY <1>1, <1>2, <1>3

LEMMA PublishKeeps ==
  ASSUME GuestConstants, IInv, NEW g \in Guests, Publish(g)
  PROVE  IInv'
<1>1. g \in Publishers
  BY DEF Publishers
<1>2. HubOK' /\ SendersOK'
  <2>1. guest \in [Guests -> GuestType]
    BY Types DEF IInv
  <2> QED BY <1>1, <2>1, HubTypes DEF Publish, Send, HubOK, SendersOK, GuestType, IInv
<1>3. /\ recent' \in [Clients \union {"channel"} -> Nat]
      /\ recent'["channel"] <= MaxRate /\ \A d \in Clients : recent'[d] <= ClientRate
  BY HubTypes DEF Publish, ChannelMay, IInv
<1>4. /\ sending' \in [Publishers -> SUBSET Clients]
      /\ missed' \in [Publishers -> SUBSET Clients]
  BY <1>1, HubTypes DEF Publish, Send, IInv
<1>5. guest' = guest \/ guest' = [guest EXCEPT ![g].call = "publish"]
  BY DEF Publish
<1>6. /\ guest[g].call # "none" /\ UNCHANGED <<guestVars, clients, gone>>
  BY DEF Publish, MayCall
<1> QED BY <1>2, <1>3, <1>4, <1>5, <1>6, HubTypes, HubMoves DEF IInv

LEMMA SecondKeeps ==
  ASSUME GuestConstants, IInv, NEW x \in Clients \union {"channel"}, SecondPasses(x)
  PROVE  IInv'
<1>1. /\ recent' \in [Clients \union {"channel"} -> Nat]
      /\ recent'["channel"] <= MaxRate /\ \A d \in Clients : recent'[d] <= ClientRate
  BY HubTypes DEF SecondPasses, IInv
<1>2. HubOK' /\ SendersOK'
  BY DEF SecondPasses, HubOK, SendersOK, IInv
<1> QED BY <1>1, <1>2, HubTypes, HubMoves DEF SecondPasses, IInv

LEMMA SendKeeps ==
  ASSUME GuestConstants, IInv, NEW p \in Publishers, SendText(p)
  PROVE  IInv'
<1>1. PICK c \in sending[p] :
        /\ Sent(p, sending[p] \ {c})
        /\ \/ /\ c \in clients
              /\ missed' = [missed EXCEPT ![p] = @ \ {c}]
              /\ UNCHANGED <<clients, gone, recent>>
           \/ disconnect(c) /\ UNCHANGED missed
  BY DEF SendText
<1>2. c \in Clients
  BY HubTypes DEF IInv
<1>3. sending' = [sending EXCEPT ![p] = sending[p] \ {c}]
      /\ sending' \in [Publishers -> SUBSET Clients]
  BY <1>1, HubTypes DEF Sent, IInv
<1>4. guest' = guest \/ (p \in Guests /\ guest' = [guest EXCEPT ![p].call = "running"])
  BY <1>1 DEF Sent
<1>5. /\ p \in Guests => guest[p].call # "none"
      /\ SendersOK'
  <2>1. guest \in [Guests -> GuestType] /\ sending \in [Publishers -> SUBSET Clients]
    BY Types, HubTypes DEF IInv
  <2> QED BY <1>1, <1>3, <2>1 DEF Sent, SendersOK, Publishers, GuestType, IInv
<1>6. CASE /\ c \in clients /\ missed' = [missed EXCEPT ![p] = @ \ {c}]
           /\ UNCHANGED <<clients, gone, recent>>
  <2>1. missed' \in [Publishers -> SUBSET Clients]
    BY <1>6, HubTypes DEF IInv
  <2>2. HubOK'
    BY <1>3, <1>6, HubTypes DEF HubOK, IInv
  <2> QED BY <1>3, <1>4, <1>5, <1>6, <2>1, <2>2, HubTypes, HubMoves DEF SendText, IInv
<1>7. CASE disconnect(c) /\ UNCHANGED missed
  <2>1. HubOK'
    BY <1>2, <1>3, <1>7, DisconnectKeeps, HubTypes DEF HubOK, IInv
  <2> QED BY <1>2, <1>3, <1>4, <1>5, <1>7, <2>1, DisconnectKeeps, HubTypes, HubMoves
          DEF SendText, IInv
<1> QED BY <1>1, <1>6, <1>7

-----------------------------------------------------------------------------
LEMMA InvInit == GuestConstants /\ Init => IInv
<1> SUFFICES ASSUME GuestConstants, Init PROVE IInv
  OBVIOUS
<1>1. TypeOK
  <2>1. 0 \in 0..Cardinality(Rows)
    <3>1. Cardinality(Rows) \in Nat
      BY FS_CardinalityType DEF GuestConstants
    <3> QED BY <3>1
  <2>2. /\ rows \in [Ids -> RowType] /\ guest \in [Guests -> GuestType]
    BY <2>1 DEF Init, RowType, GuestType, Person, Calls, Idle, NoRow
  <2>3. /\ recent \in [Clients \union {"channel"} -> Nat]
        /\ recent["channel"] <= MaxRate /\ \A c \in Clients : recent[c] <= ClientRate
    BY DEF Init, GuestConstants
  <2>4. /\ seen \in [Guests -> SUBSET Users] /\ raced \in BOOLEAN
        /\ {sending, missed} \subseteq [Publishers -> SUBSET Clients]
    BY DEF Init
  <2> QED BY <2>2, <2>3, <2>4 DEF Init, TypeOK, RowType, GuestType, Person, Calls, Nothing
<1>2. GuestsOK /\ HubOK /\ SendersOK /\ GuestsActForOwners
  BY DEF Init, GuestsOK, Knows, HubOK, SendersOK, GuestsActForOwners, Publishers, Idle, Nothing
<1>3. ASSUME NEW u \in Users PROVE Cardinality(RowsOf(u)) <= MaxRows
  <2>1. RowsOf(u) = {}
    BY DEF Init, RowsOf, GuestConstants, NoRow, Ids
  <2> QED BY <2>1, FS_EmptySet DEF GuestConstants
<1> QED BY <1>1, <1>2, <1>3 DEF IInv, AppendsKeepToLimit

LEMMA InvStep == GuestConstants /\ IInv /\ [Next]_vars => IInv'
<1> SUFFICES ASSUME GuestConstants, IInv, [Next]_vars PROVE IInv'
  OBVIOUS
<1>1. ASSUME NEW g \in Guests,
             \/ StartForUser(g) \/ StartPublic(g) \/ StartForSource(g) \/ StartForEvent(g)
             \/ Finish(g) \/ CountRows(g) \/ PayUnattended(g) \/ Fetched(g) \/ Publish(g)
             \/ GetPage(g) \/ GetPublicPage(g) \/ ListWallets(g)
             \/ ReadSource(g) \/ CreateInvoicePublic(g)
             \/ \E id \in Ids : GetRow(g, id) \/ GetPublicRow(g, id) \/ DeleteRow(g, id)
             \/ \E id \in Settable : SetRow(g, id)
             \/ \E id \in Rows : AppendRow(g, id)
             \/ \E w \in Users : PayForUser(g, w) \/ CheckGrant(g, w) \/ Fetch(g, w)
                                \/ WalletBalance(g, w) \/ CreateInvoice(g, w)
      PROVE  IInv'
  BY <1>1, StartsKeep, FinishKeeps, LookKeeps, PayKeeps, BillKeeps, CountKeeps, SetKeeps,
     DeleteKeeps, AppendKeeps, PublishKeeps
<1>2. CASE UNCHANGED vars
  <2>1. /\ UNCHANGED <<permissions, grants, watched, rows, guest, seen, raced, last>>
        /\ UNCHANGED hubVars
    BY <1>2 DEF vars
  <2> QED BY <2>1, HubTypes, HubMoves DEF guestVars, hubVars, IInv, HubOK, SendersOK
<1> QED BY <1>1, <1>2, UsersKeep, ClientsKeep, SecondKeeps, SendKeeps DEF Next

(* The invariant, for any users, guests, rows, clients and permissions.      *)
THEOREM InvariantHolds == ASSUME GuestConstants PROVE Spec => []IInv
<1>1. Init => IInv
  BY InvInit
<1>2. IInv /\ [Next]_vars => IInv'
  BY InvStep
<1> QED BY <1>1, <1>2, PTL DEF Spec

(* Type correctness.                                                         *)
THEOREM TypesHold == ASSUME GuestConstants PROVE Spec => []TypeOK
<1>1. IInv => TypeOK
  BY DEF IInv
<1> QED BY <1>1, InvariantHolds, PTL

(* The host lets a guest read, write, pay and bill only for whom it runs, or
   with the grant of the wallet's owner (host.py, background_payments.py).   *)
THEOREM GuestsAct == ASSUME GuestConstants PROVE Spec => []GuestsActForOwners
<1>1. IInv => GuestsActForOwners
  BY DEF IInv
<1> QED BY <1>1, InvariantHolds, PTL

(* Public appends keep to max_rows_per_source, unless two of them counted the
   same rows (host.py 165-193).                                              *)
THEOREM AppendsAreLimited == ASSUME GuestConstants PROVE Spec => []AppendsKeepToLimit
<1>1. IInv => AppendsKeepToLimit
  BY DEF IInv
<1> QED BY <1>1, InvariantHolds, PTL

(* Every client that stays is sent what is published, whoever else leaves or
   fails in between (websockets.py 80-173).                                  *)
THEOREM ClientsHear == ASSUME GuestConstants PROVE Spec => []ClientsAreSent
<1>1. IInv => ClientsAreSent
  BY DEF IInv, HubOK, ClientsAreSent
<1> QED BY <1>1, InvariantHolds, PTL
=============================================================================
